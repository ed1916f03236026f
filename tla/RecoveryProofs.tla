---------------------------- MODULE RecoveryProofs ----------------------------
(***************************************************************************)
(* Theorems about Recovery, for any number of files, writes and faults.    *)
(***************************************************************************)
EXTENDS Recovery, FiniteOrders, SequenceTheorems

-----------------------------------------------------------------------------
(***************************************************************************)
(* Types.                                                                  *)
(***************************************************************************)
DirType == [files : SUBSET Files, current : 0..MaxFile]

\* What is in the files when there have been w writes.
Entries(w) == [seq : 1..w, id : 1..w]
EditsTo(w) == [log : Nat, next : Nat, last : 0..w, add : SUBSET Numbers, del : SUBSET Numbers]
TableType  == [entries : SUBSET Entry, deep : BOOLEAN]
Records(f, w) ==
    IF f[1] = "log" THEN Entries(w) ELSE IF f[1] = "table" THEN TableType ELSE EditsTo(w)

\* The files D, of which S is synced.
FilesOK(D, S, w) ==
    /\ D = [f \in Files |-> D[f]] /\ S = [f \in Files |-> S[f]]
    /\ \A f \in Files : D[f] \in Seq(Records(f, w)) /\ S[f] \in Nat /\ S[f] <= Len(D[f])

DirsOK   == dir \in DirType /\ older \subseteq DirType
DiskType == FilesOK(data, synced, writes)
NumberType ==
    /\ logfile_number_ \in 0..MaxFile /\ log_number_ \in Nat
    /\ manifest_file_number_ \in 0..MaxFile /\ next_file_number_ \in Nat \ {0}
    /\ has_descriptor_ \in BOOLEAN
MemType ==
    /\ mem_ \subseteq Entries(writes) /\ imm_ \subseteq Entries(writes) /\ has_imm_ \in BOOLEAN
    /\ last_sequence_ \in 0..writes
OpenType ==
    phase \in {"down", "open", "up", "broken"} /\ reuse \in BOOLEAN /\ todo \subseteq Numbers
VersionType ==
    current_ \subseteq Numbers /\ pinned \subseteq Numbers /\ pending_outputs_ \subseteq Numbers
CompactionType == [base : SUBSET Numbers, output : Numbers]
ApplyType ==
    /\ apply.pc \in {"none", "append", "sync", "current", "install"}
    /\ apply.owner \in {"open", "flush", "compaction"}
    /\ apply.edit \in EditsTo(writes)
    /\ apply = [pc |-> apply.pc, owner |-> apply.owner, edit |-> apply.edit]
BgType ==
    /\ flush \in 0..MaxFile /\ (c = None \/ c \in CompactionType)
    /\ ApplyType /\ bg_error_ \in BOOLEAN
HistoryType ==
    /\ writes \in 0..MaxWrites /\ hard \subseteq Entries(writes) /\ faults \in 0..MaxFaults

\* Who is at work in which phase, and the numbers that there are by then.
PhaseType ==
    /\ phase = "up" => logfile_number_ # 0
    /\ phase \in {"open", "up"} => manifest_file_number_ # 0
    /\ apply.pc # "none" => /\ phase = IF apply.owner = "open" THEN "open" ELSE "up"
                            /\ logfile_number_ # 0
    /\ apply.owner # "open" => apply.pc # "none"
    /\ apply.owner = "flush" => flush # 0
    /\ apply.owner = "compaction" => c # None
    /\ flush # 0 \/ c # None \/ pinned # {} => phase = "up"
    /\ phase = "down" => apply = NoApply

TypeInv ==
    /\ DirsOK /\ DiskType /\ NumberType /\ MemType /\ OpenType /\ VersionType /\ BgType
    /\ HistoryType /\ PhaseType

-----------------------------------------------------------------------------
(***************************************************************************)
(* Files and directories.                                                  *)
(***************************************************************************)
LEMMA FileIs ==
    ASSUME NEW n \in Numbers
    PROVE  /\ Log(n) \in Files /\ TableFile(n) \in Files /\ Manifest(n) \in Files
           /\ Log(n)[1] = "log" /\ TableFile(n)[1] = "table" /\ Manifest(n)[1] = "manifest"
           /\ Log(n)[2] = n /\ TableFile(n)[2] = n /\ Manifest(n)[2] = n
BY DEF Files, Log, TableFile, Manifest

LEMMA NumbersAre ==
    /\ MaxFile \in Nat \ {0} /\ MaxWrites \in Nat /\ MaxFaults \in Nat
    /\ \A n \in Numbers : n \in Nat /\ n # 0 /\ n <= MaxFile
BY BoundsAssumption DEF Numbers

LEMMA RecordsAre ==
    ASSUME NEW n \in Numbers, NEW w
    PROVE  /\ Records(Log(n), w) = Entries(w) /\ Records(TableFile(n), w) = TableType
           /\ Records(Manifest(n), w) = EditsTo(w)
BY FileIs DEF Records

LEMMA FunctionChanges ==
    ASSUME NEW S, NEW F, F = [g \in S |-> F[g]], NEW f \in S, NEW x
    PROVE  /\ [F EXCEPT ![f] = x] = [g \in S |-> [F EXCEPT ![f] = x][g]]
           /\ [F EXCEPT ![f] = x][f] = x
           /\ \A g \in S : g # f => [F EXCEPT ![f] = x][g] = F[g]
OBVIOUS

\* A file gets new contents, of which none or as much as before is synced.
LEMMA FilesWritten ==
    ASSUME NEW D, NEW S, NEW w, FilesOK(D, S, w), NEW f \in Files, NEW r \in Seq(Records(f, w))
    PROVE  /\ FilesOK([D EXCEPT ![f] = r], [S EXCEPT ![f] = 0], w)
           /\ S[f] <= Len(r) => FilesOK([D EXCEPT ![f] = r], S, w)
<1>1. Len(r) \in Nat /\ 0 <= Len(r)
  BY LenProperties
<1>2. PICK E : E = [D EXCEPT ![f] = r]
  OBVIOUS
<1>3. PICK T : T = [S EXCEPT ![f] = 0]
  OBVIOUS
<1>4. /\ E = [g \in Files |-> E[g]] /\ E[f] = r /\ \A g \in Files : g # f => E[g] = D[g]
      /\ T = [g \in Files |-> T[g]] /\ T[f] = 0 /\ \A g \in Files : g # f => T[g] = S[g]
  BY <1>2, <1>3, FunctionChanges DEF FilesOK
<1>5. FilesOK(E, T, w)
  <2>1. ASSUME NEW g \in Files
        PROVE  E[g] \in Seq(Records(g, w)) /\ T[g] \in Nat /\ T[g] <= Len(E[g])
    <3>1. CASE g = f
      BY <1>1, <1>4, <3>1
    <3>2. CASE g # f
      <4>1. E[g] = D[g] /\ T[g] = S[g]
        BY <1>4, <3>2
      <4> QED BY <4>1 DEF FilesOK
    <3> QED BY <3>1, <3>2
  <2> QED BY <1>4, <2>1 DEF FilesOK
<1>6. S[f] <= Len(r) => FilesOK(E, S, w)
  BY <1>1, <1>4 DEF FilesOK
<1> QED BY <1>2, <1>3, <1>5, <1>6

LEMMA FilesSynced ==
    ASSUME NEW D, NEW S, NEW w, FilesOK(D, S, w), NEW f \in Files
    PROVE  FilesOK(D, [S EXCEPT ![f] = Len(D[f])], w)
<1>1. Len(D[f]) \in Nat
  BY LenProperties DEF FilesOK
<1> QED BY <1>1 DEF FilesOK

\* A file is written and synced as a whole.
LEMMA FilesStored ==
    ASSUME NEW D, NEW S, NEW w, FilesOK(D, S, w), NEW f \in Files, NEW r \in Seq(Records(f, w))
    PROVE  FilesOK([D EXCEPT ![f] = r], [S EXCEPT ![f] = Len(r)], w)
<1>1. Len(r) \in Nat /\ Len(r) <= Len(r)
  BY LenProperties
<1>2. PICK E : E = [D EXCEPT ![f] = r]
  OBVIOUS
<1>3. PICK T : T = [S EXCEPT ![f] = Len(r)]
  OBVIOUS
<1>4. /\ E = [g \in Files |-> E[g]] /\ E[f] = r /\ \A g \in Files : g # f => E[g] = D[g]
      /\ T = [g \in Files |-> T[g]] /\ T[f] = Len(r)
      /\ \A g \in Files : g # f => T[g] = S[g]
  BY <1>2, <1>3, FunctionChanges DEF FilesOK
<1>5. FilesOK(E, T, w)
  BY <1>1, <1>4 DEF FilesOK
<1> QED BY <1>2, <1>3, <1>5

LEMMA EntriesGrow ==
    ASSUME NEW w \in Nat, NEW v \in Nat, w <= v
    PROVE  Entries(w) \subseteq Entries(v) /\ EditsTo(w) \subseteq EditsTo(v)
BY DEF Entries, EditsTo

LEMMA FilesGrow ==
    ASSUME NEW D, NEW S, NEW w \in Nat, NEW v \in Nat, w <= v, FilesOK(D, S, w)
    PROVE  FilesOK(D, S, v)
<1>1. ASSUME NEW f \in Files
      PROVE  D[f] \in Seq(Records(f, v))
  <2>1. Records(f, w) \subseteq Records(f, v)
    BY EntriesGrow DEF Records
  <2> QED BY <2>1, SeqMonotonic DEF FilesOK
<1> QED BY <1>1 DEF FilesOK

LEMMA DirChanges ==
    ASSUME DirsOK, NEW d \in DirType, ChangeDir(d)
    PROVE  DirsOK'
BY DEF ChangeDir, DirsOK

LEMMA DirsGrow ==
    ASSUME DirsOK, NEW f \in Files
    PROVE  Create(f) \in DirType /\ [dir EXCEPT !.files = @ \ {f}] \in DirType
BY DEF DirsOK, DirType, Create

LEMMA DirDeletes ==
    ASSUME DirsOK, DeleteObsoleteFiles
    PROVE  DirsOK'
<1>1. [dir EXCEPT !.files = @ \ Obsolete] \in DirType
  BY DEF DirsOK, DirType, Obsolete
<1> QED BY <1>1, DirChanges DEF DeleteObsoleteFiles, DirsOK

\* What a file holds.
LEMMA LogIs ==
    ASSUME TypeInv, NEW n \in Numbers
    PROVE  /\ data[Log(n)] \in Seq(Entries(writes)) /\ InLog(n) \subseteq Entries(writes)
           /\ IsFiniteSet(InLog(n))
<1>1. data[Log(n)] \in Seq(Entries(writes))
  BY FileIs, RecordsAre DEF TypeInv, DiskType, FilesOK
<1>2. /\ Len(data[Log(n)]) \in Nat /\ DOMAIN data[Log(n)] = 1..Len(data[Log(n)])
  BY <1>1, LenProperties
<1>3. InLog(n) \subseteq Entries(writes)
  BY <1>1, <1>2, ElementOfSeq DEF InLog
<1>4. IsFiniteSet(1..Len(data[Log(n)]))
  BY <1>2, FS_Interval
<1>5. IsFiniteSet(InLog(n))
  BY <1>2, <1>4, ImageIsFinite DEF InLog
<1> QED BY <1>1, <1>3, <1>5

LEMMA ManifestIs ==
    ASSUME TypeInv, NEW n \in Numbers
    PROVE  /\ data[Manifest(n)] \in Seq(EditsTo(writes))
           /\ synced[Manifest(n)] \in Nat /\ synced[Manifest(n)] <= Len(data[Manifest(n)])
           /\ Len(data[Manifest(n)]) \in Nat
           /\ DOMAIN data[Manifest(n)] = 1..Len(data[Manifest(n)])
           /\ \A i \in 1..Len(data[Manifest(n)]) : data[Manifest(n)][i] \in EditsTo(writes)
<1>1. data[Manifest(n)] \in Seq(EditsTo(writes))
  BY FileIs, RecordsAre DEF TypeInv, DiskType, FilesOK
<1> QED BY <1>1, FileIs, LenProperties, ElementOfSeq DEF TypeInv, DiskType, FilesOK

LEMMA ContentsAre ==
    ASSUME TypeInv, NEW n \in Numbers
    PROVE  Contents(n) \subseteq Entry
<1>1. data[TableFile(n)] \in Seq(TableType)
  BY FileIs, RecordsAre DEF TypeInv, DiskType, FilesOK
<1>2. data[TableFile(n)] # <<>> => data[TableFile(n)][1] \in TableType
  <2>1. data[TableFile(n)] # <<>> => 1 \in 1..Len(data[TableFile(n)])
    BY <1>1, LenProperties, EmptySeq
  <2> QED BY <1>1, <2>1, ElementOfSeq
<1> QED BY <1>2 DEF Contents, TableType
-----------------------------------------------------------------------------
(***************************************************************************)
(* Every step keeps the types.                                             *)
(***************************************************************************)
LEMMA TypesKept ==
    ASSUME TypeInv, writes' = writes
    PROVE  /\ UNCHANGED <<dir, older>> => DirsOK'
           /\ UNCHANGED <<data, synced>> => DiskType'
           /\ UNCHANGED <<logfile_number_, log_number_, manifest_file_number_,
                          next_file_number_, has_descriptor_>> => NumberType'
           /\ UNCHANGED <<mem_, imm_, has_imm_, last_sequence_>> => MemType'
           /\ UNCHANGED <<phase, reuse, todo>> => OpenType'
           /\ UNCHANGED <<current_, pinned, pending_outputs_>> => VersionType'
           /\ UNCHANGED apply => ApplyType'
           /\ UNCHANGED <<flush, c, bg_error_>> /\ ApplyType' => BgType'
           /\ UNCHANGED <<hard, faults>> => HistoryType'
           /\ UNCHANGED <<phase, logfile_number_, manifest_file_number_, apply, flush, c, pinned>>
              => PhaseType'
BY DEF TypeInv, DirsOK, DiskType, FilesOK, NumberType, MemType, OpenType, VersionType, ApplyType,
       BgType, HistoryType, PhaseType

LEMMA EditIs ==
    ASSUME NEW log, NEW next, NEW last, NEW add, NEW del
    PROVE  /\ Edit(log, next, last, add, del).log = log
           /\ Edit(log, next, last, add, del).next = next
           /\ Edit(log, next, last, add, del).last = last
           /\ Edit(log, next, last, add, del).add = add
           /\ Edit(log, next, last, add, del).del = del
BY DEF Edit

LEMMA EditTyped ==
    ASSUME NEW log \in Nat, NEW next \in Nat, NEW w \in Nat, NEW last \in 0..w,
           NEW add \in SUBSET Numbers, NEW del \in SUBSET Numbers
    PROVE  Edit(log, next, last, add, del) \in EditsTo(w)
BY DEF Edit, EditsTo

LEMMA ApplyTyped ==
    ASSUME NEW pc \in {"none", "append", "sync", "current", "install"},
           NEW owner \in {"open", "flush", "compaction"}, NEW edit \in EditsTo(writes'),
           apply' = [pc |-> pc, owner |-> owner, edit |-> edit]
    PROVE  ApplyType' /\ apply'.pc = pc /\ apply'.owner = owner /\ apply'.edit = edit
BY DEF ApplyType

LEMMA NoApplyIs ==
    ASSUME TypeInv, writes' = writes, apply' = NoApply
    PROVE  /\ ApplyType' /\ apply'.pc = "none" /\ apply'.owner = "open"
           /\ apply'.edit = Edit(0, 0, 0, {}, {})
<1>1. writes \in Nat
  BY NumbersAre DEF TypeInv, HistoryType
<1>2. Edit(0, 0, 0, {}, {}) \in EditsTo(writes')
  BY <1>1, EditTyped
<1> QED BY <1>2, ApplyTyped DEF NoApply

\* LogAndApply goes to its next step.
LEMMA ApplyGoesOn ==
    ASSUME TypeInv, writes' = writes,
           NEW pc \in {"none", "append", "sync", "current", "install"},
           apply' = [apply EXCEPT !.pc = pc]
    PROVE  /\ ApplyType' /\ apply'.pc = pc /\ apply'.owner = apply.owner
           /\ apply'.edit = apply.edit
<1>1. apply' = [pc |-> pc, owner |-> apply.owner, edit |-> apply.edit]
  BY DEF TypeInv, BgType, ApplyType
<1> QED BY <1>1, ApplyTyped DEF TypeInv, BgType, ApplyType

LEMMA Forgotten ==
    ASSUME TypeInv, Forget, UNCHANGED <<writes, hard>>, faults' \in 0..MaxFaults,
           DirsOK', DiskType'
    PROVE  TypeInv'
<1>1. ApplyType' /\ apply'.pc = "none" /\ apply'.owner = "open"
  BY NoApplyIs DEF Forget
<1>2. NumberType' /\ MemType' /\ OpenType' /\ VersionType'
  <2>1. writes \in Nat
    BY NumbersAre DEF TypeInv, HistoryType
  <2>2. /\ has_imm_' \in BOOLEAN /\ has_descriptor_' \in BOOLEAN /\ reuse' \in BOOLEAN
        /\ bg_error_' \in BOOLEAN
    BY Zenon DEF Forget
  <2>3. NumberType'
    BY <2>1, <2>2, NumbersAre DEF Forget, NumberType
  <2>4. MemType'
    BY <2>1, <2>2, NumbersAre DEF Forget, MemType
  <2>5. OpenType' /\ VersionType'
    BY <2>1, <2>2, NumbersAre DEF Forget, OpenType, VersionType
  <2> QED BY <2>3, <2>4, <2>5
<1>3. BgType' /\ HistoryType' /\ PhaseType'
  <2>1. bg_error_' \in BOOLEAN
    BY Zenon DEF Forget
  <2>2. BgType'
    BY <1>1, <2>1, NumbersAre DEF Forget, BgType
  <2>3. HistoryType'
    BY DEF HistoryType, TypeInv
  <2>4. PhaseType'
    BY <1>1 DEF Forget, PhaseType
  <2> QED BY <2>2, <2>3, <2>4
<1> QED BY <1>2, <1>3 DEF TypeInv

\* A fault is counted.
LEMMA Faulty == TypeInv /\ Fault => faults' \in 0..MaxFaults /\ faults < MaxFaults
BY NumbersAre DEF TypeInv, HistoryType, Fault

LEMMA AppendTyped ==
    ASSUME TypeInv, phase \in {"open", "up"}, writes' = writes,
           NEW found \in Seq(EditsTo(writes)), AppendEdit(found)
    PROVE  DirsOK' /\ DiskType'
<1> DEFINE n == manifest_file_number_
           f == Manifest(n)
<1>1. n \in Numbers
  BY NumbersAre DEF TypeInv, PhaseType, NumberType, Numbers
<1>2. f \in Files /\ Records(f, writes) = EditsTo(writes)
  BY <1>1, FileIs, RecordsAre
<1>3. /\ data[f] \in Seq(EditsTo(writes)) /\ synced[f] \in Nat /\ synced[f] <= Len(data[f])
      /\ Len(data[f]) \in Nat
  BY <1>1, ManifestIs
<1>4. CASE has_descriptor_
  <2>1. /\ data' = [data EXCEPT ![f] = data[f] \o found] /\ UNCHANGED <<dir, older, synced>>
    BY <1>4 DEF AppendEdit
  <2>2. data[f] \o found \in Seq(EditsTo(writes)) /\ synced[f] <= Len(data[f] \o found)
    <3>1. Len(found) \in Nat /\ Len(data[f] \o found) = Len(data[f]) + Len(found)
      BY <1>3, ConcatProperties, LenProperties
    <3> QED BY <1>3, <3>1, ConcatProperties
  <2> HIDE DEF f
  <2>3. FilesOK(data', synced', writes')
    BY <1>2, <2>1, <2>2, FilesWritten DEF TypeInv, DiskType
  <2> QED BY <2>1, <2>3, TypesKept DEF DiskType
<1>5. CASE ~has_descriptor_
  <2> DEFINE r == <<Edit(0, 0, 0, current_, {})>> \o found
  <2>1. Written(f, r) /\ ChangeDir(Create(f))
    BY <1>5 DEF AppendEdit
  <2>2. Edit(0, 0, 0, current_, {}) \in EditsTo(writes)
    <3>1. writes \in Nat /\ 0 \in 0..writes
      BY NumbersAre DEF TypeInv, HistoryType
    <3> QED BY <3>1, EditTyped DEF TypeInv, VersionType
  <2>3. r \in Seq(EditsTo(writes))
    <3>1. <<Edit(0, 0, 0, current_, {})>> \in Seq(EditsTo(writes))
      BY <2>2
    <3> QED BY <3>1, ConcatProperties
  <2> HIDE DEF f, r
  <2>4. FilesOK(data', synced', writes')
    BY <1>2, <2>1, <2>3, FilesWritten DEF TypeInv, DiskType, Written
  <2>5. DirsOK'
    BY <1>2, <2>1, DirsGrow, DirChanges DEF TypeInv
  <2> QED BY <2>4, <2>5 DEF DiskType
<1> QED BY <1>4, <1>5

LEMMA ApplyRuns ==
    ASSUME TypeInv, apply.pc # "none"
    PROVE  phase \in {"open", "up"} /\ logfile_number_ # 0 /\ manifest_file_number_ \in Numbers
BY NumbersAre DEF TypeInv, PhaseType, NumberType, Numbers

LEMMA TypeApplyAppend ==
    ASSUME TypeInv, ApplyAppend
    PROVE  TypeInv'
<1>1. /\ apply' = [apply EXCEPT !.pc = "sync"] /\ apply.pc # "none"
      /\ AppendEdit(<<apply.edit>>)
      /\ UNCHANGED <<numberVars, memVars, openVars, versionVars, flush, c, bg_error_, historyVars>>
  BY DEF ApplyAppend
<1>2. <<apply.edit>> \in Seq(EditsTo(writes)) /\ writes' = writes
  BY <1>1 DEF TypeInv, BgType, ApplyType, historyVars
<1>3. DirsOK' /\ DiskType'
  BY <1>1, <1>2, ApplyRuns, AppendTyped
<1>4. ApplyType' /\ apply'.pc = "sync" /\ apply'.owner = apply.owner
  BY <1>1, <1>2, ApplyGoesOn
<1>5. PhaseType'
  BY <1>1, <1>4 DEF TypeInv, PhaseType, openVars, numberVars, memVars, versionVars
<1> QED BY <1>1, <1>2, <1>3, <1>4, <1>5, TypesKept
        DEF TypeInv, numberVars, memVars, openVars, versionVars, historyVars

LEMMA TypeApplySync ==
    ASSUME TypeInv, ApplySync
    PROVE  TypeInv'
<1>1. /\ apply' = [apply EXCEPT !.pc = NextAfterSync] /\ apply.pc # "none"
      /\ UNCHANGED <<dir, data>>
      /\ synced' = [synced EXCEPT ![Manifest(manifest_file_number_)] =
                        Len(data[Manifest(manifest_file_number_)])]
      /\ older' = {}
      /\ UNCHANGED <<numberVars, memVars, openVars, versionVars, flush, c, bg_error_, historyVars>>
  BY DEF ApplySync, SyncFile
<1>2. writes' = writes /\ NextAfterSync \in {"install", "current"}
  BY <1>1 DEF historyVars, NextAfterSync
<1>3. DiskType' /\ DirsOK'
  <2>1. Manifest(manifest_file_number_) \in Files
    BY <1>1, ApplyRuns, FileIs
  <2>2. FilesOK(data', synced', writes')
    BY <1>1, <1>2, <2>1, FilesSynced DEF TypeInv, DiskType
  <2> QED BY <1>1, <2>2 DEF TypeInv, DiskType, DirsOK
<1>4. ApplyType' /\ apply'.pc = NextAfterSync /\ apply'.owner = apply.owner
  BY <1>1, <1>2, ApplyGoesOn
<1>5. PhaseType'
  BY <1>1, <1>2, <1>4 DEF TypeInv, PhaseType, openVars, numberVars, memVars, versionVars
<1> QED BY <1>1, <1>2, <1>3, <1>4, <1>5, TypesKept
        DEF TypeInv, numberVars, memVars, openVars, versionVars, historyVars

LEMMA TypeSetCurrentFile ==
    ASSUME TypeInv, SetCurrentFile
    PROVE  TypeInv'
<1>1. /\ apply' = [apply EXCEPT !.pc = "install"] /\ apply.pc # "none"
      /\ ChangeDir([dir EXCEPT !.current = manifest_file_number_])
      /\ has_descriptor_' = TRUE
      /\ UNCHANGED <<data, synced, log_number_, manifest_file_number_, next_file_number_,
                     memVars, openVars, versionVars, flush, c, bg_error_, historyVars>>
  BY DEF SetCurrentFile
<1>2. writes' = writes
  BY <1>1 DEF historyVars
<1>3. DirsOK'
  <2>1. [dir EXCEPT !.current = manifest_file_number_] \in DirType
    BY DEF TypeInv, DirsOK, DirType, NumberType
  <2> QED BY <1>1, <2>1, DirChanges DEF TypeInv
<1>4. ApplyType' /\ apply'.pc = "install" /\ apply'.owner = apply.owner
  BY <1>1, <1>2, ApplyGoesOn
<1>5. PhaseType' /\ NumberType'
  BY <1>1, <1>4 DEF TypeInv, PhaseType, NumberType, openVars, memVars, versionVars
<1> QED BY <1>1, <1>2, <1>3, <1>4, <1>5, TypesKept
        DEF TypeInv, memVars, openVars, versionVars, historyVars

LEMMA InstallTyped ==
    ASSUME TypeInv, Install, writes' = writes
    PROVE  /\ ApplyType' /\ apply'.pc = "none" /\ apply'.owner = "open"
           /\ current_' \subseteq Numbers /\ log_number_' \in Nat
           /\ logfile_number_ # 0 /\ manifest_file_number_ # 0
           /\ phase = IF apply.owner = "open" THEN "open" ELSE "up"
<1>1. apply' = NoApply /\ apply.pc = "install"
  BY DEF Install
<1>2. apply.edit \in EditsTo(writes)
  BY DEF TypeInv, BgType, ApplyType
<1>3. current_' \subseteq Numbers /\ log_number_' \in Nat
  BY <1>2 DEF Install, EditsTo, TypeInv, VersionType
<1> QED BY <1>1, <1>3, NoApplyIs DEF TypeInv, PhaseType

LEMMA TypeInstallOpen ==
    ASSUME TypeInv, InstallOpen
    PROVE  TypeInv'
<1>1. /\ Install /\ DeleteObsoleteFiles /\ phase' = "up" /\ apply.owner = "open"
      /\ UNCHANGED <<data, synced, manifest_file_number_, next_file_number_, has_descriptor_,
                     memVars, reuse, todo, pinned, pending_outputs_, flush, c, bg_error_,
                     historyVars>>
  BY DEF InstallOpen
<1>2. writes' = writes
  BY <1>1 DEF historyVars
<1>3. /\ ApplyType' /\ apply'.pc = "none" /\ apply'.owner = "open"
      /\ current_' \subseteq Numbers /\ log_number_' \in Nat /\ logfile_number_ # 0
      /\ manifest_file_number_ # 0
  BY <1>1, <1>2, InstallTyped
<1>4. DirsOK'
  BY <1>1, DirDeletes DEF TypeInv
<1>5. NumberType' /\ VersionType' /\ OpenType'
  BY <1>1, <1>3 DEF TypeInv, NumberType, VersionType, OpenType, memVars
<1>6. PhaseType'
  BY <1>1, <1>3 DEF PhaseType, memVars
<1> QED BY <1>1, <1>2, <1>3, <1>4, <1>5, <1>6, TypesKept DEF TypeInv, memVars, historyVars

LEMMA TypeInstallFlush ==
    ASSUME TypeInv, InstallFlush
    PROVE  TypeInv'
<1>1. /\ Install /\ DeleteObsoleteFiles /\ apply.owner = "flush"
      /\ imm_' = {} /\ has_imm_' = FALSE /\ flush' = 0
      /\ UNCHANGED <<data, synced, manifest_file_number_, next_file_number_, has_descriptor_,
                     mem_, logfile_number_, last_sequence_, openVars, pinned,
                     pending_outputs_, c, bg_error_, historyVars>>
  BY DEF InstallFlush
<1>2. writes' = writes
  BY <1>1 DEF historyVars
<1>3. /\ ApplyType' /\ apply'.pc = "none" /\ apply'.owner = "open" /\ phase = "up"
      /\ current_' \subseteq Numbers /\ log_number_' \in Nat /\ logfile_number_ # 0
      /\ manifest_file_number_ # 0
  BY <1>1, <1>2, InstallTyped
<1>4. DirsOK'
  BY <1>1, DirDeletes DEF TypeInv
<1>5. NumberType' /\ VersionType' /\ MemType' /\ BgType'
  <2>1. has_imm_' \in BOOLEAN
    BY <1>1, Zenon
  <2>2. NumberType' /\ VersionType' /\ MemType'
    BY <1>1, <1>2, <1>3, <2>1 DEF TypeInv, NumberType, VersionType, MemType, openVars
  <2>3. BgType'
    BY <1>1, <1>3, NumbersAre DEF TypeInv, BgType
  <2> QED BY <2>2, <2>3
<1>6. PhaseType'
  BY <1>1, <1>3 DEF PhaseType, openVars
<1> QED BY <1>1, <1>2, <1>3, <1>4, <1>5, <1>6, TypesKept DEF TypeInv, openVars, historyVars

LEMMA TypeInstallCompaction ==
    ASSUME TypeInv, InstallCompaction
    PROVE  TypeInv'
<1>1. /\ Install /\ DeleteObsoleteFiles /\ apply.owner = "compaction" /\ c' = None
      /\ pending_outputs_' = pending_outputs_ \ {c.output}
      /\ UNCHANGED <<data, synced, manifest_file_number_, next_file_number_, has_descriptor_,
                     memVars, openVars, pinned, flush, bg_error_, historyVars>>
  BY DEF InstallCompaction
<1>2. writes' = writes
  BY <1>1 DEF historyVars
<1>3. /\ ApplyType' /\ apply'.pc = "none" /\ apply'.owner = "open" /\ phase = "up"
      /\ current_' \subseteq Numbers /\ log_number_' \in Nat /\ logfile_number_ # 0
      /\ manifest_file_number_ # 0
  BY <1>1, <1>2, InstallTyped
<1>4. DirsOK'
  BY <1>1, DirDeletes DEF TypeInv
<1>5. NumberType' /\ VersionType' /\ BgType'
  BY <1>1, <1>2, <1>3 DEF TypeInv, NumberType, VersionType, BgType, memVars
<1>6. PhaseType'
  BY <1>1, <1>3 DEF PhaseType, openVars, memVars
<1> QED BY <1>1, <1>2, <1>3, <1>4, <1>5, <1>6, TypesKept
        DEF TypeInv, memVars, openVars, historyVars
LEMMA FailedAppendTyped ==
    ASSUME TypeInv, ApplyError, RecordOfFailedApply, writes' = writes,
           apply.pc = "append" /\ has_descriptor_ => UNCHANGED <<dir, older>>
    PROVE  DiskType'
<1>1. apply.pc # "none"
  BY DEF ApplyError
<1>2. CASE apply.pc = "append" /\ has_descriptor_
  <2>1. PICK found \in {<<>>, <<apply.edit>>} : AppendEdit(found)
    BY <1>2 DEF RecordOfFailedApply
  <2>2. found \in Seq(EditsTo(writes))
    <3>1. CASE found = <<>>
      BY <3>1, EmptySeq
    <3>2. CASE found = <<apply.edit>>
      BY <3>2 DEF TypeInv, BgType, ApplyType
    <3> QED BY <2>1, <3>1, <3>2
  <2> QED BY <1>1, <2>1, <2>2, AppendTyped, ApplyRuns
<1>3. CASE ~(apply.pc = "append" /\ has_descriptor_)
  BY <1>3, TypesKept DEF RecordOfFailedApply
<1> QED BY <1>2, <1>3

LEMMA TypeApplyFailsOpen ==
    ASSUME TypeInv, ApplyFailsOpen
    PROVE  TypeInv'
<1>1. /\ ApplyError /\ RecordOfFailedApply /\ Forget /\ UNCHANGED <<writes, hard>>
      /\ IF has_descriptor_ THEN UNCHANGED <<dir, older>>
         ELSE ChangeDir([dir EXCEPT !.files = @ \ {Manifest(manifest_file_number_)}])
  BY DEF ApplyFailsOpen
<1>2. faults' \in 0..MaxFaults
  BY <1>1, Faulty DEF ApplyError
<1>3. DiskType'
  BY <1>1, FailedAppendTyped
<1>4. DirsOK'
  <2>1. CASE has_descriptor_
    BY <1>1, <2>1, TypesKept
  <2>2. CASE ~has_descriptor_
    <3>1. Manifest(manifest_file_number_) \in Files
      BY <1>1, ApplyRuns, FileIs DEF ApplyError
    <3> QED BY <1>1, <2>2, <3>1, DirsGrow, DirChanges DEF TypeInv
  <2> QED BY <2>1, <2>2
<1> QED BY <1>1, <1>2, <1>3, <1>4, Forgotten

LEMMA TypeApplyFailsBackground ==
    ASSUME TypeInv, ApplyFailsBackground
    PROVE  TypeInv'
<1>1. /\ ApplyError /\ RecordOfFailedApply /\ UNCHANGED <<dir, older>> /\ apply.owner # "open"
      /\ apply' = NoApply /\ bg_error_' = TRUE /\ flush' = 0
      /\ \/ c' = None /\ pending_outputs_' = pending_outputs_ \ {c.output}
         \/ UNCHANGED <<c, pending_outputs_>>
      /\ UNCHANGED <<numberVars, memVars, openVars, current_, pinned, writes, hard>>
  BY DEF ApplyFailsBackground
<1>2. faults' \in 0..MaxFaults
  BY <1>1, Faulty DEF ApplyError
<1>3. DiskType'
  BY <1>1, FailedAppendTyped
<1>4. ApplyType' /\ apply'.pc = "none" /\ apply'.owner = "open"
  BY <1>1, NoApplyIs
<1>5. bg_error_' \in BOOLEAN
  BY <1>1, Zenon
<1>6. BgType' /\ VersionType'
  BY <1>1, <1>4, <1>5, NumbersAre DEF TypeInv, BgType, VersionType
<1>7. phase = "up" /\ phase' = phase
  BY <1>1, ApplyRuns DEF TypeInv, PhaseType, openVars, ApplyError
<1>8. PhaseType' /\ HistoryType'
  BY <1>1, <1>2, <1>4, <1>7 DEF TypeInv, PhaseType, HistoryType, numberVars, memVars
<1> QED BY <1>1, <1>3, <1>6, <1>8, TypesKept DEF TypeInv, numberVars, memVars, openVars

\* A file is created, under a new number.
LEMMA CreatedTyped ==
    ASSUME TypeInv, NEW n \in Numbers, NewFileNumber(n),
           NEW f \in {Log(n), TableFile(n)}, ChangeDir(Create(f)), Written(f, <<>>),
           writes' = writes
    PROVE  DirsOK' /\ DiskType' /\ next_file_number_' \in Nat \ {0}
<1>1. f \in Files
  BY FileIs
<1>2. DirsOK'
  BY <1>1, DirsGrow, DirChanges DEF TypeInv
<1>3. DiskType'
  <2>1. <<>> \in Seq(Records(f, writes))
    BY EmptySeq
  <2> QED BY <1>1, <2>1, FilesWritten DEF TypeInv, DiskType, Written
<1>4. next_file_number_' \in Nat \ {0}
  BY NumbersAre DEF NewFileNumber
<1> QED BY <1>2, <1>3, <1>4

\* A table is complete and synced.
LEMMA TableTyped ==
    ASSUME TypeInv, NEW n \in Numbers, NEW entries \in SUBSET Entry, NEW deep \in BOOLEAN,
           data' = [data EXCEPT ![TableFile(n)] = <<TableOf(entries, deep)>>],
           SyncFile(TableFile(n)), writes' = writes
    PROVE  DiskType' /\ older' = {}
<1>1. TableFile(n) \in Files /\ Records(TableFile(n), writes) = TableType
  BY FileIs, RecordsAre
<1>2. PICK r : r = <<TableOf(entries, deep)>>
  OBVIOUS
<1>3. r \in Seq(TableType)
  <2>1. TableOf(entries, deep) \in TableType
    BY DEF TableOf, TableType
  <2> QED BY <1>2, <2>1
<1>4. data' = [data EXCEPT ![TableFile(n)] = r] /\ data'[TableFile(n)] = r
  BY <1>1, <1>2, FunctionChanges DEF TypeInv, DiskType, FilesOK
<1>5. synced' = [synced EXCEPT ![TableFile(n)] = Len(r)] /\ older' = {}
  BY <1>4 DEF SyncFile
<1>6. FilesOK(data', synced', writes')
  <2>1. PICK f : f = TableFile(n)
    OBVIOUS
  <2>2. FilesOK(data, synced, writes) /\ f \in Files /\ r \in Seq(Records(f, writes))
    BY <1>1, <1>3, <2>1 DEF TypeInv, DiskType
  <2>3. FilesOK([data EXCEPT ![f] = r], [synced EXCEPT ![f] = Len(r)], writes)
    BY <2>2, FilesStored
  <2> QED BY <1>4, <1>5, <2>1, <2>3
<1> QED BY <1>5, <1>6 DEF DiskType

LEMMA TypePut ==
    ASSUME TypeInv, NEW sync \in BOOLEAN, Put(sync)
    PROVE  TypeInv'
<1>1. PICK e : e = [seq |-> last_sequence_ + 1, id |-> writes + 1]
  OBVIOUS
<1> DEFINE n == logfile_number_
           f == Log(n)
<1>2. /\ phase = "up" /\ writes < MaxWrites /\ writes' = writes + 1
      /\ data' = [data EXCEPT ![f] = Append(data[f], e)]
      /\ mem_' = mem_ \cup {e} /\ hard' \subseteq hard \cup {e}
      /\ \/ synced' = [synced EXCEPT ![f] = Len(data'[f])] /\ older' = {}
         \/ UNCHANGED <<synced, older>>
      /\ last_sequence_' = last_sequence_ + 1
      /\ UNCHANGED <<dir, numberVars, imm_, has_imm_, logfile_number_, openVars, versionVars,
                     bgVars, faults>>
  BY <1>1 DEF Put, SyncFile
<1>3. writes \in Nat /\ last_sequence_ \in Nat /\ last_sequence_ <= writes /\ MaxWrites \in Nat
  BY NumbersAre DEF TypeInv, HistoryType, MemType
<1>4. n \in Numbers
  BY <1>2, NumbersAre DEF TypeInv, PhaseType, NumberType, Numbers
<1>5. f \in Files /\ Records(f, writes') = Entries(writes') /\ e \in Entries(writes')
  <2>1. f \in Files
    BY <1>4, FileIs
  <2>2. PICK w : w = writes'
    OBVIOUS
  <2>3. Records(f, w) = Entries(w)
    BY <1>4, RecordsAre
  <2>4. last_sequence_ + 1 \in 1..w /\ writes + 1 \in 1..w
    BY <1>2, <1>3, <2>2
  <2>5. e \in Entries(w)
    BY <1>1, <2>4 DEF Entries
  <2> QED BY <2>1, <2>2, <2>3, <2>5
<1>6. FilesOK(data, synced, writes')
  BY <1>2, <1>3, FilesGrow DEF TypeInv, DiskType
<1>7. PICK r : r = Append(data[f], e)
  OBVIOUS
<1>8. /\ r \in Seq(Entries(writes')) /\ Len(r) = Len(data[f]) + 1 /\ Len(data[f]) \in Nat
      /\ synced[f] \in Nat /\ synced[f] <= Len(data[f])
  <2>1. data[f] \in Seq(Entries(writes'))
    BY <1>5, <1>6 DEF FilesOK
  <2> HIDE DEF f
  <2> QED BY <1>5, <1>6, <1>7, <2>1, AppendProperties, LenProperties DEF FilesOK
<1>9. DiskType'
  <2> HIDE DEF f
  <2>1. data' = [data EXCEPT ![f] = r] /\ data'[f] = r
    BY <1>2, <1>5, <1>7, FunctionChanges DEF TypeInv, DiskType, FilesOK
  <2>2. synced' = [synced EXCEPT ![f] = Len(r)] \/ synced' = synced
    BY <1>2, <2>1
  <2>3. synced[f] <= Len(r)
    BY <1>8
  <2>4. PICK w : w = writes'
    OBVIOUS
  <2>5. FilesOK(data, synced, w) /\ r \in Seq(Records(f, w))
    BY <1>5, <1>6, <1>8, <2>4
  <2>6. CASE synced' = [synced EXCEPT ![f] = Len(r)]
    BY <1>5, <2>1, <2>4, <2>5, <2>6, FilesStored DEF DiskType
  <2>7. CASE synced' = synced
    BY <1>5, <2>1, <2>3, <2>4, <2>5, <2>7, FilesWritten DEF DiskType
  <2> QED BY <2>2, <2>6, <2>7
<1>10. Entries(writes) \subseteq Entries(writes') /\ EditsTo(writes) \subseteq EditsTo(writes')
  BY <1>2, <1>3, EntriesGrow
<1> HIDE DEF f, n
<1>11. DirsOK' /\ MemType' /\ HistoryType'
  BY <1>2, <1>3, <1>5, <1>10 DEF TypeInv, DirsOK, MemType, HistoryType
<1>12. NumberType' /\ OpenType' /\ VersionType' /\ BgType' /\ PhaseType'
  BY <1>2, <1>10 DEF TypeInv, NumberType, OpenType, VersionType, BgType, ApplyType, PhaseType,
                     numberVars, openVars, versionVars, bgVars
<1> QED BY <1>9, <1>11, <1>12 DEF TypeInv

LEMMA TypeSwitchMemTable ==
    ASSUME TypeInv, SwitchMemTable
    PROVE  TypeInv'
<1>1. PICK n \in Numbers :
           /\ NewFileNumber(n)
           /\ ChangeDir(Create(Log(n))) /\ Written(Log(n), <<>>)
           /\ logfile_number_' = n
  BY DEF SwitchMemTable
<1>2. /\ imm_' = mem_ /\ has_imm_' = TRUE /\ mem_' = {} /\ writes' = writes
      /\ UNCHANGED <<log_number_, manifest_file_number_, has_descriptor_, last_sequence_,
                   openVars, versionVars, bgVars, historyVars>>
  BY DEF SwitchMemTable, historyVars
<1>3. DirsOK' /\ DiskType' /\ next_file_number_' \in Nat \ {0}
  BY <1>1, <1>2, CreatedTyped
<1>4. n # 0 /\ n \in 0..MaxFile
  BY NumbersAre
<1>5. has_imm_' \in BOOLEAN
  BY <1>2, Zenon
<1>6. NumberType' /\ MemType' /\ PhaseType'
  BY <1>1, <1>2, <1>3, <1>4, <1>5
  DEF TypeInv, NumberType, MemType, PhaseType, openVars, bgVars, versionVars
<1> QED BY <1>2, <1>3, <1>6, TypesKept DEF TypeInv, openVars, versionVars, bgVars, historyVars

LEMMA TypeStartFlush ==
    ASSUME TypeInv, StartFlush
    PROVE  TypeInv'
<1>1. PICK n \in Numbers :
           /\ NewFileNumber(n)
           /\ ChangeDir(Create(TableFile(n))) /\ Written(TableFile(n), <<>>)
           /\ flush' = n
           /\ pending_outputs_' = pending_outputs_ \cup {n}
  BY DEF StartFlush
<1>2. /\ phase = "up" /\ writes' = writes
      /\ UNCHANGED <<log_number_, manifest_file_number_, has_descriptor_, memVars, openVars,
                   current_, pinned, c, apply, bg_error_, historyVars>>
  BY DEF StartFlush, MayFlush, historyVars
<1>3. DirsOK' /\ DiskType' /\ next_file_number_' \in Nat \ {0}
  BY <1>1, <1>2, CreatedTyped
<1>4. n # 0 /\ n \in 0..MaxFile
  BY NumbersAre
<1>5. NumberType' /\ VersionType' /\ PhaseType'
  BY <1>1, <1>2, <1>3, <1>4 DEF TypeInv, NumberType, VersionType, PhaseType, openVars, memVars
<1>6. BgType'
  BY <1>1, <1>2, <1>4, TypesKept DEF TypeInv, BgType
<1> QED BY <1>2, <1>3, <1>5, <1>6, TypesKept DEF TypeInv, openVars, memVars, historyVars

LEMMA TypeFinishFlush ==
    ASSUME TypeInv, FinishFlush
    PROVE  TypeInv'
<1>1. /\ flush # 0 /\ StartApply("flush", FlushEdit) /\ writes' = writes
      /\ pending_outputs_' = pending_outputs_ \ {flush}
      /\ data' = [data EXCEPT ![TableFile(flush)] = <<TableOf(imm_, FALSE)>>]
      /\ SyncFile(TableFile(flush))
      /\ UNCHANGED <<dir, numberVars, memVars, openVars, current_, pinned, flush, c,
                     bg_error_, historyVars>>
  BY DEF FinishFlush, historyVars
<1>2. /\ flush \in Numbers /\ phase = "up" /\ logfile_number_ # 0
      /\ writes \in Nat /\ last_sequence_ \in 0..writes
  BY <1>1, NumbersAre DEF TypeInv, BgType, PhaseType, Numbers, MemType, HistoryType
<1>3. imm_ \subseteq Entry
  <2>1. Entries(writes) \subseteq Entries(MaxWrites)
    BY NumbersAre, EntriesGrow DEF TypeInv, HistoryType
  <2> QED BY <2>1 DEF TypeInv, MemType, Entries, Entry
<1>4. DiskType' /\ DirsOK'
  BY <1>1, <1>2, <1>3, TableTyped DEF TypeInv, DirsOK
<1>5. FlushEdit \in EditsTo(writes')
  BY <1>1, <1>2, EditTyped, NumbersAre DEF FlushEdit, TypeInv, NumberType
<1>6. ApplyType' /\ apply'.pc = "append" /\ apply'.owner = "flush"
  BY <1>1, <1>5, ApplyTyped DEF StartApply
<1>7. VersionType' /\ PhaseType'
  BY <1>1, <1>2, <1>6 DEF TypeInv, VersionType, PhaseType, openVars, numberVars, memVars
<1> QED BY <1>1, <1>4, <1>6, <1>7, TypesKept
        DEF TypeInv, openVars, memVars, numberVars, historyVars

LEMMA TypeFlushFails ==
    ASSUME TypeInv, FlushFails
    PROVE  TypeInv'
<1>1. /\ flush # 0 /\ apply = NoApply /\ Fault /\ writes' = writes
      /\ ChangeDir([dir EXCEPT !.files = @ \ {TableFile(flush)}])
      /\ pending_outputs_' = pending_outputs_ \ {flush}
      /\ flush' = 0 /\ bg_error_' = TRUE
      /\ UNCHANGED <<data, synced, numberVars, memVars, openVars, current_, pinned, c, apply,
                     writes, hard>>
  BY DEF FlushFails
<1>2. flush \in Numbers /\ faults' \in 0..MaxFaults
  BY <1>1, NumbersAre, Faulty DEF TypeInv, BgType, Numbers
<1>3. DirsOK'
  BY <1>1, <1>2, FileIs, DirsGrow, DirChanges DEF TypeInv
<1>4. bg_error_' \in BOOLEAN
  BY <1>1, Zenon
<1>5. ApplyType' /\ apply.owner = "open" /\ apply.pc = "none" /\ phase = "up"
  BY <1>1, TypesKept DEF NoApply, TypeInv, PhaseType
<1>6. BgType'
  BY <1>1, <1>4, <1>5, NumbersAre DEF TypeInv, BgType
<1>7. VersionType' /\ HistoryType'
  BY <1>1, <1>2 DEF TypeInv, VersionType, HistoryType
<1>8. PhaseType'
  BY <1>1, <1>5 DEF TypeInv, PhaseType, openVars, numberVars, memVars
<1> QED BY <1>1, <1>3, <1>6, <1>7, <1>8, TypesKept DEF TypeInv, openVars, memVars, numberVars

LEMMA TypeStartCompaction ==
    ASSUME TypeInv, StartCompaction
    PROVE  TypeInv'
<1>1. PICK n \in Numbers :
           /\ NewFileNumber(n)
           /\ ChangeDir(Create(TableFile(n))) /\ Written(TableFile(n), <<>>)
           /\ c' = [base |-> current_, output |-> n]
           /\ pending_outputs_' = pending_outputs_ \cup {n}
  BY DEF StartCompaction
<1>2. /\ phase = "up" /\ writes' = writes
      /\ UNCHANGED <<log_number_, manifest_file_number_, has_descriptor_, memVars, openVars,
                     current_, pinned, flush, apply, bg_error_, historyVars>>
  BY DEF StartCompaction, historyVars
<1>3. DirsOK' /\ DiskType' /\ next_file_number_' \in Nat \ {0}
  BY <1>1, <1>2, CreatedTyped
<1>4. c' \in CompactionType /\ c' # None
  <2>1. c' \in CompactionType
    BY <1>1 DEF CompactionType, TypeInv, VersionType
  <2>2. None \notin CompactionType
    BY OptionsAssumption DEF CompactionType, Numbers
  <2> QED BY <2>1, <2>2
<1>5. NumberType' /\ VersionType' /\ PhaseType'
  BY <1>1, <1>2, <1>3, <1>4 DEF TypeInv, NumberType, VersionType, PhaseType, openVars, memVars
<1>6. BgType'
  BY <1>1, <1>2, <1>4, TypesKept DEF TypeInv, BgType
<1> QED BY <1>2, <1>3, <1>5, <1>6, TypesKept DEF TypeInv, openVars, memVars, historyVars

LEMMA CompactionIs ==
    ASSUME TypeInv, c # None
    PROVE  c.base \subseteq Numbers /\ c.output \in Numbers /\ phase = "up"
BY DEF TypeInv, BgType, CompactionType, PhaseType

LEMMA TypeFinishCompaction ==
    ASSUME TypeInv, FinishCompaction
    PROVE  TypeInv'
<1>1. PICK edit : edit = Edit(log_number_, next_file_number_, last_sequence_, {c.output}, c.base)
  OBVIOUS
<1>2. /\ c # None /\ StartApply("compaction", edit) /\ writes' = writes
      /\ data' = [data EXCEPT ![TableFile(c.output)] = <<TableOf(InTables(c.base), TRUE)>>]
      /\ SyncFile(TableFile(c.output))
      /\ UNCHANGED <<dir, numberVars, memVars, openVars, versionVars, flush, c, bg_error_,
                     historyVars>>
  BY <1>1 DEF FinishCompaction, historyVars
<1>3. /\ c.base \subseteq Numbers /\ c.output \in Numbers /\ phase = "up"
      /\ logfile_number_ # 0
      /\ writes \in Nat /\ last_sequence_ \in 0..writes
  BY <1>2, CompactionIs, NumbersAre DEF TypeInv, PhaseType, MemType, HistoryType
<1>4. InTables(c.base) \subseteq Entry
  BY <1>3, ContentsAre DEF InTables
<1>5. DiskType' /\ DirsOK'
  BY <1>2, <1>3, <1>4, TableTyped DEF TypeInv, DirsOK
<1>6. edit \in EditsTo(writes')
  BY <1>1, <1>2, <1>3, EditTyped, NumbersAre DEF TypeInv, NumberType
<1>7. ApplyType' /\ apply'.pc = "append" /\ apply'.owner = "compaction"
  BY <1>2, <1>6, ApplyTyped DEF StartApply
<1>8. PhaseType'
  BY <1>2, <1>3, <1>7 DEF TypeInv, PhaseType, openVars, numberVars, memVars, versionVars
<1> QED BY <1>2, <1>5, <1>7, <1>8, TypesKept
        DEF TypeInv, openVars, memVars, numberVars, versionVars, historyVars

LEMMA TypeCompactionFails ==
    ASSUME TypeInv, CompactionFails
    PROVE  TypeInv'
<1>1. /\ c # None /\ apply = NoApply /\ Fault /\ writes' = writes /\ c' = None
      /\ pending_outputs_' = pending_outputs_ \ {c.output} /\ bg_error_' = TRUE
      /\ UNCHANGED <<diskVars, numberVars, memVars, openVars, current_, pinned, flush, apply,
                     writes, hard>>
  BY DEF CompactionFails
<1>2. faults' \in 0..MaxFaults /\ phase = "up"
  BY <1>1, Faulty, CompactionIs
<1>3. bg_error_' \in BOOLEAN
  BY <1>1, Zenon
<1>4. BgType'
  BY <1>1, <1>3, TypesKept DEF TypeInv, BgType
<1>5. apply.owner = "open"
  BY <1>1 DEF NoApply
<1>6. VersionType' /\ PhaseType' /\ HistoryType'
  BY <1>1, <1>2, <1>5
  DEF TypeInv, VersionType, PhaseType, HistoryType, openVars, numberVars, memVars
<1> QED BY <1>1, <1>4, <1>6, TypesKept
        DEF TypeInv, openVars, memVars, numberVars, diskVars

LEMMA TypePinning ==
    ASSUME TypeInv, Pin \/ Unpin
    PROVE  TypeInv'
<1>1. /\ phase = "up" /\ pinned' \subseteq Numbers /\ writes' = writes
      /\ UNCHANGED <<diskVars, numberVars, memVars, openVars, current_, pending_outputs_,
                     bgVars, historyVars>>
  BY DEF Pin, Unpin, TypeInv, VersionType, PhaseType, historyVars
<1>2. VersionType' /\ PhaseType'
  BY <1>1 DEF TypeInv, VersionType, PhaseType, openVars, numberVars, memVars, bgVars
<1> QED BY <1>1, <1>2, TypesKept
        DEF TypeInv, openVars, memVars, numberVars, diskVars, bgVars, historyVars
\* The greatest of some numbers of a range.
LEMMA RangeMax ==
    ASSUME NEW S, NEW b \in Nat, S \subseteq 0..b, S # {}
    PROVE  Max(S) \in S /\ \A y \in S : Max(S) >= y
<1>1. IsFiniteSet(0..b)
  BY FS_Interval
<1>2. IsFiniteSet(S)
  BY <1>1, FS_Subset
<1>3. S \subseteq Int
  OBVIOUS
<1> QED BY <1>2, <1>3, MaxIsMax

LEMMA LastOfIs ==
    ASSUME NEW R, Len(R) \in Nat, DOMAIN R = 1..Len(R), NEW field, NEW T, 0 \in T,
           \A i \in DOMAIN R : R[i][field] \in T
    PROVE  LastOf(R, field) \in T
<1> DEFINE having == {i \in DOMAIN R : R[i][field] # 0}
<1>1. CASE having = {}
  BY <1>1 DEF LastOf
<1>2. CASE having # {}
  <2>1. having \subseteq 0..Len(R)
    OBVIOUS
  <2> HIDE DEF having
  <2>2. Max(having) \in having
    BY <1>2, <2>1, RangeMax
  <2>3. \A i \in having : i \in DOMAIN R
    BY DEF having
  <2> QED BY <1>2, <2>2, <2>3 DEF LastOf, having
<1> QED BY <1>1, <1>2

\* What a MANIFEST comes to.
LEMMA ReplayedIs ==
    ASSUME TypeInv, NEW n \in Numbers
    PROVE  /\ ReplayedTables(data[Manifest(n)]) \subseteq Numbers
           /\ ReplayedLog(data[Manifest(n)]) \in Nat
           /\ ReplayedNext(data[Manifest(n)]) \in Nat
           /\ ReplayedLast(data[Manifest(n)]) \in 0..writes
<1> DEFINE R == data[Manifest(n)]
<1>1. /\ Len(R) \in Nat /\ DOMAIN R = 1..Len(R)
      /\ \A i \in DOMAIN R : R[i] \in EditsTo(writes)
  BY ManifestIs
<1>2. \A i \in DOMAIN R : /\ R[i].log \in Nat /\ R[i].next \in Nat /\ R[i].last \in 0..writes
                          /\ R[i].add \subseteq Numbers
  BY <1>1 DEF EditsTo
<1>3. 0 \in 0..writes
  BY NumbersAre DEF TypeInv, HistoryType
<1> HIDE DEF R
<1>4. ReplayedLog(R) \in Nat /\ ReplayedNext(R) \in Nat
  BY <1>1, <1>2, LastOfIs DEF ReplayedLog, ReplayedNext
<1>5. ReplayedLast(R) \in 0..writes
  BY <1>1, <1>2, <1>3, LastOfIs DEF ReplayedLast
<1>6. ReplayedTables(R) \subseteq Numbers
  BY <1>2 DEF ReplayedTables
<1> QED BY <1>4, <1>5, <1>6 DEF R

LEMMA TypeNewDB ==
    ASSUME TypeInv, NewDB
    PROVE  TypeInv'
<1>1. PICK e : e = Edit(0, 2, 0, {}, {})
  OBVIOUS
<1>2. PICK created : created = Create(Manifest(1))
  OBVIOUS
<1>3. /\ Written(Manifest(1), <<e>>)
      /\ dir' = [created EXCEPT !.current = 1] /\ older' = older \cup {dir, created}
      /\ UNCHANGED <<numberVars, memVars, openVars, versionVars, bgVars, historyVars>>
      /\ writes' = writes
  BY <1>1, <1>2 DEF NewDB, historyVars
<1>4. 1 \in Numbers /\ 1 \in 0..MaxFile /\ writes \in Nat
  BY NumbersAre DEF Numbers, TypeInv, HistoryType
<1>5. /\ Manifest(1) \in Files /\ <<e>> \in Seq(Records(Manifest(1), writes))
  BY <1>1, <1>4, FileIs, RecordsAre, EditTyped
<1>6. DiskType'
  BY <1>3, <1>5, FilesWritten DEF TypeInv, DiskType, Written
<1>7. DirsOK'
  <2>1. created \in DirType
    BY <1>2, <1>5, DirsGrow DEF TypeInv
  <2>2. [created EXCEPT !.current = 1] \in DirType
    BY <1>4, <2>1 DEF DirType
  <2> QED BY <1>3, <2>1, <2>2 DEF TypeInv, DirsOK
<1> QED BY <1>3, <1>6, <1>7, TypesKept
        DEF TypeInv, openVars, memVars, numberVars, bgVars, versionVars, historyVars

LEMMA TypeOpenManifest ==
    ASSUME TypeInv, OpenManifest
    PROVE  TypeInv'
<1>1. PICK R : R = data[Manifest(dir.current)]
  OBVIOUS
<1>2. /\ phase = "down" /\ dir.current # 0 /\ apply = NoApply /\ writes' = writes
      /\ flush = 0 /\ c = None /\ pinned = {}
      /\ UNCHANGED <<diskVars, pinned, pending_outputs_, flush, c, bg_error_, historyVars>>
  BY DEF OpenManifest, TypeInv, PhaseType, historyVars
<1>3. dir.current \in Numbers
  BY <1>2, NumbersAre DEF TypeInv, DirsOK, DirType, Numbers
<1>4. /\ ReplayedTables(R) \subseteq Numbers /\ ReplayedLog(R) \in Nat /\ ReplayedNext(R) \in Nat
      /\ ReplayedLast(R) \in 0..writes
  BY <1>1, <1>3, ReplayedIs
<1>5. CASE ~Readable(R)
  <2>1. /\ phase' = "broken"
        /\ UNCHANGED <<numberVars, memVars, reuse, todo, current_, apply>>
    BY <1>1, <1>5 DEF OpenManifest
  <2>2. OpenType' /\ PhaseType'
    BY <1>2, <2>1 DEF TypeInv, OpenType, PhaseType, NoApply
  <2> QED BY <1>2, <2>1, <2>2, TypesKept
          DEF TypeInv, numberVars, memVars, diskVars, historyVars
<1>6. CASE Readable(R)
  <2>1. PICK r \in BOOLEAN, keep \in BOOLEAN :
                /\ ReplayedNext(R) < MaxFile
                /\ phase' = "open" /\ reuse' = r
                /\ todo' = LogsFrom(dir, ReplayedLog(R))
                /\ current_' = ReplayedTables(R)
                /\ log_number_' = ReplayedLog(R)
                /\ has_descriptor_' = keep
                /\ manifest_file_number_' =
                       IF keep THEN dir.current ELSE ReplayedNext(R)
                /\ next_file_number_' = ReplayedNext(R) + 1
                /\ last_sequence_' = ReplayedLast(R)
                /\ apply' = NoApply
                /\ UNCHANGED <<mem_, imm_, has_imm_, logfile_number_>>
    BY <1>1, <1>6 DEF OpenManifest
  <2>2. ReplayedNext(R) \in Numbers
    BY <1>4, <1>6, <2>1, NumbersAre DEF Readable, Numbers
  <2>3. LogsFrom(dir, ReplayedLog(R)) \subseteq Numbers
    BY DEF LogsFrom, Of, TypeInv, DirsOK, DirType, Files
  <2>4. reuse' \in BOOLEAN /\ has_descriptor_' \in BOOLEAN
    BY <2>1, Zenon
  <2>5. OpenType' /\ MemType' /\ VersionType'
    BY <1>2, <1>4, <2>1, <2>3, <2>4 DEF OpenType, MemType, VersionType, TypeInv
  <2>6. manifest_file_number_' \in Numbers /\ next_file_number_' \in Nat \ {0}
    BY <1>3, <1>4, <2>1, <2>2
  <2>7. NumberType'
    BY <1>4, <2>1, <2>4, <2>6, NumbersAre DEF TypeInv, NumberType, Numbers
  <2>8. ApplyType' /\ apply'.pc = "none" /\ apply'.owner = "open"
    BY <1>2, <2>1, NoApplyIs
  <2>9. PhaseType'
    BY <1>2, <2>1, <2>6, <2>8, NumbersAre DEF PhaseType
  <2> QED BY <1>2, <2>5, <2>7, <2>8, <2>9, TypesKept DEF TypeInv, diskVars, historyVars
<1> QED BY <1>5, <1>6

LEMMA MaxSequenceIs ==
    ASSUME TypeInv, NEW n \in Numbers
    PROVE  MaxSequence(InLog(n)) \in 0..writes
<1> DEFINE S == {last_sequence_} \cup {e.seq : e \in InLog(n)}
<1>1. InLog(n) \subseteq Entries(writes) /\ IsFiniteSet(InLog(n)) /\ writes \in Nat
  BY LogIs, NumbersAre DEF TypeInv, HistoryType
<1>2. S \subseteq 0..writes
  BY <1>1 DEF Entries, TypeInv, MemType
<1>3. S # {}
  OBVIOUS
<1>4. Max(S) \in S
  <2> HIDE DEF S
  <2> QED BY <1>1, <1>2, <1>3, RangeMax
<1> QED BY <1>2, <1>4 DEF MaxSequence
LEMMA MaxOfTwo ==
    ASSUME NEW a \in Nat, NEW b \in Nat
    PROVE  Max({a, b}) \in {a, b} /\ Max({a, b}) >= a /\ Max({a, b}) >= b
<1>1. {a, b} \subseteq 0..(a + b) /\ a + b \in Nat
  OBVIOUS
<1> QED BY <1>1, RangeMax

LEMMA TypeReuseLog ==
    ASSUME TypeInv, ReuseLog
    PROVE  TypeInv'
<1>1. PICK n \in todo :
           /\ mem_' = InLog(n)
           /\ last_sequence_' = MaxSequence(InLog(n))
           /\ logfile_number_' = n
           /\ next_file_number_' = Max({next_file_number_, n + 1})
  BY DEF ReuseLog
<1>2. /\ phase = "open" /\ todo' = {} /\ writes' = writes
      /\ UNCHANGED <<diskVars, imm_, has_imm_, log_number_, manifest_file_number_,
                   has_descriptor_, phase, reuse, versionVars, bgVars, historyVars>>
  BY DEF ReuseLog, historyVars
<1>3. n \in Numbers /\ n \in 0..MaxFile /\ n + 1 \in Nat
  BY <1>1, NumbersAre DEF TypeInv, OpenType
<1>4. InLog(n) \subseteq Entries(writes) /\ MaxSequence(InLog(n)) \in 0..writes
  BY <1>3, LogIs, MaxSequenceIs
<1>5. next_file_number_' \in Nat \ {0}
  BY <1>1, <1>3, MaxOfTwo DEF TypeInv, NumberType
<1>6. NumberType' /\ MemType' /\ OpenType'
  BY <1>1, <1>2, <1>3, <1>4, <1>5 DEF TypeInv, NumberType, MemType, OpenType
<1>7. PhaseType'
  BY <1>1, <1>2, <1>3, NumbersAre DEF TypeInv, PhaseType, bgVars, versionVars
<1> QED BY <1>2, <1>6, <1>7, TypesKept DEF TypeInv, diskVars, bgVars, versionVars, historyVars

\* A log has become a table, numbered next_file_number_.
LEMMA TypeRecoverLogFile ==
    ASSUME TypeInv, RecoverLogFile
    PROVE  TypeInv'
<1>1. PICK n \in Numbers :
           /\ todo' = todo \ {n}
           /\ last_sequence_' = MaxSequence(InLog(n))
           /\ IF InLog(n) = {}
              THEN /\ next_file_number_' = Max({next_file_number_, n + 1})
                   /\ UNCHANGED <<diskVars, apply>>
              ELSE LET t == next_file_number_
                   IN  /\ t < MaxFile
                       /\ next_file_number_' = Max({t, n}) + 1
                       /\ dir' = Create(TableFile(t))
                       /\ data' = [data EXCEPT ![TableFile(t)] = <<TableOf(InLog(n), FALSE)>>]
                       /\ SyncFile(TableFile(t))
                       /\ apply' = [apply EXCEPT !.edit.add = @ \cup {t}]
  BY DEF RecoverLogFile
<1>2. /\ phase = "open" /\ writes' = writes
      /\ UNCHANGED <<mem_, imm_, has_imm_, logfile_number_, log_number_,
                   manifest_file_number_, has_descriptor_, phase, reuse, versionVars,
                   flush, c, bg_error_, historyVars>>
  BY DEF RecoverLogFile, historyVars
<1>3. n \in Nat /\ n + 1 \in Nat /\ next_file_number_ \in Nat \ {0}
  BY NumbersAre DEF TypeInv, NumberType
<1>4. InLog(n) \subseteq Entries(writes) /\ MaxSequence(InLog(n)) \in 0..writes
  BY LogIs, MaxSequenceIs
<1>5. OpenType' /\ MemType'
  BY <1>1, <1>2, <1>4 DEF TypeInv, OpenType, MemType
<1>6. DirsOK' /\ DiskType' /\ next_file_number_' \in Nat \ {0}
      /\ ApplyType' /\ apply'.pc = apply.pc /\ apply'.owner = apply.owner
  <2>1. CASE InLog(n) = {}
    <3>1. next_file_number_' \in Nat \ {0}
      BY <1>1, <1>3, <2>1, MaxOfTwo
    <3> QED BY <1>1, <1>2, <2>1, <3>1, TypesKept DEF diskVars
  <2>2. CASE InLog(n) # {}
    <3>1. PICK t : t = next_file_number_
      OBVIOUS
    <3>2. /\ t < MaxFile /\ next_file_number_' = Max({t, n}) + 1
          /\ dir' = Create(TableFile(t))
          /\ data' = [data EXCEPT ![TableFile(t)] = <<TableOf(InLog(n), FALSE)>>]
          /\ SyncFile(TableFile(t))
          /\ apply' = [apply EXCEPT !.edit.add = @ \cup {t}]
      BY <1>1, <2>2, <3>1
    <3>3. t \in Numbers
      BY <1>3, <3>1, <3>2, NumbersAre DEF Numbers
    <3>4. InLog(n) \subseteq Entry
      <4>1. Entries(writes) \subseteq Entries(MaxWrites)
        BY NumbersAre, EntriesGrow DEF TypeInv, HistoryType
      <4> QED BY <1>4, <4>1 DEF Entries, Entry
    <3>5. DiskType' /\ older' = {}
      BY <1>2, <3>2, <3>3, <3>4, TableTyped
    <3>6. DirsOK'
      BY <3>2, <3>3, <3>5, FileIs, DirsGrow DEF TypeInv, DirsOK
    <3>7. Max({t, n}) \in Nat
      BY <1>3, <3>1, MaxOfTwo
    <3>8. ApplyType' /\ apply'.pc = apply.pc /\ apply'.owner = apply.owner
      <4>1. PICK edit : edit = [apply.edit EXCEPT !.add = @ \cup {t}]
        OBVIOUS
      <4>2. edit \in EditsTo(writes')
        BY <1>2, <3>3, <4>1 DEF TypeInv, BgType, ApplyType, EditsTo
      <4>3. apply' = [pc |-> apply.pc, owner |-> apply.owner, edit |-> edit]
        BY <3>2, <4>1 DEF TypeInv, BgType, ApplyType
      <4> QED BY <4>2, <4>3, ApplyTyped DEF TypeInv, BgType, ApplyType
    <3> QED BY <3>2, <3>5, <3>6, <3>7, <3>8
  <2> QED BY <2>1, <2>2
<1>7. NumberType' /\ PhaseType'
  BY <1>2, <1>6 DEF TypeInv, NumberType, PhaseType, versionVars
<1> QED BY <1>2, <1>5, <1>6, <1>7, TypesKept DEF TypeInv, versionVars, historyVars

LEMMA TypeNewLog ==
    ASSUME TypeInv, NewLog
    PROVE  TypeInv'
<1>1. PICK n \in Numbers :
           /\ NewFileNumber(n)
           /\ ChangeDir(Create(Log(n))) /\ Written(Log(n), <<>>)
           /\ logfile_number_' = n
  BY DEF NewLog
<1>2. /\ phase = "open" /\ writes' = writes
      /\ UNCHANGED <<mem_, imm_, has_imm_, last_sequence_, log_number_, manifest_file_number_,
                   has_descriptor_, openVars, versionVars, bgVars, historyVars>>
  BY DEF NewLog, historyVars
<1>3. DirsOK' /\ DiskType' /\ next_file_number_' \in Nat \ {0}
  BY <1>1, <1>2, CreatedTyped
<1>4. n # 0 /\ n \in 0..MaxFile
  BY NumbersAre
<1>5. NumberType' /\ PhaseType'
  BY <1>1, <1>2, <1>3, <1>4 DEF TypeInv, NumberType, PhaseType, openVars, versionVars, bgVars
<1> QED BY <1>2, <1>3, <1>5, TypesKept DEF TypeInv, openVars, versionVars, bgVars, historyVars

LEMMA TypeOpenApply ==
    ASSUME TypeInv, OpenApply
    PROVE  TypeInv'
<1>1. PICK edit :
          edit = Edit(logfile_number_, next_file_number_, last_sequence_, apply.edit.add, {})
  OBVIOUS
<1>2. /\ phase = "open" /\ logfile_number_ # 0 /\ StartApply("open", edit) /\ writes' = writes
      /\ UNCHANGED <<diskVars, numberVars, memVars, openVars, versionVars, flush, c, bg_error_,
                   historyVars>>
  BY <1>1 DEF OpenApply, Opened, historyVars
<1>3. edit \in EditsTo(writes')
  <2>1. apply.edit.add \subseteq Numbers
    BY DEF TypeInv, BgType, ApplyType, EditsTo
  <2>2. writes \in Nat /\ logfile_number_ \in Nat
    BY NumbersAre DEF TypeInv, HistoryType, NumberType
  <2> QED BY <1>1, <1>2, <2>1, <2>2, EditTyped DEF TypeInv, NumberType, MemType
<1>4. ApplyType' /\ apply'.pc = "append" /\ apply'.owner = "open"
  BY <1>2, <1>3, ApplyTyped DEF StartApply
<1>5. PhaseType'
  BY <1>2, <1>4 DEF TypeInv, PhaseType, openVars, numberVars, memVars, versionVars
<1> QED BY <1>2, <1>4, <1>5, TypesKept
        DEF TypeInv, diskVars, numberVars, memVars, openVars, versionVars, historyVars

LEMMA TypeOpenWithoutApply ==
    ASSUME TypeInv, OpenWithoutApply
    PROVE  TypeInv'
<1>1. /\ phase = "open" /\ logfile_number_ # 0 /\ apply.pc = "none" /\ phase' = "up"
      /\ DeleteObsoleteFiles /\ writes' = writes
      /\ UNCHANGED <<data, synced, numberVars, memVars, reuse, todo, versionVars, bgVars,
                   historyVars>>
  BY DEF OpenWithoutApply, Opened, historyVars
<1>2. DirsOK'
  BY <1>1, DirDeletes DEF TypeInv
<1>3. OpenType' /\ PhaseType'
  BY <1>1 DEF TypeInv, OpenType, PhaseType, numberVars, memVars, versionVars, bgVars
<1> QED BY <1>1, <1>2, <1>3, TypesKept
        DEF TypeInv, numberVars, memVars, versionVars, bgVars, historyVars

LEMMA TypeOpenEnds ==
    ASSUME TypeInv, OpenFails \/ ProcessCrash
    PROVE  TypeInv'
<1>1. Fault /\ Forget /\ UNCHANGED <<diskVars, writes, hard>>
  BY DEF OpenFails, ProcessCrash
<1>2. faults' \in 0..MaxFaults
  BY <1>1, Faulty
<1>3. DirsOK' /\ DiskType'
  BY <1>1, TypesKept DEF diskVars
<1> QED BY <1>1, <1>2, <1>3, Forgotten

\* What a crash of the machine leaves: of each file a prefix, all of it synced.
LEMMA CrashLeaves ==
    ASSUME TypeInv, MachineCrash
    PROVE  /\ dir' \in older \cup {dir} /\ older' = {}
           /\ CrashWhenNew \/ FirstManifestOnDisk(dir')
           /\ data' = [f \in Files |-> data'[f]] /\ synced' = [f \in Files |-> Len(data'[f])]
           /\ \A f \in dir'.files : \E k \in Nat :
                  /\ synced[f] <= k /\ k <= Len(data[f]) /\ data'[f] = SubSeq(data[f], 1, k)
           /\ \A f \in Files : f \notin dir'.files => data'[f] = <<>>
<1> DEFINE unsynced == {f \in dir'.files : synced[f] < Len(data[f])}
           longest == Max({Len(data[f]) : f \in Files})
<1>1. PICK left \in [unsynced -> 0..longest] :
           /\ \A f \in unsynced : left[f] \in synced[f]..Len(data[f])
           /\ data' = [f \in Files |-> IF f \in unsynced THEN SubSeq(data[f], 1, left[f])
                                       ELSE IF f \in dir'.files THEN data[f] ELSE <<>>]
  BY DEF MachineCrash
<1>2. /\ dir' \in older \cup {dir} /\ older' = {}
      /\ CrashWhenNew \/ FirstManifestOnDisk(dir')
      /\ synced' = [f \in Files |-> Len(data'[f])]
  <2>1. dir' \in {d \in older \cup {dir} : CrashWhenNew \/ FirstManifestOnDisk(d)}
    BY DEF MachineCrash
  <2>2. PICK d \in older \cup {dir} : d = dir' /\ (CrashWhenNew \/ FirstManifestOnDisk(d))
    BY <2>1
  <2>3. CrashWhenNew \/ FirstManifestOnDisk(dir')
    BY <2>2
  <2> QED BY <2>1, <2>3 DEF MachineCrash
<1>3. dir'.files \subseteq Files
  BY <1>2 DEF TypeInv, DirsOK, DirType
<1>4. ASSUME NEW f \in dir'.files
      PROVE  \E k \in Nat :
                  /\ synced[f] <= k /\ k <= Len(data[f]) /\ data'[f] = SubSeq(data[f], 1, k)
  <2>1. /\ f \in Files /\ data[f] \in Seq(Records(f, writes)) /\ Len(data[f]) \in Nat
        /\ synced[f] \in Nat /\ synced[f] <= Len(data[f])
    BY <1>3, LenProperties DEF TypeInv, DiskType, FilesOK
  <2>2. CASE f \in unsynced
    <3>1. left[f] \in synced[f]..Len(data[f]) /\ data'[f] = SubSeq(data[f], 1, left[f])
      BY <1>1, <2>1, <2>2
    <3> QED BY <2>1, <3>1
  <2>3. CASE f \notin unsynced
    <3>1. data'[f] = data[f]
      BY <1>1, <2>1, <2>3
    <3>2. SubSeq(data[f], 1, Len(data[f])) = data[f]
      BY <2>1, SubSeqFull
    <3> QED BY <2>1, <3>1, <3>2
  <2> QED BY <2>2, <2>3
<1>5. \A f \in Files : f \notin dir'.files => data'[f] = <<>>
  BY <1>1
<1>6. data' = [f \in Files |-> data'[f]]
  BY <1>1
<1> QED BY <1>2, <1>4, <1>5, <1>6

\* A prefix.
LEMMA PrefixIs ==
    ASSUME NEW S, NEW s \in Seq(S), NEW k \in Nat, k <= Len(s)
    PROVE  /\ SubSeq(s, 1, k) \in Seq(S) /\ Len(SubSeq(s, 1, k)) = k
           /\ \A i \in 1..k : SubSeq(s, 1, k)[i] = s[i]
<1>1. \A i \in 1..k : s[i] \in S
  BY ElementOfSeq, LenProperties
<1>2. /\ SubSeq(s, 1, k) \in Seq(S) /\ Len(SubSeq(s, 1, k)) = IF 1 <= k THEN k - 1 + 1 ELSE 0
      /\ \A i \in 1..k - 1 + 1 : SubSeq(s, 1, k)[i] = s[1 + i - 1]
  BY <1>1, SubSeqProperties
<1> QED BY <1>2

LEMMA TypeMachineCrash ==
    ASSUME TypeInv, MachineCrash
    PROVE  TypeInv'
<1>1. Fault /\ Forget /\ UNCHANGED <<writes, hard>>
  BY DEF MachineCrash
<1>2. /\ dir' \in older \cup {dir} /\ older' = {}
      /\ data' = [f \in Files |-> data'[f]] /\ synced' = [f \in Files |-> Len(data'[f])]
      /\ \A f \in dir'.files : \E k \in Nat :
             /\ synced[f] <= k /\ k <= Len(data[f]) /\ data'[f] = SubSeq(data[f], 1, k)
      /\ \A f \in Files : f \notin dir'.files => data'[f] = <<>>
  BY CrashLeaves
<1>3. DirsOK'
  BY <1>2 DEF TypeInv, DirsOK
<1>4. ASSUME NEW f \in Files
      PROVE  /\ data'[f] \in Seq(Records(f, writes)) /\ synced'[f] \in Nat
             /\ synced'[f] <= Len(data'[f])
  <2>1. data[f] \in Seq(Records(f, writes))
    BY DEF TypeInv, DiskType, FilesOK
  <2>2. data'[f] \in Seq(Records(f, writes))
    <3>1. CASE f \in dir'.files
      <4>1. PICK k \in Nat : k <= Len(data[f]) /\ data'[f] = SubSeq(data[f], 1, k)
        BY <1>2, <3>1
      <4> QED BY <2>1, <4>1, PrefixIs
    <3>2. CASE f \notin dir'.files
      BY <1>2, <3>2, EmptySeq
    <3> QED BY <3>1, <3>2
  <2>3. Len(data'[f]) \in Nat /\ synced'[f] = Len(data'[f])
    BY <1>2, <2>2, LenProperties
  <2> QED BY <2>2, <2>3
<1>5. DiskType'
  <2>1. FilesOK(data', synced', writes)
    BY <1>2, <1>4 DEF FilesOK
  <2> QED BY <1>1, <2>1 DEF DiskType
<1>6. faults' \in 0..MaxFaults
  BY <1>1, Faulty
<1> QED BY <1>1, <1>3, <1>5, <1>6, Forgotten

LEMMA TypeStep ==
    ASSUME TypeInv, [Next]_vars
    PROVE  TypeInv'
<1>1. CASE LogAndApply
  BY <1>1, TypeApplyAppend, TypeApplySync, TypeSetCurrentFile, TypeInstallOpen,
     TypeInstallFlush, TypeInstallCompaction, TypeApplyFailsOpen, TypeApplyFailsBackground
  DEF LogAndApply
<1>2. CASE Running
  BY <1>2, TypePut, TypeSwitchMemTable, TypeStartFlush, TypeFinishFlush, TypeFlushFails,
     TypeStartCompaction, TypeFinishCompaction, TypeCompactionFails, TypePinning
  DEF Running
<1>3. CASE Opening
  BY <1>3, TypeNewDB, TypeOpenManifest, TypeReuseLog, TypeRecoverLogFile, TypeOpenEnds,
     TypeNewLog, TypeOpenApply, TypeOpenWithoutApply
  DEF Opening
<1>4. CASE ProcessCrash \/ MachineCrash
  BY <1>4, TypeOpenEnds, TypeMachineCrash
<1>5. CASE UNCHANGED vars
  <2>1. UNCHANGED <<diskVars, numberVars, memVars, openVars, versionVars, bgVars, historyVars>>
    BY <1>5 DEF vars
  <2>2. writes' = writes
    BY <2>1 DEF historyVars
  <2> QED BY <2>1, <2>2, TypesKept
          DEF TypeInv, diskVars, numberVars, memVars, openVars, versionVars, bgVars, historyVars
<1> QED BY <1>1, <1>2, <1>3, <1>4, <1>5 DEF Next

LEMMA TypeInit ==
    ASSUME Init
    PROVE  TypeInv
<1>1. DirsOK
  BY NumbersAre DEF Init, DirsOK, DirType
<1>2. DiskType
  <2>1. \A f \in Files : data[f] = <<>> /\ synced[f] = 0 /\ Len(data[f]) = 0
    BY DEF Init
  <2>2. \A S : <<>> \in Seq(S)
    BY EmptySeq
  <2> QED BY <2>1, <2>2 DEF Init, DiskType, FilesOK
<1>3. /\ has_imm_ \in BOOLEAN /\ has_descriptor_ \in BOOLEAN /\ reuse \in BOOLEAN
      /\ bg_error_ \in BOOLEAN
  BY Zenon DEF Init
<1>4. NumberType /\ MemType /\ OpenType /\ VersionType /\ HistoryType
  BY <1>3, NumbersAre DEF Init, NumberType, MemType, OpenType, VersionType, HistoryType
<1>5. ApplyType /\ apply.pc = "none" /\ apply.owner = "open"
  <2>1. Edit(0, 0, 0, {}, {}) \in EditsTo(writes)
    BY EditTyped DEF Init
  <2> QED BY <2>1 DEF Init, NoApply, ApplyType
<1>6. BgType /\ PhaseType
  BY <1>3, <1>5, NumbersAre DEF Init, BgType, PhaseType
<1> QED BY <1>1, <1>2, <1>4, <1>6 DEF TypeInv

LEMMA TypeInvImplies ==
    ASSUME TypeInv
    PROVE  TypeOK
<1>1. \A f \in Files : synced[f] \in 0..Len(data[f])
  BY LenProperties DEF TypeInv, DiskType, FilesOK
<1>2. writes \in Nat /\ writes <= MaxWrites /\ MaxWrites \in Nat
  BY NumbersAre DEF TypeInv, HistoryType
<1>3. Entries(writes) \subseteq Entry /\ 0..writes \subseteq 0..MaxWrites
  BY <1>2 DEF Entries, Entry
<1>4. dir \in [files : SUBSET Files, current : Nat]
      /\ \A d \in older : d.files \subseteq Files /\ d.current \in Nat
  BY NumbersAre DEF TypeInv, DirsOK, DirType
<1>5. c = None \/ c \in [base : SUBSET Numbers, output : Numbers]
  BY DEF TypeInv, BgType, CompactionType
<1>6. apply.edit \in EditType
  BY <1>2 DEF TypeInv, BgType, ApplyType, EditsTo, EditType
<1>7. mem_ \subseteq Entry /\ imm_ \subseteq Entry /\ hard \subseteq Entry
      /\ last_sequence_ \in 0..MaxWrites
  BY <1>3 DEF TypeInv, MemType, HistoryType
<1>8. {logfile_number_, log_number_, manifest_file_number_, next_file_number_} \subseteq Nat
      /\ flush \in Nat
  BY NumbersAre DEF TypeInv, NumberType, BgType
<1> QED BY <1>1, <1>4, <1>5, <1>6, <1>7, <1>8
        DEF TypeOK, TypeInv, OpenType, MemType, NumberType, HistoryType, VersionType, BgType

\* Every variable has its type, and whatever is in the files of the database too.
THEOREM TypeCorrect == Spec => []TypeOK
<1>1. Init => TypeInv
  BY TypeInit
<1>2. TypeInv /\ [Next]_vars => TypeInv'
  BY TypeStep
<1>3. TypeInv => TypeOK
  BY TypeInvImplies
<1> QED BY <1>1, <1>2, <1>3, PTL DEF Spec
-----------------------------------------------------------------------------
(***************************************************************************)
(* What a crash may leave can be opened.  The directories that a crash may *)
(* bring back have, for every record with which their MANIFEST may end,    *)
(* all the tables of the version that it comes to.                         *)
(*                                                                         *)
(* MayCrash: a crash may still come before the next DB::Open reads the     *)
(* files.  Once the last fault is spent no invariant of the MANIFEST is    *)
(* needed: that lets the last DB::Open use reuse_logs.                     *)
(***************************************************************************)
MayCrash == phase = "down" \/ faults < MaxFaults
Dirs == older \cup {dir}
Runs == phase \in {"open", "up"}

\* The tables after the first k records of a MANIFEST.
TablesAt(R, k) == UNION {{n \in R[i].add : \A j \in i + 1..k : n \notin R[j].del} : i \in 1..k}

\* A table of the directory d, complete and synced.
Has(d, n) == TableFile(n) \in d.files
CompleteIn(n, D, S) ==
    LET records == D[TableFile(n)]
    IN  records # <<>> /\ records[1].entries # {} /\ S[TableFile(n)] = Len(records)

\* The tables that the MANIFEST of d has ever named; numbers below N.
NamedIn(d, D) ==
    IF d.current = 0 THEN {}
    ELSE UNION {D[Manifest(d.current)][i].add : i \in DOMAIN D[Manifest(d.current)]}
BelowIn(N, d, D) == d.current # 0 => d.current < N /\ \A n \in NamedIn(d, D) : n < N
AllBelow(N, ds, D) == \A d \in ds : BelowIn(N, d, D)
FreshIn(n, ds, D) == \A d \in ds : n \notin NamedIn(d, D)

\* What the MANIFEST R comes to if it ends with record k.
RecoversAt(k, d, R, D, S) ==
    /\ R[k].next # 0 /\ d.current < R[k].next
    /\ \A i \in 1..k : \A n \in R[i].add : n < R[k].next
    /\ \A n \in TablesAt(R, k) : Has(d, n) /\ CompleteIn(n, D, S)

GoodManifest(d, R, s, D, S) ==
    /\ Len(R) > 0 /\ (d.current # 1 => s > 0)
    /\ \A k \in 1..Len(R) : s <= k => RecoversAt(k, d, R, D, S)

GoodDir(d, D, S) ==
    d.current # 0 =>
        /\ Manifest(d.current) \in d.files
        /\ GoodManifest(d, D[Manifest(d.current)], S[Manifest(d.current)], D, S)
AllGood(ds, D, S) == \A d \in ds : GoodDir(d, D, S)

-----------------------------------------------------------------------------
LEMMA TablesAtFull ==
    ASSUME NEW R, DOMAIN R = 1..Len(R)
    PROVE  ReplayedTables(R) = TablesAt(R, Len(R))
BY DEF ReplayedTables, TablesAt

LEMMA TablesAtPrefix ==
    ASSUME NEW R, NEW Q, NEW k \in Nat, \A i \in 1..k : Q[i] = R[i]
    PROVE  TablesAt(Q, k) = TablesAt(R, k)
<1>1. \A i \in 1..k : i \in Nat /\ \A j \in i + 1..k : j \in 1..k
  OBVIOUS
<1>2. ASSUME NEW n
      PROVE  n \in TablesAt(Q, k) <=> n \in TablesAt(R, k)
  <2>1. n \in TablesAt(Q, k) <=> \E i \in 1..k : n \in Q[i].add /\ \A j \in i + 1..k : n \notin Q[j].del
    BY DEF TablesAt
  <2>2. n \in TablesAt(R, k) <=> \E i \in 1..k : n \in R[i].add /\ \A j \in i + 1..k : n \notin R[j].del
    BY DEF TablesAt
  <2> QED BY <1>1, <2>1, <2>2
<1> QED BY <1>2

\* One more record: Builder::Apply of an edit.
Applied(tables, edit) == (tables \ edit.del) \cup edit.add
LEMMA TablesAtNext ==
    ASSUME NEW R, NEW Q, NEW k \in Nat, NEW l \in Nat, k < l, l <= k + 1,
           \A i \in 1..k : Q[i] = R[i]
    PROVE  TablesAt(Q, l) = Applied(TablesAt(R, k), Q[l])
<1> DEFINE Stays(P, n, i, m) == n \in P[i].add /\ \A j \in i + 1..m : n \notin P[j].del
<1>1. ASSUME NEW n
      PROVE  n \in TablesAt(Q, l)
             <=> n \in (TablesAt(R, k) \ Q[l].del) \cup Q[l].add
  <2>1. n \in TablesAt(Q, l) <=> \E i \in 1..l : Stays(Q, n, i, l)
    BY DEF TablesAt
  <2>2. n \in TablesAt(R, k) <=> \E i \in 1..k : Stays(R, n, i, k)
    BY DEF TablesAt
  <2>3. Stays(Q, n, l, l) <=> n \in Q[l].add
    OBVIOUS
  <2>4. ASSUME NEW i \in 1..k
        PROVE  Stays(Q, n, i, l) <=> Stays(R, n, i, k) /\ n \notin Q[l].del
    <3>1. i + 1..l = (i + 1..k) \cup {l}
      OBVIOUS
    <3>2. \A j \in i + 1..k : j \in 1..k
      OBVIOUS
    <3> QED BY <3>1, <3>2
  <2>5. 1..l = (1..k) \cup {l}
    OBVIOUS
  <2> HIDE DEF Stays
  <2> QED BY <2>1, <2>2, <2>3, <2>4, <2>5
<1> QED BY <1>1 DEF Applied

\* The last record says which number is next.
LEMMA NextIsLast ==
    ASSUME NEW R, Len(R) \in Nat, DOMAIN R = 1..Len(R), Len(R) > 0, R[Len(R)].next # 0
    PROVE  ReplayedNext(R) = R[Len(R)].next
<1> DEFINE having == {i \in DOMAIN R : R[i].next # 0}
<1>1. having \subseteq 0..Len(R) /\ Len(R) \in having
  OBVIOUS
<1>2. ReplayedNext(R) = R[Max(having)].next
  BY <1>1 DEF ReplayedNext, LastOf
<1> HIDE DEF having
<1>3. Max(having) \in having /\ Max(having) >= Len(R)
  BY <1>1, RangeMax
<1>4. Max(having) = Len(R)
  <2>1. Max(having) \in 0..Len(R)
    BY <1>1, <1>3
  <2> QED BY <1>3, <2>1
<1> QED BY <1>2, <1>4

LEMMA NamedAre ==
    ASSUME TypeInv, NEW d \in DirType
    PROVE  /\ NamedIn(d, data) \subseteq Numbers
           /\ d.current # 0 => d.current \in Numbers
<1>1. d.current # 0 => d.current \in Numbers
  BY NumbersAre DEF DirType, Numbers
<1>2. ASSUME d.current # 0, NEW i \in DOMAIN data[Manifest(d.current)]
      PROVE  data[Manifest(d.current)][i].add \subseteq Numbers
  BY <1>1, <1>2, ManifestIs DEF EditsTo
<1> QED BY <1>1, <1>2 DEF NamedIn

LEMMA DirsAre == TypeInv => Dirs \subseteq DirType /\ dir \in Dirs
BY DEF TypeInv, DirsOK, Dirs
-----------------------------------------------------------------------------
(***************************************************************************)
(* The invariant.                                                          *)
(***************************************************************************)
Here == data[Manifest(dir.current)]
Mine == data[Manifest(manifest_file_number_)]
Base == IF c = None THEN {} ELSE c.base
LiveTables == current_ \cup pinned \cup Base \cup apply.edit.add
After == Applied(current_, apply.edit)

DirsGood == MayCrash => AllGood(Dirs, data, synced)

\* The numbers that the next DB::Open takes are used nowhere.
Horizon == MayCrash /\ dir.current # 0 => AllBelow(Here[Len(Here)].next, Dirs, data)

NoDir == dir.current = 0 => older = {} /\ phase = "down"

LiveOnDisk == Runs => \A n \in LiveTables : Has(dir, n) /\ CompleteIn(n, data, synced)
LiveBelow == Runs => \A n \in LiveTables : n < next_file_number_

\* What LogAndApply is to commit.
EditInv ==
    /\ apply.owner = "flush" => apply.edit.add = {flush} /\ apply.edit.del = {}
    /\ apply.owner = "compaction" =>
           flush = 0 /\ apply.edit.add = {c.output} /\ apply.edit.del = c.base
    /\ apply.owner = "open" => apply.edit.del = {} /\ (phase = "up" => apply.edit.add = {})

\* The tables that are being written.
CompactionInv ==
    c # None =>
        /\ c.output \in pending_outputs_ /\ Has(dir, c.output) /\ c.output < next_file_number_
        /\ c.output \notin current_ \cup pinned \cup c.base /\ c.output # flush
        /\ c.base # {}
FlushInv ==
    /\ has_imm_ => imm_ # {}
    /\ flush # 0 =>
           /\ has_imm_ /\ flush < next_file_number_
           /\ apply.owner # "flush" =>
                  flush \in pending_outputs_ /\ Has(dir, flush) /\ flush \notin LiveTables

\* The MANIFEST that the process writes.
Descriptor ==
    MayCrash /\ Runs =>
        /\ ~reuse
        /\ phase = "open" => (has_descriptor_ <=> apply.pc = "install")
        /\ phase = "up" => has_descriptor_ /\ apply.pc # "current"
        /\ has_descriptor_ => dir.current = manifest_file_number_
        /\ ~has_descriptor_ => \A d \in Dirs : d.current < manifest_file_number_
        /\ manifest_file_number_ < next_file_number_

\* New numbers are used nowhere, and what LogAndApply commits is in every directory.
NamesBelow ==
    MayCrash /\ Runs =>
        /\ AllBelow(next_file_number_, Dirs, data)
        /\ apply.pc # "none" =>
               /\ apply.edit.next # 0 /\ manifest_file_number_ < apply.edit.next
               /\ AllBelow(apply.edit.next, Dirs, data)
               /\ \A n \in apply.edit.add \cup current_ : n < apply.edit.next
        /\ \A d \in Dirs : \A n \in apply.edit.add : Has(d, n)
Fresh ==
    MayCrash /\ Runs =>
        /\ c # None /\ apply.owner # "compaction" => FreshIn(c.output, Dirs, data)
        /\ flush # 0 /\ apply.owner # "flush" => FreshIn(flush, Dirs, data)

\* The MANIFEST comes to the current version, or to the next one.
Replay ==
    MayCrash /\ Runs /\ ~bg_error_ =>
        /\ has_descriptor_ =>
               TablesAt(Mine, Len(Mine)) =
                   IF apply.pc \in {"none", "append"} THEN current_ ELSE After
        /\ apply.pc = "install" => synced[Manifest(manifest_file_number_)] = Len(Mine)

\* A MANIFEST that CURRENT does not name yet.
NewManifest ==
    MayCrash /\ Runs /\ ~has_descriptor_ /\ apply.pc \in {"sync", "current"} =>
        /\ Mine = <<Edit(0, 0, 0, current_, {}), apply.edit>>
        /\ Manifest(manifest_file_number_) \in dir.files
        /\ apply.pc = "current" => synced[Manifest(manifest_file_number_)] = Len(Mine)

DiskInv ==
    /\ TypeInv /\ DirsGood /\ Horizon /\ NoDir /\ LiveOnDisk /\ LiveBelow /\ EditInv
    /\ CompactionInv /\ FlushInv /\ Descriptor /\ NamesBelow /\ Fresh /\ Replay /\ NewManifest
    /\ phase # "broken"
-----------------------------------------------------------------------------
(***************************************************************************)
(* Steps that leave alone what MANIFESTs name.                             *)
(***************************************************************************)
Uses(d, D) ==
    IF d.current = 0 THEN {}
    ELSE {Manifest(d.current)} \cup {TableFile(n) : n \in NamedIn(d, D)}

\* Of the files, a step touches f only, which no MANIFEST is and no MANIFEST names.
Touches(f) ==
    /\ f \in Files /\ \A d \in Dirs : f \notin Uses(d, data)
    /\ \A g \in Files : g # f => data'[g] = data[g] /\ synced'[g] = synced[g]
    /\ \A e \in Dirs' : \E d \in Dirs :
           /\ e.current = d.current
           /\ \A g \in Files : g # f /\ g \in d.files => g \in e.files

LEMMA FilesApart ==
    ASSUME NEW n, NEW m
    PROVE  /\ Log(n) # TableFile(m) /\ Log(n) # Manifest(m) /\ TableFile(n) # Manifest(m)
           /\ TableFile(n) = TableFile(m) => n = m
           /\ Manifest(n) = Manifest(m) => n = m
BY DEF Log, TableFile, Manifest

LEMMA ManifestsApart ==
    ASSUME NEW n \in Numbers
    PROVE  Manifest(n) \in Files /\ \A m : Manifest(n) # TableFile(m)
<1>1. Manifest(n) \in Files
  BY FileIs
<1>2. \A m : Manifest(n) # TableFile(m)
  BY FilesApart
<1> QED BY <1>1, <1>2

LEMMA TablesNamed ==
    ASSUME NEW d, NEW D, d.current # 0,
           Len(D[Manifest(d.current)]) \in Nat,
           DOMAIN D[Manifest(d.current)] = 1..Len(D[Manifest(d.current)]),
           NEW k \in Nat, k <= Len(D[Manifest(d.current)])
    PROVE  TablesAt(D[Manifest(d.current)], k) \subseteq NamedIn(d, D)
<1> DEFINE R == D[Manifest(d.current)]
<1>1. NamedIn(d, D) = UNION {R[i].add : i \in DOMAIN R}
  BY DEF NamedIn
<1>2. \A i \in 1..k : i \in DOMAIN R
  OBVIOUS
<1> HIDE DEF R
<1>3. TablesAt(R, k) \subseteq UNION {R[i].add : i \in DOMAIN R}
  BY <1>2 DEF TablesAt
<1> QED BY <1>1, <1>3 DEF R

\* A directory stays good: its MANIFEST, of which no less is synced, and the
\* tables that it names are as before.
LEMMA GoodKept ==
    ASSUME NEW d, NEW e, NEW D, NEW S, NEW E, NEW T, GoodDir(d, D, S), e.current = d.current,
           d.current # 0 =>
               /\ Manifest(d.current) \in e.files
               /\ E[Manifest(d.current)] = D[Manifest(d.current)]
               /\ S[Manifest(d.current)] \in Nat /\ T[Manifest(d.current)] \in Nat
               /\ S[Manifest(d.current)] <= T[Manifest(d.current)]
               /\ Len(D[Manifest(d.current)]) \in Nat
               /\ DOMAIN D[Manifest(d.current)] = 1..Len(D[Manifest(d.current)]),
           \A n \in NamedIn(d, D) :
               Has(d, n) /\ CompleteIn(n, D, S) => Has(e, n) /\ CompleteIn(n, E, T)
    PROVE  GoodDir(e, E, T)
<1> SUFFICES ASSUME d.current # 0
             PROVE  GoodDir(e, E, T)
  BY DEF GoodDir
<1> DEFINE R == D[Manifest(d.current)]
           s == S[Manifest(d.current)]
           t == T[Manifest(d.current)]
<1>1. GoodManifest(d, R, s, D, S)
  BY DEF GoodDir
<1>2. s \in Nat /\ t \in Nat /\ s <= t /\ Len(R) \in Nat
  OBVIOUS
<1>3. ASSUME NEW k \in 1..Len(R)
      PROVE  TablesAt(R, k) \subseteq NamedIn(d, D)
  BY TablesNamed
<1>4. GoodManifest(e, R, t, E, T)
  <2> HIDE DEF R, s, t
  <2>1. ASSUME NEW k \in 1..Len(R), t <= k
        PROVE  RecoversAt(k, e, R, E, T)
    <3>1. RecoversAt(k, d, R, D, S)
      BY <1>1, <1>2, <2>1 DEF GoodManifest
    <3> QED BY <1>3, <3>1 DEF RecoversAt
  <2>2. Len(R) > 0 /\ (e.current # 1 => t > 0)
    BY <1>1, <1>2 DEF GoodManifest
  <2> QED BY <2>1, <2>2 DEF GoodManifest
<1> QED BY <1>4 DEF GoodDir

LEMMA NamedKept ==
    ASSUME NEW d, NEW e, NEW D, NEW E, e.current = d.current,
           d.current # 0 => E[Manifest(d.current)] = D[Manifest(d.current)]
    PROVE  /\ NamedIn(e, E) = NamedIn(d, D)
           /\ \A N : BelowIn(N, d, D) => BelowIn(N, e, E)
BY DEF NamedIn, BelowIn

LEMMA TouchKeeps ==
    ASSUME TypeInv, NEW f, Touches(f), DiskType'
    PROVE  /\ AllGood(Dirs, data, synced) => AllGood(Dirs', data', synced')
           /\ \A N : AllBelow(N, Dirs, data) => AllBelow(N, Dirs', data')
           /\ \A n : FreshIn(n, Dirs, data) => FreshIn(n, Dirs', data')
           /\ \A N : (\A d \in Dirs : d.current < N) => \A e \in Dirs' : e.current < N
<1>1. ASSUME NEW d \in Dirs, d.current # 0
      PROVE  LET m == Manifest(d.current)
             IN  /\ m \in Files /\ m # f /\ data'[m] = data[m] /\ synced'[m] = synced[m]
                 /\ synced[m] \in Nat /\ Len(data[m]) \in Nat
                 /\ DOMAIN data[m] = 1..Len(data[m])
  <2>1. d.current \in Numbers
    BY <1>1, DirsAre, NamedAre
  <2>2. Manifest(d.current) \in Files
    BY <2>1, FileIs
  <2>3. Manifest(d.current) # f
    BY <1>1 DEF Touches, Uses
  <2>4. /\ data'[Manifest(d.current)] = data[Manifest(d.current)]
        /\ synced'[Manifest(d.current)] = synced[Manifest(d.current)]
    BY <2>2, <2>3 DEF Touches
  <2> QED BY <2>1, <2>2, <2>3, <2>4, ManifestIs
<1>2. ASSUME NEW d \in Dirs, NEW n \in NamedIn(d, data)
      PROVE  /\ TableFile(n) \in Files /\ TableFile(n) # f
             /\ data'[TableFile(n)] = data[TableFile(n)]
             /\ synced'[TableFile(n)] = synced[TableFile(n)]
  <2>1. n \in Numbers
    BY DirsAre, NamedAre
  <2>2. TableFile(n) \in Files
    BY <2>1, FileIs
  <2>3. TableFile(n) # f
    BY DEF Touches, Uses, NamedIn
  <2> QED BY <2>2, <2>3 DEF Touches
<1>3. ASSUME NEW e \in Dirs'
      PROVE  \E d \in Dirs :
                 /\ e.current = d.current
                 /\ NamedIn(e, data') = NamedIn(d, data)
                 /\ \A N : BelowIn(N, d, data) => BelowIn(N, e, data')
                 /\ GoodDir(d, data, synced) => GoodDir(e, data', synced')
  <2>1. PICK d \in Dirs : /\ e.current = d.current
                          /\ \A g \in Files : g # f /\ g \in d.files => g \in e.files
    BY <1>3 DEF Touches
  <2>2. d.current # 0 => data'[Manifest(d.current)] = data[Manifest(d.current)]
    BY <1>1
  <2>3. NamedIn(e, data') = NamedIn(d, data) /\ \A N : BelowIn(N, d, data) => BelowIn(N, e, data')
    BY <2>1, <2>2, NamedKept
  <2>4. ASSUME GoodDir(d, data, synced)
        PROVE  GoodDir(e, data', synced')
    <3>1. \A n \in NamedIn(d, data) :
              Has(d, n) /\ CompleteIn(n, data, synced) => Has(e, n) /\ CompleteIn(n, data', synced')
      BY <1>2, <2>1 DEF Has, CompleteIn
    <3>2. d.current # 0 =>
               /\ Manifest(d.current) \in e.files
               /\ data'[Manifest(d.current)] = data[Manifest(d.current)]
               /\ synced[Manifest(d.current)] \in Nat /\ synced'[Manifest(d.current)] \in Nat
               /\ synced[Manifest(d.current)] <= synced'[Manifest(d.current)]
               /\ Len(data[Manifest(d.current)]) \in Nat
               /\ DOMAIN data[Manifest(d.current)] = 1..Len(data[Manifest(d.current)])
      <4> SUFFICES ASSUME d.current # 0
                   PROVE  /\ Manifest(d.current) \in e.files
                          /\ synced[Manifest(d.current)] <= synced'[Manifest(d.current)]
        BY <1>1
      <4>1. Manifest(d.current) \in d.files
        BY <2>4 DEF GoodDir
      <4> QED BY <1>1, <2>1, <4>1
    <3> QED BY <2>1, <2>4, <3>1, <3>2, GoodKept
  <2> QED BY <2>1, <2>3, <2>4
<1> QED BY <1>3 DEF AllGood, AllBelow, FreshIn
-----------------------------------------------------------------------------
(***************************************************************************)
(* Steps that change a MANIFEST, or what directories hold of its tables.   *)
(***************************************************************************)
Adds(R) == UNION {R[i].add : i \in DOMAIN R}
Appended(Q, R, e) == Q = R \o <<e>>

LEMMA RecordAppended ==
    ASSUME NEW X, NEW R \in Seq(X), NEW e \in X, NEW Q, Appended(Q, R, e)
    PROVE  /\ Len(R) \in Nat /\ DOMAIN R = 1..Len(R)
           /\ Len(Q) = Len(R) + 1 /\ DOMAIN Q = 1..Len(R) + 1
           /\ \A i \in 1..Len(R) : Q[i] = R[i]
           /\ Q[Len(R) + 1] = e
           /\ \A k \in 1..Len(R) : TablesAt(Q, k) = TablesAt(R, k)
           /\ TablesAt(Q, Len(R) + 1) = Applied(TablesAt(R, Len(R)), e)
           /\ Adds(Q) = Adds(R) \cup e.add
<1>1. /\ Len(R) \in Nat /\ DOMAIN R = 1..Len(R)
      /\ Len(Q) = Len(R) + 1 /\ DOMAIN Q = 1..Len(R) + 1
  <2>1. Len(R) \in Nat /\ DOMAIN R = 1..Len(R)
    BY LenProperties
  <2>2. <<e>> \in Seq(X) /\ Len(<<e>>) = 1
    OBVIOUS
  <2>3. Q \in Seq(X) /\ Len(Q) = Len(R) + 1
    BY <2>1, <2>2, ConcatProperties DEF Appended
  <2> QED BY <2>1, <2>3, LenProperties
<1>2. \A i \in 1..Len(R) : Q[i] = R[i]
  BY <1>1, ConcatProperties DEF Appended
<1>3. Q[Len(R) + 1] = e
  BY <1>1, ConcatProperties DEF Appended
<1>4. ASSUME NEW k \in 1..Len(R)
      PROVE  TablesAt(Q, k) = TablesAt(R, k)
  <2>1. \A i \in 1..k : i \in 1..Len(R)
    BY <1>1
  <2>2. k \in Nat /\ \A i \in 1..k : Q[i] = R[i]
    BY <1>1, <1>2, <2>1
  <2> QED BY <2>2, TablesAtPrefix
<1>5. TablesAt(Q, Len(R) + 1) = Applied(TablesAt(R, Len(R)), e)
  <2>1. PICK m \in Nat : m = Len(R)
    BY <1>1
  <2>2. \A i \in 1..m : Q[i] = R[i]
    BY <1>2, <2>1
  <2>3. PICK l \in Nat : m < l /\ l <= m + 1
    BY <2>1
  <2>4. TablesAt(Q, l) = Applied(TablesAt(R, m), Q[l])
    BY <2>1, <2>2, <2>3, TablesAtNext
  <2>5. l = Len(R) + 1
    BY <2>1, <2>3
  <2> QED BY <1>3, <2>1, <2>4, <2>5
<1>6. Adds(Q) = Adds(R) \cup e.add
  <2>1. 1..Len(R) + 1 = (1..Len(R)) \cup {Len(R) + 1}
    BY <1>1
  <2> QED BY <1>1, <1>2, <1>3, <2>1 DEF Adds
<1> QED BY <1>1, <1>2, <1>3, <1>4, <1>5, <1>6

\* An edit e is appended to the MANIFEST of the directory d.
Appends(d, D, S, E, X, e) ==
    /\ GoodDir(d, D, S) /\ d.current # 0
    /\ D[Manifest(d.current)] \in Seq(X) /\ e \in X
    /\ Appended(E[Manifest(d.current)], D[Manifest(d.current)], e)
    /\ S[Manifest(d.current)] \in Nat
    /\ S[Manifest(d.current)] <= Len(D[Manifest(d.current)])
    /\ e.next # 0 /\ BelowIn(e.next, d, D)
    /\ \A n \in e.add : n < e.next /\ Has(d, n) /\ CompleteIn(n, D, S)
    /\ \A n \in NamedIn(d, D) \cup e.add : E[TableFile(n)] = D[TableFile(n)]

LEMMA GoodAppended ==
    ASSUME NEW d, NEW D, NEW S, NEW E, NEW X, NEW e, Appends(d, D, S, E, X, e)
    PROVE  /\ GoodDir(d, E, S)
           /\ NamedIn(d, E) = NamedIn(d, D) \cup e.add
<1> DEFINE R == D[Manifest(d.current)]
           Q == E[Manifest(d.current)]
           s == S[Manifest(d.current)]
<1> USE DEF Appends
<1>1. /\ Len(R) \in Nat /\ DOMAIN R = 1..Len(R)
      /\ Len(Q) = Len(R) + 1 /\ DOMAIN Q = 1..Len(R) + 1
      /\ \A i \in 1..Len(R) : Q[i] = R[i]
      /\ Q[Len(R) + 1] = e
      /\ \A k \in 1..Len(R) : TablesAt(Q, k) = TablesAt(R, k)
      /\ TablesAt(Q, Len(R) + 1) = Applied(TablesAt(R, Len(R)), e)
      /\ Adds(Q) = Adds(R) \cup e.add
  BY RecordAppended
<1>2. NamedIn(d, E) = Adds(Q) /\ NamedIn(d, D) = Adds(R)
  BY DEF NamedIn, Adds
<1>3. GoodManifest(d, R, s, D, S)
  BY DEF GoodDir
<1>4. s \in Nat /\ s <= Len(R) /\ Manifest(d.current) \in d.files
  BY DEF GoodDir
<1>5. d.current < e.next /\ \A n \in Adds(R) : n < e.next
  BY <1>2 DEF BelowIn
<1>6. \A n \in Adds(R) \cup e.add : CompleteIn(n, D, S) => CompleteIn(n, E, S)
  BY <1>2 DEF CompleteIn
<1>7. \A i \in 1..Len(R) : R[i].add \subseteq Adds(R)
  BY <1>1 DEF Adds
<1>12. d.current # 0 /\ e.next # 0 /\ \A n \in e.add : n < e.next /\ Has(d, n) /\ CompleteIn(n, D, S)
  OBVIOUS
<1> HIDE DEF R, Q, s, Appends
<1>8. ASSUME NEW k \in 1..Len(R)
      PROVE  TablesAt(R, k) \subseteq Adds(R)
  <2>1. \A i \in 1..k : i \in 1..Len(R)
    BY <1>1
  <2> QED BY <1>7, <2>1 DEF TablesAt
<1>9. ASSUME NEW k \in 1..Len(R), s <= k
      PROVE  RecoversAt(k, d, Q, E, S)
  <2>1. RecoversAt(k, d, R, D, S)
    BY <1>3, <1>9 DEF GoodManifest
  <2>2. \A i \in 1..k : i \in 1..Len(R)
    BY <1>1
  <2>3. TablesAt(Q, k) = TablesAt(R, k) /\ Q[k] = R[k] /\ \A i \in 1..k : Q[i] = R[i]
    BY <1>1, <2>2
  <2> QED BY <1>6, <1>8, <2>1, <2>3 DEF RecoversAt
<1>10. RecoversAt(Len(R) + 1, d, Q, E, S)
  <2>1. Len(R) > 0 /\ Len(R) \in 1..Len(R)
    BY <1>1, <1>3 DEF GoodManifest
  <2>2. RecoversAt(Len(R), d, R, D, S)
    BY <1>3, <1>4, <2>1 DEF GoodManifest
  <2>3. \A n \in TablesAt(Q, Len(R) + 1) : Has(d, n) /\ CompleteIn(n, E, S)
    BY <1>1, <1>6, <1>8, <1>12, <2>1, <2>2 DEF RecoversAt, Applied
  <2>4. \A i \in 1..Len(R) + 1 : i \in 1..Len(R) \/ i = Len(R) + 1
    BY <1>1
  <2>5. \A i \in 1..Len(R) + 1 : \A n \in Q[i].add : n < e.next
    BY <1>1, <1>5, <1>7, <1>12, <2>4
  <2> QED BY <1>1, <1>5, <1>12, <2>3, <2>5 DEF RecoversAt
<1>11. GoodManifest(d, Q, s, E, S)
  <2>1. \A k \in 1..Len(R) + 1 : k \in 1..Len(R) \/ k = Len(R) + 1
    BY <1>1
  <2> QED BY <1>1, <1>3, <1>9, <1>10, <2>1 DEF GoodManifest
<1> QED BY <1>1, <1>2, <1>4, <1>11 DEF GoodDir, Q, s
LEMMA ManifestOf ==
    ASSUME TypeInv, NEW d \in Dirs, d.current # 0
    PROVE  /\ d.current \in Numbers /\ Manifest(d.current) \in Files
           /\ data[Manifest(d.current)] \in Seq(EditsTo(writes))
           /\ synced[Manifest(d.current)] \in Nat
           /\ synced[Manifest(d.current)] <= Len(data[Manifest(d.current)])
           /\ Len(data[Manifest(d.current)]) \in Nat
           /\ DOMAIN data[Manifest(d.current)] = 1..Len(data[Manifest(d.current)])
<1>1. d.current \in Numbers
  BY DirsAre, NamedAre
<1> QED BY <1>1, FileIs, ManifestIs

LEMMA NamedNumbers ==
    ASSUME TypeInv, NEW d \in Dirs
    PROVE  NamedIn(d, data) \subseteq Numbers
BY DirsAre, NamedAre

\* The MANIFEST of the process, which CURRENT names, gets the edit of LogAndApply.
AppendsEdit ==
    /\ data' = [data EXCEPT ![Manifest(manifest_file_number_)] = @ \o <<apply.edit>>]
    /\ UNCHANGED <<dir, older, synced>>

LEMMA AppendKeeps ==
    ASSUME DiskInv, MayCrash, Runs, has_descriptor_, apply.pc # "none",
           AppendsEdit
    PROVE  /\ AllGood(Dirs', data', synced')
           /\ \A N : AllBelow(N, Dirs, data) /\ (\A n \in apply.edit.add : n < N)
                     => AllBelow(N, Dirs', data')
           /\ \A n : FreshIn(n, Dirs, data) /\ n \notin apply.edit.add
                     => FreshIn(n, Dirs', data')
           /\ LET Q == data'[Manifest(manifest_file_number_)]
              IN  /\ Len(Q) = Len(Mine) + 1 /\ Q[Len(Q)] = apply.edit
                  /\ TablesAt(Q, Len(Q)) = Applied(TablesAt(Mine, Len(Mine)), apply.edit)
<1> DEFINE m == manifest_file_number_
           M == Manifest(m)
           edit == apply.edit
<1> USE DEF DiskInv
<1>1. dir.current = m /\ dir.current # 0 /\ dir \in Dirs
  BY DEF Descriptor, NoDir, Runs, Dirs
<1>2. /\ m \in Numbers /\ M \in Files /\ data[M] \in Seq(EditsTo(writes))
      /\ synced[M] \in Nat /\ synced[M] <= Len(data[M])
  BY <1>1, ManifestOf
<1>3. edit \in EditsTo(writes) /\ edit.add \subseteq Numbers
  BY DEF TypeInv, BgType, ApplyType, EditsTo
<1>4. PICK Q : Q = data'[M]
  OBVIOUS
<1>5. Appended(Q, data[M], edit) /\ \A g \in Files : g # M => data'[g] = data[g]
  BY <1>2, <1>4, FunctionChanges DEF TypeInv, DiskType, FilesOK, Appended, AppendsEdit
<1>6. \A n \in Numbers : data'[TableFile(n)] = data[TableFile(n)]
  <2> SUFFICES ASSUME NEW n \in Numbers
               PROVE  data'[TableFile(n)] = data[TableFile(n)]
    OBVIOUS
  <2>1. TableFile(n) \in Files
    BY FileIs
  <2>2. TableFile(n) # M
    BY FilesApart
  <2> HIDE DEF M, DiskInv
  <2> QED BY <1>5, <2>1, <2>2
<1>7. /\ edit.next # 0 /\ AllBelow(edit.next, Dirs, data)
      /\ \A n \in edit.add : n < edit.next
      /\ \A d \in Dirs : \A n \in edit.add : Has(d, n)
  BY DEF NamesBelow
<1>8. \A n \in edit.add : CompleteIn(n, data, synced)
  BY DEF LiveOnDisk, LiveTables
<1>9. AllGood(Dirs, data, synced)
  BY DEF DirsGood
<1> HIDE DEF M, m, edit, DiskInv
<1>10. ASSUME NEW d \in Dirs
       PROVE  /\ GoodDir(d, data', synced)
              /\ NamedIn(d, data') \subseteq NamedIn(d, data) \cup edit.add
  <2>1. NamedIn(d, data) \subseteq Numbers
    BY NamedNumbers DEF DiskInv
  <2>2. CASE d.current = m
    <3>1. Appended(data'[Manifest(d.current)], data[Manifest(d.current)], edit)
      BY <1>4, <1>5, <2>2 DEF M
    <3>2. /\ data[Manifest(d.current)] \in Seq(EditsTo(writes))
          /\ synced[Manifest(d.current)] \in Nat
          /\ synced[Manifest(d.current)] <= Len(data[Manifest(d.current)])
          /\ d.current # 0
      BY <1>1, <1>2, <2>2 DEF M
    <3>3. GoodDir(d, data, synced) /\ BelowIn(edit.next, d, data)
      BY <1>7, <1>9 DEF AllGood, AllBelow
    <3>4. \A n \in edit.add : n < edit.next /\ Has(d, n) /\ CompleteIn(n, data, synced)
      BY <1>7, <1>8
    <3>5. \A n \in NamedIn(d, data) \cup edit.add : data'[TableFile(n)] = data[TableFile(n)]
      BY <1>3, <1>6, <2>1
    <3>6. Appends(d, data, synced, data', EditsTo(writes), edit)
      BY <1>3, <1>7, <3>1, <3>2, <3>3, <3>4, <3>5 DEF Appends
    <3> QED BY <3>6, GoodAppended
  <2>3. CASE d.current # m
    <3>1. d.current # 0 =>
               /\ data'[Manifest(d.current)] = data[Manifest(d.current)]
               /\ synced[Manifest(d.current)] \in Nat
               /\ Len(data[Manifest(d.current)]) \in Nat
               /\ DOMAIN data[Manifest(d.current)] = 1..Len(data[Manifest(d.current)])
      BY <1>5, <2>3, ManifestOf, FilesApart DEF M, DiskInv
    <3>2. GoodDir(d, data, synced)
      BY <1>9 DEF AllGood
    <3>3. \A n \in NamedIn(d, data) :
              Has(d, n) /\ CompleteIn(n, data, synced) => Has(d, n) /\ CompleteIn(n, data', synced)
      BY <1>6, <2>1 DEF CompleteIn
    <3>4. d.current # 0 =>
               /\ Manifest(d.current) \in d.files
               /\ data'[Manifest(d.current)] = data[Manifest(d.current)]
               /\ synced[Manifest(d.current)] \in Nat
               /\ synced[Manifest(d.current)] <= synced[Manifest(d.current)]
               /\ Len(data[Manifest(d.current)]) \in Nat
               /\ DOMAIN data[Manifest(d.current)] = 1..Len(data[Manifest(d.current)])
      BY <3>1, <3>2 DEF GoodDir
    <3>5. GoodDir(d, data', synced)
      BY <3>2, <3>3, <3>4, GoodKept
    <3>6. NamedIn(d, data') = NamedIn(d, data)
      BY <3>1, NamedKept
    <3> QED BY <3>5, <3>6
  <2> QED BY <2>2, <2>3
<1>11. Dirs' = Dirs /\ synced' = synced
  BY DEF Dirs, AppendsEdit
<1>12. ASSUME NEW d \in Dirs, NEW N, BelowIn(N, d, data), \A n \in edit.add : n < N
       PROVE  BelowIn(N, d, data')
  BY <1>10, <1>12 DEF BelowIn
<1>13. /\ AllGood(Dirs', data', synced')
       /\ \A N : AllBelow(N, Dirs, data) /\ (\A n \in edit.add : n < N)
                     => AllBelow(N, Dirs', data')
       /\ \A n : FreshIn(n, Dirs, data) /\ n \notin edit.add => FreshIn(n, Dirs', data')
  BY <1>10, <1>11, <1>12 DEF AllGood, AllBelow, FreshIn
<1>14. /\ Len(Q) = Len(data[M]) + 1 /\ Q[Len(data[M]) + 1] = edit
       /\ TablesAt(Q, Len(data[M]) + 1) = Applied(TablesAt(data[M], Len(data[M])), edit)
  BY <1>2, <1>3, <1>5, RecordAppended
<1> QED BY <1>4, <1>13, <1>14 DEF Mine, M, m, edit

\* More of the MANIFESTs is synced.
LEMMA SyncKeeps ==
    ASSUME TypeInv, DiskType', data' = data, Dirs' \subseteq Dirs,
           \A n \in Numbers : /\ synced[Manifest(n)] <= synced'[Manifest(n)]
                              /\ synced'[TableFile(n)] = synced[TableFile(n)]
    PROVE  /\ AllGood(Dirs, data, synced) => AllGood(Dirs', data', synced')
           /\ \A N : AllBelow(N, Dirs, data) => AllBelow(N, Dirs', data')
           /\ \A n : FreshIn(n, Dirs, data) => FreshIn(n, Dirs', data')
<1>1. ASSUME NEW d \in Dirs, GoodDir(d, data, synced)
      PROVE  GoodDir(d, data', synced')
  <2>1. \A n \in NamedIn(d, data) :
              Has(d, n) /\ CompleteIn(n, data, synced) => Has(d, n) /\ CompleteIn(n, data', synced')
    BY NamedNumbers DEF CompleteIn
  <2>2. d.current # 0 =>
               /\ Manifest(d.current) \in d.files
               /\ data'[Manifest(d.current)] = data[Manifest(d.current)]
               /\ synced[Manifest(d.current)] \in Nat /\ synced'[Manifest(d.current)] \in Nat
               /\ synced[Manifest(d.current)] <= synced'[Manifest(d.current)]
               /\ Len(data[Manifest(d.current)]) \in Nat
               /\ DOMAIN data[Manifest(d.current)] = 1..Len(data[Manifest(d.current)])
    BY <1>1, ManifestOf DEF GoodDir, DiskType, FilesOK
  <2> QED BY <1>1, <2>1, <2>2, GoodKept
<1> QED BY <1>1 DEF AllGood, AllBelow, FreshIn
LEMMA ChangeDirIs ==
    ASSUME NEW d, ChangeDir(d)
    PROVE  dir' = d /\ Dirs' \subseteq Dirs \cup {d} /\ d \in Dirs'
BY DEF ChangeDir, Dirs

\* CURRENT names the new MANIFEST, which has two records.
LEMMA CurrentKeeps ==
    ASSUME DiskInv, MayCrash, Runs, SetCurrentFile
    PROVE  /\ AllGood(Dirs', data', synced')
           /\ phase = "open" /\ ~has_descriptor_ /\ dir'.current = manifest_file_number_
           /\ \A N : /\ AllBelow(N, Dirs, data) /\ manifest_file_number_ < N
                     /\ \A n \in apply.edit.add \cup current_ : n < N
                     => AllBelow(N, Dirs', data')
           /\ Len(Mine) = 2 /\ Mine[2] = apply.edit /\ TablesAt(Mine, 2) = After
           /\ synced[Manifest(manifest_file_number_)] = Len(Mine)
           /\ \A e \in Dirs' : e \in Dirs \/ e.files = dir.files
<1> DEFINE m == manifest_file_number_
           M == Manifest(m)
           e == [dir EXCEPT !.current = m]
<1>1. /\ apply.pc = "current" /\ ChangeDir(e) /\ UNCHANGED <<data, synced>>
  BY DEF SetCurrentFile
<1>2. phase = "open" /\ ~has_descriptor_
  BY <1>1 DEF DiskInv, Descriptor, Runs
<1>3. /\ Mine = <<Edit(0, 0, 0, current_, {}), apply.edit>>
      /\ M \in dir.files /\ synced[M] = Len(Mine)
  BY <1>1, <1>2 DEF DiskInv, NewManifest
<1>4. e.current = m /\ e.files = dir.files /\ m # 0
  <2>1. dir \in DirType
    BY DEF DiskInv, TypeInv, DirsOK
  <2>2. m # 0
    BY <1>2 DEF DiskInv, TypeInv, PhaseType
  <2> QED BY <2>1, <2>2 DEF DirType
<1>5. /\ apply.edit.next # 0 /\ m < apply.edit.next
      /\ \A n \in apply.edit.add \cup current_ : n < apply.edit.next
      /\ \A d \in Dirs : \A n \in apply.edit.add : Has(d, n)
  BY <1>1 DEF DiskInv, NamesBelow
<1>6. \A n \in current_ \cup apply.edit.add : Has(dir, n) /\ CompleteIn(n, data, synced)
  BY DEF DiskInv, LiveOnDisk, LiveTables
<1>7. /\ Len(Mine) = 2 /\ DOMAIN Mine = 1..2 /\ Mine[1].add = current_ /\ Mine[1].del = {}
      /\ Mine[2] = apply.edit
  <2>1. PICK x : x = Edit(0, 0, 0, current_, {})
    OBVIOUS
  <2>2. PICK y : y = apply.edit
    OBVIOUS
  <2>3. Mine = <<x, y>>
    BY <1>3, <2>1, <2>2
  <2>4. x.add = current_ /\ x.del = {}
    BY <2>1, EditIs
  <2> QED BY <2>2, <2>3, <2>4
<1> DEFINE R == Mine
<1> HIDE DEF R
<1>8. TablesAt(R, 2) = After
  <2>1. \A n : n \in TablesAt(R, 2) <=>
              \E i \in 1..2 : n \in R[i].add /\ \A j \in i + 1..2 : n \notin R[j].del
    BY DEF TablesAt
  <2>2. R[1].add = current_ /\ R[2] = apply.edit
    BY <1>7 DEF R
  <2>3. \A n : n \in TablesAt(R, 2) <=>
              (n \in R[1].add /\ n \notin R[2].del) \/ n \in R[2].add
    BY <2>1
  <2> QED BY <2>2, <2>3 DEF After, Applied
<1>9. GoodDir(e, data, synced)
  <2>1. RecoversAt(2, e, R, data, synced)
    <3>1. \A i \in 1..2 : \A n \in R[i].add : n < R[2].next
      <4>1. R[1].add = current_ /\ R[2] = apply.edit
        BY <1>7 DEF R
      <4>2. \A i \in 1..2 : i = 1 \/ i = 2
        OBVIOUS
      <4> QED BY <1>5, <4>1, <4>2
    <3>2. \A n \in TablesAt(R, 2) : Has(e, n) /\ CompleteIn(n, data, synced)
      BY <1>4, <1>6, <1>8 DEF After, Applied, Has
    <3>3. R[2] = apply.edit
      BY <1>7 DEF R
    <3> QED BY <1>4, <1>5, <3>1, <3>2, <3>3 DEF RecoversAt
  <2>2. Len(R) = 2 /\ synced[M] = 2 /\ data[Manifest(e.current)] = R
        /\ synced[Manifest(e.current)] = 2
    BY <1>3, <1>4, <1>7 DEF R, Mine
  <2>3. GoodManifest(e, R, 2, data, synced)
    <3>1. \A k \in 1..2 : 2 <= k => k = 2
      OBVIOUS
    <3> QED BY <2>1, <2>2, <3>1 DEF GoodManifest
  <2>4. Manifest(e.current) \in e.files
    BY <1>3, <1>4
  <2> HIDE DEF e, M
  <2> QED BY <2>2, <2>3, <2>4 DEF GoodDir
<1>10. Dirs' \subseteq Dirs \cup {e} /\ dir' = e
  BY <1>1, ChangeDirIs
<1>11. NamedIn(e, data) = current_ \cup apply.edit.add
  <2>1. NamedIn(e, data) = UNION {R[i].add : i \in DOMAIN R}
    BY <1>4 DEF NamedIn, Mine, R
  <2>2. DOMAIN R = 1..2 /\ R[1].add = current_ /\ R[2] = apply.edit
    BY <1>7 DEF R
  <2>3. 1..2 = {1, 2}
    OBVIOUS
  <2> HIDE DEF e
  <2> QED BY <2>1, <2>2, <2>3
<1> HIDE DEF e, M
<1>12. AllGood(Dirs', data', synced')
  BY <1>1, <1>9, <1>10 DEF AllGood, DiskInv, DirsGood
<1>13. ASSUME NEW N, AllBelow(N, Dirs, data), m < N,
              \A n \in apply.edit.add \cup current_ : n < N
       PROVE  AllBelow(N, Dirs', data')
  <2>1. BelowIn(N, e, data)
    BY <1>4, <1>11, <1>13 DEF BelowIn
  <2> QED BY <1>1, <1>10, <1>13, <2>1 DEF AllBelow
<1>14. \A d \in Dirs' : d \in Dirs \/ d.files = dir.files
  BY <1>4, <1>10
<1> QED BY <1>2, <1>3, <1>4, <1>7, <1>8, <1>10, <1>12, <1>13, <1>14 DEF R, M

\* DeleteObsoleteFiles leaves what is live.
LEMMA DeleteLeaves ==
    ASSUME TypeInv, TypeInv', DeleteObsoleteFiles
    PROVE  /\ \A n \in Live : Has(dir, n) => Has(dir', n)
           /\ \A n : manifest_file_number_' <= n /\ Manifest(n) \in dir.files
                     => Manifest(n) \in dir'.files
           /\ dir'.current = dir.current
           /\ Dirs' \subseteq Dirs \cup {dir'}
<1>1. CASE bg_error_'
  BY <1>1 DEF DeleteObsoleteFiles, Dirs
<1>2. CASE ~bg_error_'
  <2>1. PICK d : d = [dir EXCEPT !.files = @ \ Obsolete]
    OBVIOUS
  <2>2. ChangeDir(d)
    BY <1>2, <2>1 DEF DeleteObsoleteFiles
  <2>3. dir' = d /\ Dirs' \subseteq Dirs \cup {d}
    BY <2>2, ChangeDirIs
  <2>4. d.current = dir.current /\ d.files = dir.files \ Obsolete
    BY <2>1 DEF TypeInv, DirsOK, DirType
  <2>5. ASSUME NEW n \in Live
        PROVE  TableFile(n) \notin Obsolete
    BY DEF Obsolete, TableFile
  <2>6. ASSUME NEW n, manifest_file_number_' <= n, Manifest(n) \in dir.files
        PROVE  Manifest(n) \notin Obsolete
    <3>1. n \in Nat /\ manifest_file_number_' \in Nat
      BY <2>6, NumbersAre DEF TypeInv, DirsOK, DirType, Files, Manifest, NumberType
    <3> QED BY <2>6, <3>1 DEF Obsolete, Manifest
  <2> QED BY <2>3, <2>4, <2>5, <2>6 DEF Has
<1> QED BY <1>1, <1>2
\* LogAndApply ends: the MANIFEST comes to the version that it installs.
LEMMA DeleteKeeps ==
    ASSUME DiskInv, TypeInv', MayCrash, Runs, Install, DeleteObsoleteFiles,
           UNCHANGED <<data, synced, manifest_file_number_, bg_error_>>
    PROVE  /\ AllGood(Dirs', data', synced')
           /\ \A N : AllBelow(N, Dirs, data) => AllBelow(N, Dirs', data')
           /\ \A n : FreshIn(n, Dirs, data) => FreshIn(n, Dirs', data')
           /\ has_descriptor_ /\ dir'.current = dir.current /\ current_' = After
<1> DEFINE m == manifest_file_number_
           M == Manifest(m)
<1>1. apply.pc = "install" /\ current_' = After
  BY DEF Install, After, Applied
<1>2. has_descriptor_ /\ dir.current = m
  BY <1>1 DEF DiskInv, Descriptor, Runs
<1>3. /\ \A n \in Live : Has(dir, n) => Has(dir', n)
      /\ \A n : manifest_file_number_' <= n /\ Manifest(n) \in dir.files
                => Manifest(n) \in dir'.files
      /\ dir'.current = dir.current
      /\ Dirs' \subseteq Dirs \cup {dir'}
  BY DeleteLeaves DEF DiskInv
<1>4. dir \in Dirs /\ m # 0 /\ m <= m
  BY NumbersAre DEF Dirs, DiskInv, TypeInv, PhaseType, Runs, NumberType
<1>5. /\ Mine \in Seq(EditsTo(writes)) /\ synced[M] \in Nat /\ synced[M] <= Len(Mine)
      /\ Len(Mine) \in Nat
  BY <1>2, <1>4, ManifestOf DEF DiskInv, Mine
<1>6. GoodDir(dir', data, synced)
  <2>1. CASE bg_error_'
    BY <1>4, <2>1 DEF DeleteObsoleteFiles, DiskInv, DirsGood, AllGood
  <2>2. CASE ~bg_error_'
    <3>1. TablesAt(Mine, Len(Mine)) = After /\ synced[M] = Len(Mine)
      BY <1>1, <1>2, <2>2 DEF DiskInv, Replay
    <3>2. GoodDir(dir, data, synced)
      BY <1>4 DEF DiskInv, DirsGood, AllGood
    <3>3. /\ Manifest(m) \in dir.files
          /\ GoodManifest(dir, Mine, synced[M], data, synced)
      BY <1>2, <1>4, <3>2 DEF GoodDir, Mine
    <3>4. RecoversAt(Len(Mine), dir, Mine, data, synced)
      BY <1>5, <3>1, <3>3 DEF GoodManifest
    <3>5. After \subseteq Live
      BY <1>1 DEF Live
    <3>6. RecoversAt(Len(Mine), dir', Mine, data, synced)
      BY <1>3, <3>1, <3>4, <3>5 DEF RecoversAt
    <3>7. GoodManifest(dir', Mine, synced[M], data, synced)
      <4>1. \A k \in 1..Len(Mine) : synced[M] <= k => k = Len(Mine)
        BY <1>5, <3>1
      <4> QED BY <1>2, <1>3, <3>3, <3>6, <4>1 DEF GoodManifest
    <3>8. Manifest(m) \in dir'.files
      BY <1>3, <1>4, <3>3
    <3> QED BY <1>2, <1>3, <3>7, <3>8 DEF GoodDir, Mine
  <2> QED BY <2>1, <2>2
<1>7. AllGood(Dirs', data', synced')
  BY <1>3, <1>6 DEF AllGood, DiskInv, DirsGood
<1>8. /\ NamedIn(dir', data) = NamedIn(dir, data)
      /\ \A N : BelowIn(N, dir, data) => BelowIn(N, dir', data)
  BY <1>3, NamedKept
<1>9. \A N : AllBelow(N, Dirs, data) => AllBelow(N, Dirs', data')
  BY <1>3, <1>4, <1>8 DEF AllBelow
<1>10. \A n : FreshIn(n, Dirs, data) => FreshIn(n, Dirs', data')
  BY <1>3, <1>4, <1>8 DEF FreshIn
<1> QED BY <1>1, <1>2, <1>3, <1>7, <1>9, <1>10

\* Whatever a crash of the machine leaves is good, and its numbers are below the next.
LEMMA CrashKeeps ==
    ASSUME DiskInv, MayCrash, ~CrashWhenNew, MachineCrash
    PROVE  /\ AllGood(Dirs', data', synced')
           /\ dir'.current # 0 =>
                  AllBelow(data'[Manifest(dir'.current)][Len(data'[Manifest(dir'.current)])].next,
                           Dirs', data')
<1> DEFINE d == dir'
           M == Manifest(d.current)
           R == data[M]
           Q == data'[M]
           s == synced[M]
<1>1. /\ d \in Dirs /\ older' = {} /\ FirstManifestOnDisk(d)
      /\ synced' = [f \in Files |-> Len(data'[f])]
      /\ \A f \in d.files : \E k \in Nat :
             /\ synced[f] <= k /\ k <= Len(data[f]) /\ data'[f] = SubSeq(data[f], 1, k)
  BY CrashLeaves DEF DiskInv, Dirs
<1>2. Dirs' = {dir'}
  BY <1>1 DEF Dirs
<1>3. CASE d.current = 0
  BY <1>2, <1>3 DEF AllGood, GoodDir
<1>4. CASE d.current # 0
  <2>1. /\ M \in Files /\ R \in Seq(EditsTo(writes)) /\ s \in Nat /\ s <= Len(R)
        /\ Len(R) \in Nat /\ DOMAIN R = 1..Len(R)
    BY <1>1, <1>4, ManifestOf DEF DiskInv
  <2>2. GoodDir(d, data, synced)
    BY <1>1 DEF DiskInv, DirsGood, AllGood
  <2>3. M \in d.files /\ GoodManifest(d, R, s, data, synced)
    BY <1>4, <2>2 DEF GoodDir
  <2>4. PICK k \in Nat : s <= k /\ k <= Len(R) /\ Q = SubSeq(R, 1, k)
    BY <1>1, <2>3
  <2>5. s > 0
    BY <1>1, <2>3 DEF GoodManifest, FirstManifestOnDisk
  <2>6. k \in 1..Len(R)
    BY <2>1, <2>4, <2>5
  <2> HIDE DEF R
  <2>7. Len(Q) = k /\ Q \in Seq(EditsTo(writes)) /\ \A i \in 1..k : Q[i] = R[i]
    BY <2>1, <2>4, PrefixIs
  <2>8. DOMAIN Q = 1..k
    BY <2>7, LenProperties
  <2>9. RecoversAt(k, d, R, data, synced)
    BY <2>3, <2>4, <2>6 DEF GoodManifest
  <2>10. TablesAt(Q, k) = TablesAt(R, k)
    BY <2>4, <2>7, TablesAtPrefix
  <2>11. ASSUME NEW n \in Numbers, Has(d, n), CompleteIn(n, data, synced)
         PROVE  CompleteIn(n, data', synced')
    <3>1. TableFile(n) \in Files /\ TableFile(n) \in d.files
      BY <2>11, FileIs DEF Has
    <3>2. PICK l \in Nat : /\ synced[TableFile(n)] <= l /\ l <= Len(data[TableFile(n)])
                           /\ data'[TableFile(n)] = SubSeq(data[TableFile(n)], 1, l)
      BY <1>1, <3>1
    <3>3. data[TableFile(n)] \in Seq(Records(TableFile(n), writes))
      BY <3>1 DEF DiskInv, TypeInv, DiskType, FilesOK
    <3>4. l = Len(data[TableFile(n)])
      BY <2>11, <3>2, <3>3, LenProperties DEF CompleteIn
    <3>5. data'[TableFile(n)] = data[TableFile(n)]
      BY <3>2, <3>3, <3>4, SubSeqFull
    <3>6. synced'[TableFile(n)] = Len(data'[TableFile(n)])
      BY <1>1, <3>1
    <3> QED BY <2>11, <3>5, <3>6 DEF CompleteIn
  <2>12. TablesAt(R, k) \subseteq Numbers
    <3>1. \A i \in 1..k : R[i] \in EditsTo(writes)
      BY <2>1, <2>6, ElementOfSeq
    <3> QED BY <3>1 DEF TablesAt, EditsTo
  <2>13. RecoversAt(k, d, Q, data', synced')
    <3>1. k \in 1..k
      BY <2>6
    <3> QED BY <2>7, <2>9, <2>10, <2>11, <2>12, <3>1 DEF RecoversAt
  <2>14. synced'[M] = k
    BY <1>1, <2>1, <2>7
  <2>15. GoodManifest(d, Q, k, data', synced')
    <3>1. \A i \in 1..k : k <= i => i = k
      BY <2>6
    <3> QED BY <2>6, <2>7, <2>13, <3>1 DEF GoodManifest
  <2>16. GoodDir(d, data', synced')
    BY <2>3, <2>14, <2>15 DEF GoodDir
  <2>17. BelowIn(Q[Len(Q)].next, d, data')
    <3>1. NamedIn(d, data') = UNION {Q[i].add : i \in 1..k}
      BY <1>4, <2>8 DEF NamedIn
    <3> QED BY <2>7, <2>13, <3>1 DEF RecoversAt, BelowIn
  <2> QED BY <1>2, <2>16, <2>17 DEF AllGood, AllBelow
<1> QED BY <1>3, <1>4
-----------------------------------------------------------------------------
(***************************************************************************)
(* Steps that touch one file, or none.                                     *)
(***************************************************************************)
Only(f) ==
    /\ f \in Files
    /\ \A g \in Files : g # f =>
           /\ data'[g] = data[g] /\ synced'[g] = synced[g]
           /\ g \in dir.files => g \in dir'.files
    /\ dir'.current = dir.current /\ Dirs' \subseteq Dirs \cup {dir'}

LEMMA OnlyIs ==
    ASSUME TypeInv, NEW f \in Files, NEW x, NEW y,
           data' = [data EXCEPT ![f] = x] \/ data' = data,
           synced' = [synced EXCEPT ![f] = y] \/ synced' = synced,
           dir' \in {dir, Create(f), [dir EXCEPT !.files = @ \ {f}]},
           Dirs' \subseteq Dirs \cup {dir'}
    PROVE  Only(f)
<1>1. \A g \in Files : g # f => data'[g] = data[g]
  BY FunctionChanges DEF TypeInv, DiskType, FilesOK
<1>2. \A g \in Files : g # f => synced'[g] = synced[g]
  BY FunctionChanges DEF TypeInv, DiskType, FilesOK
<1>3. dir'.current = dir.current /\ \A g \in Files : g # f /\ g \in dir.files => g \in dir'.files
  <2>1. \A e \in {dir, Create(f), [dir EXCEPT !.files = @ \ {f}]} :
            e.current = dir.current /\ \A g \in Files : g # f /\ g \in dir.files => g \in e.files
    BY DEF TypeInv, DirsOK, DirType, Create
  <2> QED BY <2>1
<1> QED BY <1>1, <1>2, <1>3 DEF Only

LEMMA OnlyCreates ==
    ASSUME TypeInv, NEW f \in Files, NEW r, ChangeDir(Create(f)), Written(f, r)
    PROVE  Only(f) /\ f \in dir'.files
<1>1. dir' = Create(f) /\ Dirs' \subseteq Dirs \cup {dir'}
  BY ChangeDirIs
<1>2. Only(f)
  BY <1>1, OnlyIs DEF Written
<1> QED BY <1>1, <1>2 DEF Create, TypeInv, DirsOK, DirType

LEMMA OnlyWrites ==
    ASSUME TypeInv, NEW f \in Files, NEW x, dir' = dir, older' = {} \/ older' = older,
           data' = [data EXCEPT ![f] = x], SyncFile(f) \/ synced' = synced
    PROVE  Only(f)
<1>1. Dirs' \subseteq Dirs \cup {dir'} /\ dir' \in {dir}
  BY DEF Dirs
<1>2. PICK y : synced' = [synced EXCEPT ![f] = y] \/ synced' = synced
  BY DEF SyncFile
<1>3. data' = [data EXCEPT ![f] = x] \/ data' = data
  OBVIOUS
<1> QED BY <1>1, <1>2, <1>3, OnlyIs

LEMMA OnlyDeletes ==
    ASSUME TypeInv, NEW f \in Files, ChangeDir([dir EXCEPT !.files = @ \ {f}]),
           UNCHANGED <<data, synced>>
    PROVE  Only(f)
<1>1. dir' = [dir EXCEPT !.files = @ \ {f}] /\ Dirs' \subseteq Dirs \cup {dir'}
  BY ChangeDirIs
<1> QED BY <1>1, OnlyIs

LEMMA OnlyNothing ==
    ASSUME TypeInv, UNCHANGED diskVars
    PROVE  Only(Log(1))
<1>1. Log(1) \in Files
  BY NumbersAre, FileIs DEF Numbers
<1>2. dir' = dir /\ older' = older /\ data' = data /\ synced' = synced
  BY DEF diskVars
<1> QED BY <1>1, <1>2, OnlyIs DEF Dirs

\* What no MANIFEST names.
LEMMA NotUsed ==
    ASSUME TypeInv, NEW n
    PROVE  /\ \A d \in Dirs : Log(n) \notin Uses(d, data)
           /\ FreshIn(n, Dirs, data) => \A d \in Dirs : TableFile(n) \notin Uses(d, data)
           /\ (\A d \in Dirs : d.current # n) => \A d \in Dirs : Manifest(n) \notin Uses(d, data)
BY FilesApart DEF Uses, FreshIn

LEMMA OnlyTouches ==
    ASSUME NEW f, Only(f), \A d \in Dirs : f \notin Uses(d, data)
    PROVE  Touches(f)
<1>1. dir \in Dirs
  BY DEF Dirs
<1> QED BY <1>1 DEF Only, Touches

LEMMA LiveNumbers == TypeInv => LiveTables \subseteq Numbers
BY DEF TypeInv, LiveTables, VersionType, Base, BgType, CompactionType, ApplyType, EditsTo

\* The tables that are in use stay on the disk.
LEMMA LiveKept ==
    ASSUME DiskInv, Runs, NEW f, Only(f)
    PROVE  \A n \in LiveTables : TableFile(n) # f => Has(dir', n) /\ CompleteIn(n, data', synced')
<1> SUFFICES ASSUME NEW n \in LiveTables, TableFile(n) # f
             PROVE  Has(dir', n) /\ CompleteIn(n, data', synced')
  OBVIOUS
<1>1. TableFile(n) \in Files
  BY LiveNumbers, FileIs DEF DiskInv
<1>2. Has(dir, n) /\ CompleteIn(n, data, synced)
  BY DEF DiskInv, LiveOnDisk
<1>3. /\ data'[TableFile(n)] = data[TableFile(n)] /\ synced'[TableFile(n)] = synced[TableFile(n)]
      /\ TableFile(n) \in dir'.files
  BY <1>1, <1>2 DEF Only, Has
<1> QED BY <1>2, <1>3 DEF Has, CompleteIn

\* Where the process is in LogAndApply, as far as the MANIFEST is concerned.
PcKept ==
    /\ apply'.pc = "install" <=> apply.pc = "install"
    /\ apply'.pc = "current" => apply.pc = "current"

LEMMA BelowGrows ==
    ASSUME TypeInv, NEW N \in Nat, NEW K \in Nat, N <= K, AllBelow(N, Dirs, data)
    PROVE  AllBelow(K, Dirs, data)
<1>1. ASSUME NEW d \in Dirs
      PROVE  BelowIn(K, d, data)
  <2>1. NamedIn(d, data) \subseteq Nat /\ (d.current # 0 => d.current \in Nat)
    BY NumbersAre, NamedNumbers, DirsAre, NamedAre
  <2>2. BelowIn(N, d, data)
    BY DEF AllBelow
  <2> QED BY <2>1, <2>2 DEF BelowIn
<1> QED BY <1>1 DEF AllBelow

LEMMA MayCrashBefore ==
    ASSUME TypeInv, MayCrash', phase' = phase, faults <= faults', TypeInv'
    PROVE  MayCrash
BY NumbersAre DEF MayCrash, TypeInv, HistoryType

LEMMA ManifestsKept ==
    ASSUME DiskInv, TypeInv', Runs, MayCrash, phase' = phase, NEW f, Only(f), Touches(f),
           next_file_number_ <= next_file_number_',
           UNCHANGED <<reuse, has_descriptor_, manifest_file_number_>>, PcKept
    PROVE  /\ DirsGood' /\ Horizon' /\ NoDir' /\ Descriptor'
           /\ AllBelow(next_file_number_', Dirs', data')
           /\ \A N : AllBelow(N, Dirs, data) => AllBelow(N, Dirs', data')
           /\ \A n : FreshIn(n, Dirs, data) => FreshIn(n, Dirs', data')
<1>1. /\ AllGood(Dirs, data, synced) => AllGood(Dirs', data', synced')
      /\ \A N : AllBelow(N, Dirs, data) => AllBelow(N, Dirs', data')
      /\ \A n : FreshIn(n, Dirs, data) => FreshIn(n, Dirs', data')
      /\ \A N : (\A d \in Dirs : d.current < N) => \A e \in Dirs' : e.current < N
  BY TouchKeeps DEF DiskInv, TypeInv
<1>2. dir.current # 0 /\ dir'.current = dir.current /\ dir \in Dirs
  BY DEF DiskInv, NoDir, Runs, Only, Dirs
<1>3. DirsGood'
  BY <1>1 DEF DiskInv, DirsGood
<1>4. data'[Manifest(dir.current)] = data[Manifest(dir.current)]
  <2>1. Manifest(dir.current) \in Files
    BY <1>2, ManifestOf DEF DiskInv
  <2>2. Manifest(dir.current) # f
    BY <1>2 DEF Touches, Uses
  <2> QED BY <2>1, <2>2 DEF Only
<1>5. Horizon'
  <2>1. AllBelow(Here[Len(Here)].next, Dirs, data)
    BY <1>2 DEF DiskInv, Horizon
  <2>2. AllBelow(Here[Len(Here)].next, Dirs', data')
    BY <1>1, <2>1
  <2>3. Here' = Here
    BY <1>2, <1>4 DEF Here
  <2> QED BY <2>2, <2>3 DEF Horizon
<1>6. NoDir'
  BY <1>2 DEF NoDir
<1>7. next_file_number_ \in Nat /\ next_file_number_' \in Nat /\ manifest_file_number_ \in Nat
  BY NumbersAre DEF DiskInv, TypeInv, NumberType
<1>8. Descriptor'
  <2>1. /\ ~reuse
        /\ phase = "open" => (has_descriptor_ <=> apply.pc = "install")
        /\ phase = "up" => has_descriptor_ /\ apply.pc # "current"
        /\ has_descriptor_ => dir.current = manifest_file_number_
        /\ ~has_descriptor_ => \A d \in Dirs : d.current < manifest_file_number_
        /\ manifest_file_number_ < next_file_number_
    BY DEF DiskInv, Descriptor
  <2>2. ~has_descriptor_ => \A d \in Dirs' : d.current < manifest_file_number_
    BY <1>1, <2>1
  <2>3. manifest_file_number_' < next_file_number_'
    BY <1>7, <2>1
  <2> QED BY <1>2, <2>1, <2>2, <2>3 DEF Descriptor, PcKept
<1>9. AllBelow(next_file_number_', Dirs', data')
  <2>1. AllBelow(next_file_number_, Dirs, data)
    BY DEF DiskInv, NamesBelow
  <2>2. AllBelow(next_file_number_', Dirs, data)
    BY <1>7, <2>1, BelowGrows DEF DiskInv
  <2> QED BY <1>1, <2>2
<1> QED BY <1>1, <1>3, <1>5, <1>6, <1>8, <1>9
LEMMA RestKept ==
    ASSUME DiskInv, Runs, MayCrash, NEW f, Only(f), Touches(f),
           UNCHANGED <<apply, current_, manifest_file_number_, has_descriptor_>>,
           bg_error_ => bg_error_',
           f # Manifest(manifest_file_number_), \A n \in apply.edit.add : f # TableFile(n),
           AllBelow(next_file_number_', Dirs', data'),
           \A N : AllBelow(N, Dirs, data) => AllBelow(N, Dirs', data')
    PROVE  NamesBelow' /\ Replay' /\ NewManifest'
<1>1. manifest_file_number_ \in Numbers
  BY NumbersAre DEF DiskInv, TypeInv, NumberType, PhaseType, Runs, Numbers
<1>2. PICK M : M = Manifest(manifest_file_number_)
  OBVIOUS
<1>3. /\ data'[M] = data[M] /\ synced'[M] = synced[M]
      /\ M \in dir.files => M \in dir'.files
  <2>1. M \in Files /\ f # M
    BY <1>1, <1>2, FileIs
  <2> QED BY <2>1 DEF Only
<1>4. Mine' = Mine /\ After' = After
  BY <1>2, <1>3 DEF Mine, After, Applied
<1>5. NamesBelow'
  <2>1. /\ apply.pc # "none" =>
               /\ apply.edit.next # 0 /\ manifest_file_number_ < apply.edit.next
               /\ AllBelow(apply.edit.next, Dirs, data)
               /\ \A n \in apply.edit.add \cup current_ : n < apply.edit.next
        /\ \A d \in Dirs : \A n \in apply.edit.add : Has(d, n)
    BY DEF DiskInv, NamesBelow
  <2>2. ASSUME NEW e \in Dirs', NEW n \in apply.edit.add
        PROVE  Has(e, n)
    <3>1. PICK d \in Dirs : \A g \in Files : g # f /\ g \in d.files => g \in e.files
      BY DEF Touches
    <3>2. TableFile(n) \in Files
      BY LiveNumbers, FileIs DEF DiskInv, LiveTables
    <3> QED BY <2>1, <3>1, <3>2 DEF Has
  <2>3. apply.pc # "none" => AllBelow(apply.edit.next, Dirs', data')
    BY <2>1
  <2> QED BY <2>1, <2>2, <2>3 DEF NamesBelow
<1>6. Replay' /\ NewManifest'
  <2>1. ~bg_error_' => ~bg_error_
    OBVIOUS
  <2>2. Replay'
    BY <1>2, <1>3, <1>4, <2>1 DEF DiskInv, Replay
  <2>3. NewManifest'
    BY <1>2, <1>3, <1>4 DEF DiskInv, NewManifest
  <2> QED BY <2>2, <2>3
<1> QED BY <1>5, <1>6

\* A step of a process that touches one file, which is neither a MANIFEST nor a
\* table in use, and leaves LogAndApply where it is.
LEMMA QuietStep ==
    ASSUME DiskInv, TypeInv', Runs, phase' = phase, faults <= faults', NEW f, Only(f),
           MayCrash => \A d \in Dirs : f \notin Uses(d, data),
           f # Manifest(manifest_file_number_), \A n \in LiveTables : f # TableFile(n),
           next_file_number_ <= next_file_number_',
           UNCHANGED <<reuse, has_descriptor_, manifest_file_number_, apply, current_>>,
           bg_error_ => bg_error_'
    PROVE  /\ DirsGood' /\ Horizon' /\ NoDir' /\ Descriptor' /\ NamesBelow' /\ Replay'
           /\ NewManifest'
           /\ MayCrash' => MayCrash
           /\ MayCrash => \A n : FreshIn(n, Dirs, data) => FreshIn(n, Dirs', data')
           /\ \A n \in LiveTables : Has(dir', n) /\ CompleteIn(n, data', synced')
<1>1. MayCrash' => MayCrash
  BY MayCrashBefore DEF DiskInv
<1>2. \A n \in LiveTables : Has(dir', n) /\ CompleteIn(n, data', synced')
  BY LiveKept
<1>3. NoDir'
  BY DEF NoDir, DiskInv, Runs, Only
<1>4. CASE ~MayCrash
  BY <1>1, <1>2, <1>3, <1>4
  DEF DirsGood, Horizon, Descriptor, NamesBelow, Replay, NewManifest
<1>5. CASE MayCrash
  <2>1. Touches(f) /\ PcKept
    BY <1>5, OnlyTouches DEF PcKept
  <2>2. /\ DirsGood' /\ Horizon' /\ NoDir' /\ Descriptor'
        /\ AllBelow(next_file_number_', Dirs', data')
        /\ \A N : AllBelow(N, Dirs, data) => AllBelow(N, Dirs', data')
        /\ \A n : FreshIn(n, Dirs, data) => FreshIn(n, Dirs', data')
    BY <1>5, <2>1, ManifestsKept
  <2>3. \A n \in apply.edit.add : f # TableFile(n)
    BY DEF LiveTables
  <2>4. NamesBelow' /\ Replay' /\ NewManifest'
    BY <1>5, <2>1, <2>2, <2>3, RestKept
  <2> QED BY <1>1, <1>2, <1>3, <2>2, <2>4
<1> QED BY <1>4, <1>5

\* Numbers of tables that are being written stay unused.
LEMMA FreshKept ==
    ASSUME DiskInv, Runs, MayCrash' => MayCrash,
           MayCrash => \A n : FreshIn(n, Dirs, data) => FreshIn(n, Dirs', data'),
           c' # None /\ apply'.owner # "compaction" => c' = c /\ apply.owner # "compaction",
           flush' # 0 /\ apply'.owner # "flush" => flush' = flush /\ apply.owner # "flush"
    PROVE  Fresh'
BY DEF DiskInv, Fresh

LEMMA LogQuiet ==
    ASSUME NEW m
    PROVE  /\ \A d \in Dirs : Log(m) \notin Uses(d, data)
           /\ Log(m) # Manifest(manifest_file_number_)
           /\ \A n : Log(m) # TableFile(n)
BY FilesApart DEF Uses

LEMMA HasKept ==
    ASSUME NEW f, Only(f), NEW n \in Numbers, f # TableFile(n), Has(dir, n)
    PROVE  Has(dir', n)
BY FileIs DEF Only, Has

\* What the process does with tables, in a step that does nothing with tables.
LEMMA WorkKept ==
    ASSUME DiskInv, TypeInv', Runs, phase' = phase, NEW f, Only(f),
           \A n \in Numbers : f # TableFile(n),
           next_file_number_ <= next_file_number_',
           UNCHANGED <<current_, pinned, pending_outputs_, flush, c, apply>>,
           has_imm_' => imm_' # {}, has_imm_ => has_imm_'
    PROVE  LiveOnDisk' /\ LiveBelow' /\ EditInv' /\ CompactionInv' /\ FlushInv'
<1>1. LiveTables' = LiveTables /\ LiveTables \subseteq Numbers
  BY LiveNumbers DEF LiveTables, Base, DiskInv
<1>2. \A n \in LiveTables : Has(dir', n) /\ CompleteIn(n, data', synced')
  BY <1>1, LiveKept
<1>3. next_file_number_ \in Nat /\ next_file_number_' \in Nat
  BY DEF DiskInv, TypeInv, NumberType
<1>4. LiveOnDisk'
  BY <1>1, <1>2 DEF LiveOnDisk
<1>5. LiveBelow'
  <2>1. \A n \in LiveTables : n \in Nat /\ n < next_file_number_
    BY <1>1, NumbersAre DEF DiskInv, LiveBelow
  <2> QED BY <1>1, <1>3, <2>1 DEF LiveBelow
<1>6. EditInv'
  BY DEF DiskInv, EditInv
<1>7. CompactionInv'
  <2> SUFFICES ASSUME c # None
               PROVE  CompactionInv'
    BY DEF CompactionInv
  <2>1. c.output \in Numbers /\ c.output \in Nat
    BY NumbersAre, CompactionIs DEF DiskInv
  <2>2. /\ c.output \in pending_outputs_ /\ Has(dir, c.output) /\ c.output < next_file_number_
        /\ c.output \notin current_ \cup pinned \cup c.base /\ c.output # flush
        /\ c.base # {}
    BY DEF DiskInv, CompactionInv
  <2>3. Has(dir', c.output)
    BY <2>1, <2>2, HasKept
  <2>4. c.output < next_file_number_'
    BY <1>3, <2>1, <2>2
  <2> QED BY <2>2, <2>3, <2>4 DEF CompactionInv
<1>8. FlushInv'
  <2>1. CASE flush = 0
    BY <2>1 DEF FlushInv
  <2>2. CASE flush # 0
    <3>1. flush \in Numbers /\ flush \in Nat
      BY <2>2, NumbersAre DEF DiskInv, TypeInv, BgType, Numbers
    <3>2. /\ has_imm_ /\ flush < next_file_number_
          /\ apply.owner # "flush" =>
                  flush \in pending_outputs_ /\ Has(dir, flush) /\ flush \notin LiveTables
      BY <2>2 DEF DiskInv, FlushInv
    <3>3. apply.owner # "flush" => Has(dir', flush)
      BY <3>1, <3>2, HasKept
    <3>4. flush < next_file_number_'
      BY <1>3, <3>1, <3>2
    <3> QED BY <1>1, <3>2, <3>3, <3>4 DEF FlushInv
  <2> QED BY <2>1, <2>2
<1> QED BY <1>4, <1>5, <1>6, <1>7, <1>8

\* A step that touches a log, or no file, and does nothing with tables.
LEMMA LogStep ==
    ASSUME DiskInv, TypeInv', Runs, phase' = phase, faults <= faults', NEW m, Only(Log(m)),
           next_file_number_ <= next_file_number_',
           UNCHANGED <<reuse, has_descriptor_, manifest_file_number_, current_, pinned,
                       pending_outputs_, flush, c, apply, bg_error_>>,
           has_imm_' => imm_' # {}, has_imm_ => has_imm_'
    PROVE  DiskInv'
<1>1. PICK f : f = Log(m)
  OBVIOUS
<1>2. /\ \A d \in Dirs : f \notin Uses(d, data)
      /\ f # Manifest(manifest_file_number_)
      /\ \A n : f # TableFile(n)
  BY <1>1, LogQuiet
<1>3. Only(f)
  BY <1>1
<1>4. /\ DirsGood' /\ Horizon' /\ NoDir' /\ Descriptor' /\ NamesBelow' /\ Replay'
      /\ NewManifest'
      /\ MayCrash' => MayCrash
      /\ MayCrash => \A n : FreshIn(n, Dirs, data) => FreshIn(n, Dirs', data')
  BY <1>2, <1>3, QuietStep
<1>5. LiveOnDisk' /\ LiveBelow' /\ EditInv' /\ CompactionInv' /\ FlushInv'
  BY <1>2, <1>3, WorkKept
<1>6. Fresh'
  BY <1>4, FreshKept
<1> QED BY <1>4, <1>5, <1>6 DEF DiskInv

LEMMA NumbersKept == TypeInv => next_file_number_ <= next_file_number_ /\ faults <= faults
BY NumbersAre DEF TypeInv, NumberType, HistoryType

LEMMA DiskPut ==
    ASSUME DiskInv, TypeInv', NEW sync \in BOOLEAN, Put(sync)
    PROVE  DiskInv'
<1>1. PICK f : f = Log(logfile_number_)
  OBVIOUS
<1>2. /\ phase = "up" /\ dir' = dir /\ (older' = {} \/ older' = older)
      /\ \E x : data' = [data EXCEPT ![f] = x]
      /\ SyncFile(f) \/ synced' = synced
      /\ UNCHANGED <<numberVars, imm_, has_imm_, logfile_number_, openVars, versionVars,
                     bgVars, faults>>
  BY <1>1 DEF Put, SyncFile
<1>3. f \in Files
  <2>1. logfile_number_ \in Numbers
    BY <1>2, NumbersAre DEF DiskInv, TypeInv, PhaseType, NumberType, Numbers
  <2> QED BY <1>1, <2>1, FileIs
<1>4. Only(f) /\ Runs
  BY <1>2, <1>3, OnlyWrites DEF DiskInv, Runs
<1>5. has_imm_' => imm_' # {}
  BY <1>2 DEF DiskInv, FlushInv
<1> QED BY <1>1, <1>2, <1>4, <1>5, NumbersKept, LogStep
        DEF DiskInv, numberVars, openVars, versionVars, bgVars

LEMMA DiskSwitchMemTable ==
    ASSUME DiskInv, TypeInv', SwitchMemTable
    PROVE  DiskInv'
<1>1. PICK n \in Numbers :
           NewFileNumber(n) /\ ChangeDir(Create(Log(n))) /\ Written(Log(n), <<>>)
  BY DEF SwitchMemTable
<1>2. /\ phase = "up" /\ imm_' = mem_ /\ has_imm_' = TRUE /\ mem_ # {}
      /\ UNCHANGED <<log_number_, manifest_file_number_, has_descriptor_, last_sequence_,
                   openVars, versionVars, bgVars, historyVars>>
  BY DEF SwitchMemTable
<1>3. Only(Log(n)) /\ Runs
  BY <1>1, <1>2, FileIs, OnlyCreates DEF DiskInv, Runs
<1>4. next_file_number_ <= next_file_number_'
  BY <1>1, NumbersAre DEF NewFileNumber
<1> QED BY <1>2, <1>3, <1>4, NumbersKept, LogStep
        DEF DiskInv, openVars, versionVars, bgVars, historyVars

LEMMA DiskNewLog ==
    ASSUME DiskInv, TypeInv', NewLog
    PROVE  DiskInv'
<1>1. PICK n \in Numbers :
           NewFileNumber(n) /\ ChangeDir(Create(Log(n))) /\ Written(Log(n), <<>>)
  BY DEF NewLog
<1>2. /\ phase = "open"
      /\ UNCHANGED <<mem_, imm_, has_imm_, last_sequence_, log_number_, manifest_file_number_,
                   has_descriptor_, openVars, versionVars, bgVars, historyVars>>
  BY DEF NewLog
<1>3. Only(Log(n)) /\ Runs
  BY <1>1, <1>2, FileIs, OnlyCreates DEF DiskInv, Runs
<1>4. next_file_number_ <= next_file_number_'
  BY <1>1, NumbersAre DEF NewFileNumber
<1>5. has_imm_' => imm_' # {}
  BY <1>2 DEF DiskInv, FlushInv
<1> QED BY <1>2, <1>3, <1>4, <1>5, NumbersKept, LogStep
        DEF DiskInv, openVars, versionVars, bgVars, historyVars

LEMMA DiskReuseLog ==
    ASSUME DiskInv, TypeInv', ReuseLog
    PROVE  DiskInv'
<1>1. PICK n \in todo : next_file_number_' = Max({next_file_number_, n + 1})
  BY DEF ReuseLog
<1>2. /\ phase = "open"
      /\ UNCHANGED <<diskVars, imm_, has_imm_, log_number_, manifest_file_number_,
                     has_descriptor_, phase, reuse, versionVars, bgVars, historyVars>>
  BY DEF ReuseLog
<1>3. Only(Log(1)) /\ Runs
  BY <1>2, OnlyNothing DEF DiskInv, Runs
<1>4. next_file_number_ <= next_file_number_'
  <2>1. n + 1 \in Nat /\ next_file_number_ \in Nat
    BY <1>1, NumbersAre DEF DiskInv, TypeInv, OpenType, NumberType
  <2>2. PICK k \in Nat : k = n + 1
    BY <2>1
  <2>3. Max({next_file_number_, k}) \in {next_file_number_, k}
        /\ Max({next_file_number_, k}) >= next_file_number_
    BY <2>1, <2>2, MaxOfTwo
  <2> QED BY <1>1, <2>1, <2>2, <2>3
<1>5. has_imm_' => imm_' # {}
  BY <1>2 DEF DiskInv, FlushInv
<1> QED BY <1>2, <1>3, <1>4, <1>5, NumbersKept, LogStep
        DEF DiskInv, versionVars, bgVars, historyVars
-----------------------------------------------------------------------------
(***************************************************************************)
(* Steps that write a table.                                               *)
(***************************************************************************)
LEMMA NextIsFresh ==
    ASSUME DiskInv, Runs
    PROVE  /\ next_file_number_ \notin LiveTables
           /\ MayCrash => FreshIn(next_file_number_, Dirs, data)
           /\ c # None => c.output # next_file_number_
           /\ flush # 0 => flush # next_file_number_
<1>1. next_file_number_ \in Nat
  BY DEF DiskInv, TypeInv, NumberType
<1>2. MayCrash => AllBelow(next_file_number_, Dirs, data)
  BY DEF DiskInv, NamesBelow
<1>3. MayCrash => FreshIn(next_file_number_, Dirs, data)
  BY <1>1, <1>2 DEF AllBelow, BelowIn, FreshIn, NamedIn
<1> QED BY <1>1, <1>3 DEF DiskInv, LiveBelow, CompactionInv, FlushInv

LEMMA TableStored ==
    ASSUME TypeInv, NEW n \in Numbers, NEW entries, NEW deep, entries # {},
           data' = [data EXCEPT ![TableFile(n)] = <<TableOf(entries, deep)>>],
           SyncFile(TableFile(n))
    PROVE  CompleteIn(n, data', synced') /\ older' = {}
<1>1. PICK r : r = <<TableOf(entries, deep)>>
  OBVIOUS
<1>2. r # <<>> /\ r[1].entries = entries
  BY <1>1 DEF TableOf
<1>3. TableFile(n) \in Files
  BY FileIs
<1>4. data'[TableFile(n)] = r
  BY <1>1, <1>3 DEF TypeInv, DiskType, FilesOK
<1>5. synced'[TableFile(n)] = Len(r) /\ older' = {}
  BY <1>3, <1>4 DEF SyncFile, TypeInv, DiskType, FilesOK
<1> QED BY <1>2, <1>4, <1>5 DEF CompleteIn

LEMMA DiskStartFlush ==
    ASSUME DiskInv, TypeInv', StartFlush
    PROVE  DiskInv'
<1>1. PICK n \in Numbers :
           /\ NewFileNumber(n) /\ ChangeDir(Create(TableFile(n))) /\ Written(TableFile(n), <<>>)
           /\ flush' = n /\ pending_outputs_' = pending_outputs_ \cup {n}
  BY DEF StartFlush
<1>2. /\ phase = "up" /\ has_imm_ /\ flush = 0 /\ apply = NoApply
      /\ UNCHANGED <<log_number_, manifest_file_number_, has_descriptor_, memVars, openVars,
                   current_, pinned, c, apply, bg_error_, historyVars>>
  BY DEF StartFlush, MayFlush
<1>3. n = next_file_number_ /\ next_file_number_' = n + 1 /\ n \in Nat /\ n # 0
  BY <1>1, NumbersAre DEF NewFileNumber
<1>4. Runs /\ Only(TableFile(n)) /\ Has(dir', n)
  BY <1>1, <1>2, FileIs, OnlyCreates DEF DiskInv, Runs, Has
<1>5. /\ n \notin LiveTables
      /\ MayCrash => FreshIn(n, Dirs, data)
      /\ c # None => c.output # n
  BY <1>3, <1>4, NextIsFresh
<1>6. PICK f : f = TableFile(n)
  OBVIOUS
<1>7. /\ MayCrash => \A d \in Dirs : f \notin Uses(d, data)
      /\ f # Manifest(manifest_file_number_) /\ \A m : m # n => f # TableFile(m)
  BY <1>5, <1>6, NotUsed, FilesApart DEF DiskInv
<1>8. /\ DirsGood' /\ Horizon' /\ NoDir' /\ Descriptor' /\ NamesBelow' /\ Replay'
      /\ NewManifest'
      /\ MayCrash' => MayCrash
      /\ MayCrash => \A m : FreshIn(m, Dirs, data) => FreshIn(m, Dirs', data')
      /\ \A m \in LiveTables : Has(dir', m) /\ CompleteIn(m, data', synced')
  <2>1. faults <= faults' /\ next_file_number_ <= next_file_number_'
    BY <1>2, <1>3, NumbersKept DEF DiskInv, historyVars
  <2>2. \A m \in LiveTables : f # TableFile(m)
    BY <1>5, <1>7
  <2> QED BY <1>2, <1>4, <1>6, <1>7, <2>1, <2>2, QuietStep DEF openVars
<1>9. LiveTables' = LiveTables /\ LiveTables \subseteq Numbers
  BY <1>2, LiveNumbers DEF LiveTables, Base, DiskInv
<1>10. LiveOnDisk' /\ LiveBelow'
  <2>1. \A m \in LiveTables : m < next_file_number_'
    BY <1>3, <1>4, <1>9, NumbersAre DEF DiskInv, LiveBelow
  <2> QED BY <1>8, <1>9, <2>1 DEF LiveOnDisk, LiveBelow
<1>11. apply.owner = "open"
  BY <1>2 DEF NoApply
<1>12. EditInv'
  BY <1>2, <1>11 DEF DiskInv, EditInv, openVars
<1>13. CompactionInv'
  <2> SUFFICES ASSUME c # None
               PROVE  CompactionInv'
    BY <1>2 DEF CompactionInv
  <2>1. c.output \in Numbers
    BY CompactionIs DEF DiskInv
  <2>2. /\ c.output \in pending_outputs_ /\ Has(dir, c.output) /\ c.output < next_file_number_
        /\ c.output \notin current_ \cup pinned \cup c.base /\ c.base # {}
    BY DEF DiskInv, CompactionInv
  <2>3. Has(dir', c.output)
    BY <1>4, <1>5, <2>1, <2>2, FilesApart, HasKept
  <2>4. c.output < next_file_number_'
    <3>1. c.output \in Nat
      BY <2>1, NumbersAre
    <3>2. c.output < n
      BY <1>3, <2>2
    <3> QED BY <1>3, <3>1, <3>2
  <2> QED BY <1>1, <1>2, <1>5, <2>2, <2>3, <2>4 DEF CompactionInv
<1>14. FlushInv'
  <2>1. has_imm_' /\ imm_' # {}
    BY <1>2 DEF DiskInv, FlushInv, memVars
  <2>2. n < next_file_number_'
    BY <1>3
  <2> QED BY <1>1, <1>4, <1>5, <1>9, <2>1, <2>2 DEF FlushInv
<1>15. Fresh'
  BY <1>1, <1>2, <1>5, <1>8 DEF DiskInv, Fresh, Runs
<1>16. phase' # "broken"
  BY <1>2 DEF openVars
<1> QED BY <1>8, <1>10, <1>12, <1>13, <1>14, <1>15, <1>16 DEF DiskInv

LEMMA DiskStartCompaction ==
    ASSUME DiskInv, TypeInv', StartCompaction
    PROVE  DiskInv'
<1>1. PICK n \in Numbers :
           /\ NewFileNumber(n) /\ ChangeDir(Create(TableFile(n))) /\ Written(TableFile(n), <<>>)
           /\ c' = [base |-> current_, output |-> n]
           /\ pending_outputs_' = pending_outputs_ \cup {n}
  BY DEF StartCompaction
<1>2. /\ phase = "up" /\ ~has_imm_ /\ flush = 0 /\ apply = NoApply /\ c = None /\ current_ # {}
      /\ UNCHANGED <<log_number_, manifest_file_number_, has_descriptor_, memVars, openVars,
                     current_, pinned, flush, apply, bg_error_, historyVars>>
  BY DEF StartCompaction
<1>3. n = next_file_number_ /\ next_file_number_' = n + 1 /\ n \in Nat /\ n # 0
  BY <1>1, NumbersAre DEF NewFileNumber
<1>4. Runs /\ Only(TableFile(n)) /\ Has(dir', n)
  BY <1>1, <1>2, FileIs, OnlyCreates DEF DiskInv, Runs, Has
<1>5. n \notin LiveTables /\ (MayCrash => FreshIn(n, Dirs, data))
  BY <1>3, <1>4, NextIsFresh
<1>6. PICK f : f = TableFile(n)
  OBVIOUS
<1>7. /\ MayCrash => \A d \in Dirs : f \notin Uses(d, data)
      /\ f # Manifest(manifest_file_number_) /\ \A m : m # n => f # TableFile(m)
  BY <1>5, <1>6, NotUsed, FilesApart DEF DiskInv
<1>8. /\ DirsGood' /\ Horizon' /\ NoDir' /\ Descriptor' /\ NamesBelow' /\ Replay'
      /\ NewManifest'
      /\ MayCrash' => MayCrash
      /\ MayCrash => \A m : FreshIn(m, Dirs, data) => FreshIn(m, Dirs', data')
      /\ \A m \in LiveTables : Has(dir', m) /\ CompleteIn(m, data', synced')
  <2>1. faults <= faults' /\ next_file_number_ <= next_file_number_'
    BY <1>2, <1>3, NumbersKept DEF DiskInv, historyVars
  <2>2. \A m \in LiveTables : f # TableFile(m)
    BY <1>5, <1>7
  <2> QED BY <1>2, <1>4, <1>6, <1>7, <2>1, <2>2, QuietStep DEF openVars
<1>9. c'.base = current_ /\ c'.output = n
  BY <1>1
<1>10. LiveTables' = LiveTables /\ LiveTables \subseteq Numbers
  BY <1>2, <1>9, LiveNumbers DEF LiveTables, Base, DiskInv
<1>11. LiveOnDisk' /\ LiveBelow'
  <2>1. \A m \in LiveTables : m < next_file_number_'
    BY <1>3, <1>4, <1>10, NumbersAre DEF DiskInv, LiveBelow
  <2> QED BY <1>8, <1>10, <2>1 DEF LiveOnDisk, LiveBelow
<1>12. apply.owner = "open"
  BY <1>2 DEF NoApply
<1>13. EditInv'
  BY <1>2, <1>12 DEF DiskInv, EditInv, openVars
<1>14. CompactionInv'
  <2>1. n < next_file_number_'
    BY <1>3
  <2>2. n \notin current_ \cup pinned
    BY <1>5 DEF LiveTables
  <2> QED BY <1>1, <1>2, <1>3, <1>4, <1>9, <2>1, <2>2 DEF CompactionInv
<1>15. FlushInv'
  BY <1>2 DEF FlushInv, memVars
<1>16. Fresh'
  BY <1>2, <1>5, <1>8, <1>9 DEF Fresh
<1>17. phase' # "broken"
  BY <1>2 DEF openVars
<1> QED BY <1>8, <1>11, <1>13, <1>14, <1>15, <1>16, <1>17 DEF DiskInv

\* The tables in use stay so, or some no longer are.
LEMMA LiveStays ==
    ASSUME DiskInv, TypeInv', Runs, \A n \in LiveTables : Has(dir', n) /\ CompleteIn(n, data', synced'),
           next_file_number_ <= next_file_number_', LiveTables' \subseteq LiveTables
    PROVE  LiveOnDisk' /\ LiveBelow'
<1>1. next_file_number_ \in Nat /\ next_file_number_' \in Nat
  BY DEF DiskInv, TypeInv, NumberType
<1>2. \A n \in LiveTables : n \in Nat /\ n < next_file_number_
  BY NumbersAre, LiveNumbers DEF DiskInv, LiveBelow
<1>3. \A n \in LiveTables : n < next_file_number_'
  BY <1>1, <1>2
<1> QED BY <1>3 DEF LiveOnDisk, LiveBelow

\* The output of the compaction stays where it is.
LEMMA CompactionStays ==
    ASSUME DiskInv, TypeInv', NEW f, Only(f), next_file_number_ <= next_file_number_', c' = c,
           c # None => /\ f # TableFile(c.output) /\ c.output \in pending_outputs_'
                       /\ c.output \notin current_' \cup pinned' /\ c.output # flush'
    PROVE  CompactionInv'
<1> SUFFICES ASSUME c # None
             PROVE  CompactionInv'
  BY DEF CompactionInv
<1>1. c.output \in Numbers /\ c.output \in Nat
  BY NumbersAre, CompactionIs DEF DiskInv
<1>2. /\ Has(dir, c.output) /\ c.output < next_file_number_ /\ c.output \notin c.base /\ c.base # {}
  BY DEF DiskInv, CompactionInv
<1>3. Has(dir', c.output)
  BY <1>1, <1>2, HasKept
<1>4. next_file_number_ \in Nat /\ next_file_number_' \in Nat
  BY DEF DiskInv, TypeInv, NumberType
<1>5. c.output < next_file_number_'
  BY <1>1, <1>2, <1>4
<1> QED BY <1>2, <1>3, <1>5 DEF CompactionInv

\* The table of CompactMemTable stays where it is.
LEMMA FlushStays ==
    ASSUME DiskInv, TypeInv', NEW f, Only(f), next_file_number_ <= next_file_number_',
           UNCHANGED <<flush, imm_, has_imm_>>,
           flush # 0 /\ apply'.owner # "flush" =>
               /\ apply.owner # "flush" /\ f # TableFile(flush) /\ flush \in pending_outputs_'
               /\ flush \notin LiveTables'
    PROVE  FlushInv'
<1>1. CASE flush = 0
  BY <1>1 DEF DiskInv, FlushInv
<1>2. CASE flush # 0
  <2>1. flush \in Numbers /\ flush \in Nat
    BY <1>2, NumbersAre DEF DiskInv, TypeInv, BgType, Numbers
  <2>2. /\ has_imm_ /\ flush < next_file_number_ /\ imm_ # {}
        /\ apply.owner # "flush" => Has(dir, flush)
    BY <1>2 DEF DiskInv, FlushInv
  <2>3. apply'.owner # "flush" => Has(dir', flush)
    BY <1>2, <2>1, <2>2, HasKept
  <2>4. next_file_number_ \in Nat /\ next_file_number_' \in Nat
    BY DEF DiskInv, TypeInv, NumberType
  <2>5. flush < next_file_number_'
    BY <2>1, <2>2, <2>4
  <2> QED BY <1>2, <2>2, <2>3, <2>5 DEF FlushInv
<1> QED BY <1>1, <1>2

LEMMA DiskFlushFails ==
    ASSUME DiskInv, TypeInv', FlushFails
    PROVE  DiskInv'
<1>1. /\ flush # 0 /\ apply = NoApply /\ faults' = faults + 1
      /\ ChangeDir([dir EXCEPT !.files = @ \ {TableFile(flush)}])
      /\ pending_outputs_' = pending_outputs_ \ {flush}
      /\ flush' = 0 /\ bg_error_' = TRUE
      /\ UNCHANGED <<data, synced, numberVars, memVars, openVars, current_, pinned, c, apply,
                     writes, hard>>
  BY DEF FlushFails, Fault
<1>2. apply.owner = "open" /\ Runs /\ flush \in Numbers
  BY <1>1, NumbersAre DEF NoApply, DiskInv, TypeInv, PhaseType, BgType, Runs, Numbers
<1>3. Only(TableFile(flush))
  BY <1>1, <1>2, FileIs, OnlyDeletes DEF DiskInv
<1>4. /\ flush \notin LiveTables /\ (c # None => c.output # flush)
      /\ MayCrash => FreshIn(flush, Dirs, data)
  BY <1>1, <1>2 DEF DiskInv, FlushInv, CompactionInv, Fresh
<1>5. PICK f : f = TableFile(flush)
  OBVIOUS
<1>6. /\ MayCrash => \A d \in Dirs : f \notin Uses(d, data)
      /\ f # Manifest(manifest_file_number_) /\ \A m : m # flush => f # TableFile(m)
  BY <1>4, <1>5, NotUsed, FilesApart DEF DiskInv
<1>7. faults <= faults' /\ next_file_number_ <= next_file_number_'
  BY <1>1, NumbersKept DEF DiskInv, TypeInv, HistoryType, numberVars
<1>8. /\ DirsGood' /\ Horizon' /\ NoDir' /\ Descriptor' /\ NamesBelow' /\ Replay'
      /\ NewManifest'
      /\ MayCrash' => MayCrash
      /\ MayCrash => \A m : FreshIn(m, Dirs, data) => FreshIn(m, Dirs', data')
      /\ \A m \in LiveTables : Has(dir', m) /\ CompleteIn(m, data', synced')
  <2>1. \A m \in LiveTables : f # TableFile(m)
    BY <1>4, <1>6
  <2> QED BY <1>1, <1>2, <1>3, <1>5, <1>6, <1>7, <2>1, QuietStep DEF openVars, numberVars
<1>9. LiveOnDisk' /\ LiveBelow'
  <2>1. LiveTables' \subseteq LiveTables
    BY <1>1 DEF LiveTables, Base
  <2> QED BY <1>2, <1>7, <1>8, <2>1, LiveStays
<1>10. EditInv'
  BY <1>1, <1>2 DEF DiskInv, EditInv, openVars
<1>11. CompactionInv'
  <2>1. c # None => /\ f # TableFile(c.output) /\ c.output \in pending_outputs_'
                    /\ c.output \notin current_' \cup pinned' /\ c.output # flush'
    <3> SUFFICES ASSUME c # None
                 PROVE  /\ f # TableFile(c.output) /\ c.output \in pending_outputs_'
                        /\ c.output \notin current_' \cup pinned' /\ c.output # flush'
      OBVIOUS
    <3>1. c.output \in Numbers
      BY CompactionIs DEF DiskInv
    <3> QED BY <1>1, <1>4, <1>6, <3>1, NumbersAre DEF DiskInv, CompactionInv
  <2> QED BY <1>1, <1>3, <1>5, <1>7, <2>1, CompactionStays
<1>12. FlushInv'
  BY <1>1 DEF DiskInv, FlushInv, memVars
<1>13. Fresh'
  BY <1>1, <1>2, <1>8 DEF DiskInv, Fresh
<1>14. phase' # "broken"
  BY <1>1 DEF DiskInv, openVars
<1> QED BY <1>8, <1>9, <1>10, <1>11, <1>12, <1>13, <1>14 DEF DiskInv

\* The disk is as it was, and LogAndApply where it was.
LEMMA QuietBackground ==
    ASSUME DiskInv, TypeInv', Runs, phase' = phase, faults <= faults',
           UNCHANGED diskVars, bg_error_ => bg_error_',
           UNCHANGED <<numberVars, memVars, openVars, current_, flush, apply>>,
           \/ c' = c /\ pending_outputs_' = pending_outputs_
           \/ /\ apply.owner = "open" /\ c # None /\ c' = None
              /\ pending_outputs_' = pending_outputs_ \ {c.output},
           pinned' \subseteq pinned \cup current_
    PROVE  DiskInv'
<1>1. PICK f : f = Log(1)
  OBVIOUS
<1>2. /\ \A d \in Dirs : f \notin Uses(d, data)
      /\ f # Manifest(manifest_file_number_)
      /\ \A n : f # TableFile(n)
  BY <1>1, LogQuiet
<1>3. Only(f)
  BY <1>1, OnlyNothing DEF DiskInv
<1>4. next_file_number_ <= next_file_number_'
  BY NumbersKept DEF DiskInv, numberVars
<1>5. /\ DirsGood' /\ Horizon' /\ NoDir' /\ Descriptor' /\ NamesBelow' /\ Replay'
      /\ NewManifest'
      /\ MayCrash' => MayCrash
      /\ MayCrash => \A m : FreshIn(m, Dirs, data) => FreshIn(m, Dirs', data')
      /\ \A m \in LiveTables : Has(dir', m) /\ CompleteIn(m, data', synced')
  BY <1>2, <1>3, <1>4, QuietStep DEF openVars, numberVars
<1>6. LiveTables' \subseteq LiveTables
  BY DEF LiveTables, Base
<1>7. LiveOnDisk' /\ LiveBelow'
  BY <1>4, <1>5, <1>6, LiveStays
<1>9. EditInv'
  BY DEF DiskInv, EditInv, openVars
<1>10. CompactionInv'
  BY DEF DiskInv, CompactionInv, numberVars, diskVars
<1>11. FlushInv'
  <2>1. flush # 0 /\ apply.owner # "flush" =>
            flush \in pending_outputs_ /\ flush \notin LiveTables /\ (c # None => c.output # flush)
    BY DEF DiskInv, FlushInv, CompactionInv
  <2>2. flush # 0 /\ apply.owner # "flush" =>
            /\ f # TableFile(flush) /\ flush \in pending_outputs_' /\ flush \notin LiveTables'
    BY <1>2, <1>6, <2>1
  <2> QED BY <1>3, <1>4, <2>2, FlushStays DEF memVars
<1>12. Fresh'
  BY <1>5 DEF DiskInv, Fresh
<1>13. phase' # "broken"
  BY DEF DiskInv, openVars
<1> QED BY <1>5, <1>7, <1>9, <1>10, <1>11, <1>12, <1>13 DEF DiskInv

LEMMA DiskQuietBackground ==
    ASSUME DiskInv, TypeInv', CompactionFails \/ Pin \/ Unpin
    PROVE  DiskInv'
<1>1. faults <= faults + 1 /\ faults <= faults
  BY NumbersAre DEF DiskInv, TypeInv, HistoryType
<1>2. CASE CompactionFails
  <2>1. Runs /\ apply.owner = "open"
    BY <1>2 DEF CompactionFails, DiskInv, TypeInv, PhaseType, Runs, NoApply
  <2> QED BY <1>1, <1>2, <2>1, QuietBackground DEF CompactionFails, Fault, openVars
<1>3. CASE Pin \/ Unpin
  <2>1. Runs
    BY <1>3 DEF Pin, Unpin, DiskInv, TypeInv, PhaseType, Runs
  <2>2. /\ phase' = phase /\ faults' = faults /\ bg_error_' = bg_error_ /\ c' = c
        /\ UNCHANGED <<diskVars, pending_outputs_, numberVars, memVars, openVars, current_,
                       flush, apply>>
        /\ pinned' \subseteq pinned \cup current_
    BY <1>3 DEF Pin, Unpin, openVars, bgVars, historyVars
  <2> QED BY <1>1, <2>1, <2>2, QuietBackground
<1> QED BY <1>2, <1>3
-----------------------------------------------------------------------------
(***************************************************************************)
(* LogAndApply starts: its edit is to add tables that are below the next   *)
(* number and in every directory that a crash may bring back.              *)
(***************************************************************************)
LEMMA ApplyStarts ==
    ASSUME DiskInv, TypeInv', Runs, phase' = phase, faults <= faults', NEW f, Only(f),
           MayCrash => \A d \in Dirs : f \notin Uses(d, data),
           f # Manifest(manifest_file_number_),
           apply.pc = "none", apply'.pc = "append", apply'.edit.next = next_file_number_,
           UNCHANGED <<reuse, has_descriptor_, manifest_file_number_, next_file_number_,
                       current_, bg_error_>>,
           \A n \in apply'.edit.add : n < next_file_number_,
           \A d \in Dirs' : \A n \in apply'.edit.add : MayCrash => Has(d, n)
    PROVE  /\ DirsGood' /\ Horizon' /\ NoDir' /\ Descriptor' /\ NamesBelow' /\ Replay'
           /\ NewManifest'
           /\ MayCrash' => MayCrash
           /\ MayCrash => \A n : FreshIn(n, Dirs, data) => FreshIn(n, Dirs', data')
<1>1. MayCrash' => MayCrash
  BY MayCrashBefore DEF DiskInv
<1>2. NoDir'
  BY DEF NoDir, DiskInv, Runs, Only
<1>3. CASE ~MayCrash
  BY <1>1, <1>2, <1>3 DEF DirsGood, Horizon, Descriptor, NamesBelow, Replay, NewManifest
<1>4. CASE MayCrash
  <2>1. Touches(f) /\ PcKept
    BY <1>4, OnlyTouches DEF PcKept
  <2>2. next_file_number_ <= next_file_number_'
    BY NumbersKept DEF DiskInv
  <2>3. /\ DirsGood' /\ Horizon' /\ NoDir' /\ Descriptor'
        /\ AllBelow(next_file_number_', Dirs', data')
        /\ \A N : AllBelow(N, Dirs, data) => AllBelow(N, Dirs', data')
        /\ \A n : FreshIn(n, Dirs, data) => FreshIn(n, Dirs', data')
    BY <1>4, <2>1, <2>2, ManifestsKept
  <2>4. NamesBelow'
    <3>1. next_file_number_ # 0 /\ manifest_file_number_ < next_file_number_
      BY <1>4 DEF DiskInv, TypeInv, NumberType, Descriptor
    <3>2. \A n \in current_ : n < next_file_number_
      BY DEF DiskInv, LiveBelow, LiveTables
    <3> QED BY <1>4, <2>3, <3>1, <3>2 DEF NamesBelow
  <2>5. Replay'
    <3>1. manifest_file_number_ \in Numbers
      BY NumbersAre DEF DiskInv, TypeInv, NumberType, PhaseType, Runs, Numbers
    <3>2. Mine' = Mine
      BY <3>1, FileIs DEF Mine, Only
    <3> QED BY <1>4, <3>2 DEF DiskInv, Replay
  <2>6. NewManifest'
    BY DEF NewManifest
  <2> QED BY <1>1, <1>2, <2>3, <2>4, <2>5, <2>6
<1> QED BY <1>3, <1>4

LEMMA DiskOpenApply ==
    ASSUME DiskInv, TypeInv', OpenApply
    PROVE  DiskInv'
<1>1. /\ phase = "open" /\ apply.pc = "none"
      /\ apply' = [pc |-> "append", owner |-> "open",
                   edit |-> Edit(logfile_number_, next_file_number_, last_sequence_,
                                 apply.edit.add, {})]
      /\ UNCHANGED <<diskVars, numberVars, memVars, openVars, versionVars, flush, c, bg_error_,
                     historyVars>>
  BY DEF OpenApply, Opened, StartApply
<1>2. /\ apply'.pc = "append" /\ apply'.owner = "open" /\ apply'.edit.next = next_file_number_
      /\ apply'.edit.add = apply.edit.add /\ apply'.edit.del = {}
  BY <1>1 DEF Edit
<1>3. Runs /\ apply.owner = "open" /\ flush = 0 /\ c = None
  BY <1>1 DEF Runs, DiskInv, TypeInv, PhaseType
<1>4. PICK f : f = Log(1)
  OBVIOUS
<1>5. /\ \A d \in Dirs : f \notin Uses(d, data)
      /\ f # Manifest(manifest_file_number_)
      /\ \A n : f # TableFile(n)
      /\ Only(f)
  BY <1>1, <1>4, LogQuiet, OnlyNothing DEF DiskInv
<1>6. faults <= faults' /\ next_file_number_ <= next_file_number_'
  BY <1>1, NumbersKept DEF DiskInv, historyVars, numberVars
<1>7. /\ \A n \in apply'.edit.add : n < next_file_number_
      /\ \A d \in Dirs' : \A n \in apply'.edit.add : MayCrash => Has(d, n)
  BY <1>1, <1>2, <1>3 DEF DiskInv, LiveBelow, LiveTables, NamesBelow, Dirs, diskVars
<1>8. /\ DirsGood' /\ Horizon' /\ NoDir' /\ Descriptor' /\ NamesBelow' /\ Replay'
      /\ NewManifest'
      /\ MayCrash' => MayCrash
      /\ MayCrash => \A n : FreshIn(n, Dirs, data) => FreshIn(n, Dirs', data')
  BY <1>1, <1>2, <1>3, <1>5, <1>6, <1>7, ApplyStarts DEF numberVars, openVars, versionVars
<1>9. LiveOnDisk' /\ LiveBelow'
  <2>1. LiveTables' \subseteq LiveTables
    BY <1>1, <1>2 DEF LiveTables, Base, versionVars
  <2>2. \A n \in LiveTables : Has(dir', n) /\ CompleteIn(n, data', synced')
    BY <1>3, <1>5, LiveKept
  <2> QED BY <1>3, <1>6, <2>1, <2>2, LiveStays
<1>10. EditInv'
  BY <1>1, <1>2 DEF EditInv, openVars
<1>11. CompactionInv'
  BY <1>1, <1>3 DEF CompactionInv
<1>12. FlushInv'
  BY <1>1, <1>3 DEF DiskInv, FlushInv, memVars
<1>13. Fresh'
  BY <1>1, <1>3 DEF Fresh
<1>14. phase' # "broken"
  BY <1>1 DEF openVars
<1> QED BY <1>8, <1>9, <1>10, <1>11, <1>12, <1>13, <1>14 DEF DiskInv

LEMMA DiskFinishFlush ==
    ASSUME DiskInv, TypeInv', FinishFlush
    PROVE  DiskInv'
<1>1. /\ flush # 0 /\ apply = NoApply
      /\ data' = [data EXCEPT ![TableFile(flush)] = <<TableOf(imm_, FALSE)>>]
      /\ SyncFile(TableFile(flush))
      /\ pending_outputs_' = pending_outputs_ \ {flush}
      /\ apply' = [pc |-> "append", owner |-> "flush", edit |-> FlushEdit]
      /\ UNCHANGED <<dir, numberVars, memVars, openVars, current_, pinned, flush, c,
                     bg_error_, historyVars>>
  BY DEF FinishFlush, StartApply
<1>2. /\ apply'.pc = "append" /\ apply'.owner = "flush" /\ apply'.edit.next = next_file_number_
      /\ apply'.edit.add = {flush} /\ apply'.edit.del = {}
  BY <1>1 DEF Edit, FlushEdit
<1>3. /\ apply.owner = "open" /\ apply.pc = "none" /\ Runs /\ phase = "up"
      /\ flush \in Numbers /\ flush \in Nat
  BY <1>1, NumbersAre DEF NoApply, DiskInv, TypeInv, PhaseType, BgType, Runs, Numbers
<1>4. /\ has_imm_ /\ imm_ # {} /\ flush < next_file_number_
      /\ flush \in pending_outputs_ /\ Has(dir, flush) /\ flush \notin LiveTables
      /\ (c # None => c.output # flush)
      /\ MayCrash => FreshIn(flush, Dirs, data)
  BY <1>1, <1>3 DEF DiskInv, FlushInv, CompactionInv, Fresh
<1>5. PICK f : f = TableFile(flush)
  OBVIOUS
<1>6. /\ MayCrash => \A d \in Dirs : f \notin Uses(d, data)
      /\ f # Manifest(manifest_file_number_) /\ \A m : m # flush => f # TableFile(m)
  BY <1>4, <1>5, NotUsed, FilesApart DEF DiskInv
<1>7. CompleteIn(flush, data', synced') /\ older' = {}
  BY <1>1, <1>3, <1>4, TableStored DEF DiskInv
<1>8. Only(f)
  BY <1>1, <1>3, <1>5, <1>7, FileIs, OnlyWrites DEF DiskInv
<1>9. faults <= faults' /\ next_file_number_ <= next_file_number_'
  BY <1>1, NumbersKept DEF DiskInv, historyVars, numberVars
<1>10. Has(dir', flush) /\ Dirs' = {dir'}
  BY <1>1, <1>4, <1>7 DEF Dirs
<1>11. /\ DirsGood' /\ Horizon' /\ NoDir' /\ Descriptor' /\ NamesBelow' /\ Replay'
       /\ NewManifest'
       /\ MayCrash' => MayCrash
       /\ MayCrash => \A n : FreshIn(n, Dirs, data) => FreshIn(n, Dirs', data')
  <2>1. /\ \A n \in apply'.edit.add : n < next_file_number_
        /\ \A d \in Dirs' : \A n \in apply'.edit.add : MayCrash => Has(d, n)
    BY <1>2, <1>4, <1>10
  <2> QED BY <1>1, <1>2, <1>3, <1>6, <1>8, <1>9, <2>1, ApplyStarts DEF numberVars, openVars
<1>12. LiveTables' \subseteq LiveTables \cup {flush}
  BY <1>1, <1>2 DEF LiveTables, Base
<1>13. LiveOnDisk' /\ LiveBelow'
  <2>1. \A n \in LiveTables : Has(dir', n) /\ CompleteIn(n, data', synced')
    <3>1. \A n \in LiveTables : TableFile(n) # f
      BY <1>4, <1>6
    <3> QED BY <1>3, <1>8, <3>1, LiveKept
  <2>2. \A n \in LiveTables' : Has(dir', n) /\ CompleteIn(n, data', synced')
    BY <1>7, <1>10, <1>12, <2>1
  <2>3. \A n \in LiveTables' : n < next_file_number_
    BY <1>3, <1>4, <1>12 DEF DiskInv, LiveBelow
  <2> QED BY <1>1, <2>2, <2>3 DEF LiveOnDisk, LiveBelow, numberVars
<1>14. EditInv'
  BY <1>1, <1>2 DEF EditInv, openVars
<1>15. CompactionInv'
  <2>1. c # None => /\ f # TableFile(c.output) /\ c.output \in pending_outputs_'
                    /\ c.output \notin current_' \cup pinned' /\ c.output # flush'
    BY <1>1, <1>4, <1>6 DEF DiskInv, CompactionInv
  <2> QED BY <1>1, <1>8, <1>9, <2>1, CompactionStays
<1>16. FlushInv'
  BY <1>1, <1>2, <1>8, <1>9, FlushStays DEF memVars
<1>17. Fresh'
  BY <1>1, <1>2, <1>3, <1>11 DEF DiskInv, Fresh
<1>18. phase' # "broken"
  BY <1>1, <1>3 DEF openVars
<1> QED BY <1>11, <1>13, <1>14, <1>15, <1>16, <1>17, <1>18 DEF DiskInv

LEMMA DiskFinishCompaction ==
    ASSUME DiskInv, TypeInv', FinishCompaction
    PROVE  DiskInv'
<1>1. /\ c # None /\ flush = 0 /\ apply = NoApply
      /\ data' = [data EXCEPT ![TableFile(c.output)] = <<TableOf(InTables(c.base), TRUE)>>]
      /\ SyncFile(TableFile(c.output))
      /\ apply' = [pc |-> "append", owner |-> "compaction",
                   edit |-> Edit(log_number_, next_file_number_, last_sequence_,
                                 {c.output}, c.base)]
      /\ UNCHANGED <<dir, numberVars, memVars, openVars, versionVars, flush, c, bg_error_,
                     historyVars>>
  BY DEF FinishCompaction, StartApply
<1>2. /\ apply'.pc = "append" /\ apply'.owner = "compaction"
      /\ apply'.edit.next = next_file_number_
      /\ apply'.edit.add = {c.output} /\ apply'.edit.del = c.base
  BY <1>1 DEF Edit
<1>3. /\ apply.owner = "open" /\ apply.pc = "none" /\ Runs /\ phase = "up"
      /\ c.output \in Numbers /\ c.output \in Nat /\ c.base \subseteq Numbers
  BY <1>1, NumbersAre, CompactionIs DEF NoApply, DiskInv, TypeInv, PhaseType, Runs
<1>4. /\ c.output \in pending_outputs_ /\ Has(dir, c.output) /\ c.output < next_file_number_
      /\ c.output \notin current_ \cup pinned \cup c.base /\ c.base # {}
      /\ MayCrash => FreshIn(c.output, Dirs, data)
  BY <1>1, <1>3 DEF DiskInv, CompactionInv, Fresh
<1>5. c.output \notin LiveTables
  BY <1>1, <1>4 DEF LiveTables, Base, NoApply, Edit
<1>6. PICK f : f = TableFile(c.output)
  OBVIOUS
<1>7. /\ MayCrash => \A d \in Dirs : f \notin Uses(d, data)
      /\ f # Manifest(manifest_file_number_) /\ \A m : m # c.output => f # TableFile(m)
  BY <1>4, <1>6, NotUsed, FilesApart DEF DiskInv
<1>8. InTables(c.base) # {}
  <2>1. PICK n \in c.base : TRUE
    BY <1>4
  <2>2. n \in LiveTables
    BY <1>1 DEF LiveTables, Base
  <2>3. CompleteIn(n, data, synced)
    BY <1>3, <2>2 DEF DiskInv, LiveOnDisk
  <2>4. Contents(n) # {}
    BY <2>3 DEF CompleteIn, Contents
  <2> QED BY <2>4 DEF InTables
<1>9. CompleteIn(c.output, data', synced') /\ older' = {}
  BY <1>1, <1>3, <1>8, TableStored DEF DiskInv
<1>10. Only(f)
  BY <1>1, <1>3, <1>6, <1>9, FileIs, OnlyWrites DEF DiskInv
<1>11. faults <= faults' /\ next_file_number_ <= next_file_number_'
  BY <1>1, NumbersKept DEF DiskInv, historyVars, numberVars
<1>12. Has(dir', c.output) /\ Dirs' = {dir'}
  BY <1>1, <1>4, <1>9 DEF Dirs
<1>13. /\ DirsGood' /\ Horizon' /\ NoDir' /\ Descriptor' /\ NamesBelow' /\ Replay'
       /\ NewManifest'
       /\ MayCrash' => MayCrash
       /\ MayCrash => \A n : FreshIn(n, Dirs, data) => FreshIn(n, Dirs', data')
  <2>1. /\ \A n \in apply'.edit.add : n < next_file_number_
        /\ \A d \in Dirs' : \A n \in apply'.edit.add : MayCrash => Has(d, n)
    BY <1>2, <1>4, <1>12
  <2> QED BY <1>1, <1>2, <1>3, <1>7, <1>10, <1>11, <2>1, ApplyStarts
          DEF numberVars, openVars, versionVars
<1>14. LiveTables' \subseteq LiveTables \cup {c.output}
  BY <1>1, <1>2 DEF LiveTables, Base, versionVars
<1>15. LiveOnDisk' /\ LiveBelow'
  <2>1. \A n \in LiveTables : Has(dir', n) /\ CompleteIn(n, data', synced')
    <3>1. \A n \in LiveTables : TableFile(n) # f
      BY <1>5, <1>7
    <3> QED BY <1>3, <1>10, <3>1, LiveKept
  <2>2. \A n \in LiveTables' : Has(dir', n) /\ CompleteIn(n, data', synced')
    BY <1>9, <1>12, <1>14, <2>1
  <2>3. \A n \in LiveTables' : n < next_file_number_
    BY <1>3, <1>4, <1>14 DEF DiskInv, LiveBelow
  <2> QED BY <1>1, <2>2, <2>3 DEF LiveOnDisk, LiveBelow, numberVars
<1>16. EditInv'
  BY <1>1, <1>2 DEF EditInv
<1>17. CompactionInv'
  BY <1>1, <1>4, <1>12 DEF DiskInv, CompactionInv, versionVars, numberVars
<1>18. FlushInv'
  BY <1>1 DEF DiskInv, FlushInv, memVars
<1>19. Fresh'
  BY <1>1, <1>2 DEF Fresh
<1>20. phase' # "broken"
  BY <1>1, <1>3 DEF openVars
<1> QED BY <1>13, <1>15, <1>16, <1>17, <1>18, <1>19, <1>20 DEF DiskInv
-----------------------------------------------------------------------------
(***************************************************************************)
(* Recovery of the logs.                                                   *)
(***************************************************************************)
\* There is a log to write to only when all logs are read.
LogsRead ==
    (phase = "down" => logfile_number_ = 0) /\ (logfile_number_ # 0 => todo = {})

LEMMA LogsReadKept ==
    ASSUME TypeInv, LogsRead, Next
    PROVE  LogsRead'
<1>1. CASE LogAndApply
  BY <1>1 DEF LogAndApply, ApplyAppend, ApplySync, SetCurrentFile, InstallOpen, InstallFlush,
              InstallCompaction, ApplyFailsOpen, ApplyFailsBackground, Forget, memVars,
              openVars, LogsRead
<1>2. CASE Running
  <2>1. CASE SwitchMemTable
    BY <2>1 DEF SwitchMemTable, openVars, LogsRead, TypeInv, PhaseType
  <2>2. CASE ~SwitchMemTable
    <3>1. UNCHANGED openVars /\ logfile_number_' = logfile_number_
      BY <1>2, <2>2 DEF Running, Put, StartFlush, FinishFlush, FlushFails, StartCompaction,
                  FinishCompaction, CompactionFails, Pin, Unpin, memVars
    <3> QED BY <3>1 DEF openVars, LogsRead
  <2> QED BY <2>1, <2>2
<1>3. CASE Opening
  <2>1. CASE NewDB \/ OpenApply
    BY <2>1 DEF NewDB, OpenApply, memVars, openVars, LogsRead
  <2>2. CASE OpenManifest
    BY <2>2 DEF OpenManifest, memVars, LogsRead
  <2>3. CASE ReuseLog \/ NewLog
    BY <2>3 DEF ReuseLog, NewLog, openVars, LogsRead
  <2>4. CASE RecoverLogFile
    BY <2>4 DEF RecoverLogFile, NextLog, LogsRead
  <2>5. CASE OpenFails
    BY <2>5 DEF OpenFails, Forget, LogsRead
  <2>6. CASE OpenWithoutApply
    BY <2>6 DEF OpenWithoutApply, Opened, memVars, LogsRead
  <2> QED BY <1>3, <2>1, <2>2, <2>3, <2>4, <2>5, <2>6 DEF Opening
<1>4. CASE ProcessCrash \/ MachineCrash
  BY <1>4 DEF ProcessCrash, MachineCrash, Forget, LogsRead
<1> QED BY <1>1, <1>2, <1>3, <1>4 DEF Next

\* The next number is larger.
LEMMA NextGrows ==
    ASSUME NEW a \in Nat, NEW b \in Nat
    PROVE  a < Max({a, b}) + 1
BY MaxOfTwo

\* What RecoverLogFile adds to the edit of DB::Open.
LEMMA EditGrows ==
    ASSUME TypeInv, NEW t, apply' = [apply EXCEPT !.edit.add = @ \cup {t}]
    PROVE  /\ apply'.pc = apply.pc /\ apply'.owner = apply.owner
           /\ apply'.edit.add = apply.edit.add \cup {t}
           /\ apply'.edit.del = apply.edit.del /\ apply'.edit.next = apply.edit.next
<1>1. PICK edit : edit = [apply.edit EXCEPT !.add = @ \cup {t}]
  OBVIOUS
<1>2. apply' = [pc |-> apply.pc, owner |-> apply.owner, edit |-> edit]
  BY <1>1 DEF TypeInv, BgType, ApplyType
<1>3. edit.add = apply.edit.add \cup {t} /\ edit.del = apply.edit.del /\ edit.next = apply.edit.next
  BY <1>1 DEF TypeInv, BgType, ApplyType, EditsTo
<1> QED BY <1>2, <1>3

\* A log with entries becomes the table t.
LEMMA DiskLogToTable ==
    ASSUME DiskInv, TypeInv', phase = "open", apply.pc = "none", NEW t \in Numbers,
           t = next_file_number_, t < next_file_number_', NEW entries, entries # {},
           dir' = Create(TableFile(t)),
           data' = [data EXCEPT ![TableFile(t)] = <<TableOf(entries, FALSE)>>],
           SyncFile(TableFile(t)),
           apply' = [apply EXCEPT !.edit.add = @ \cup {t}],
           UNCHANGED <<mem_, imm_, has_imm_, logfile_number_, log_number_,
                   manifest_file_number_, has_descriptor_, phase, reuse, versionVars,
                   flush, c, bg_error_, historyVars>>
    PROVE  DiskInv'
<1>1. Runs /\ apply.owner = "open" /\ flush = 0 /\ c = None
  BY DEF Runs, DiskInv, TypeInv, PhaseType
<1>2. /\ apply'.pc = "none" /\ apply'.owner = "open"
      /\ apply'.edit.add = apply.edit.add \cup {t} /\ apply'.edit.del = apply.edit.del
  BY <1>1, EditGrows DEF DiskInv
<1>3. CompleteIn(t, data', synced') /\ older' = {}
  BY TableStored DEF DiskInv
<1>4. Dirs' = {dir'} /\ Has(dir', t)
  BY <1>3 DEF Dirs, Has, Create, DiskInv, TypeInv, DirsOK, DirType
<1>5. PICK f : f = TableFile(t)
  OBVIOUS
<1>6. Only(f)
  <2>1. PICK y : synced' = [synced EXCEPT ![f] = y]
    BY <1>5 DEF SyncFile
  <2>2. f \in Files /\ Dirs' \subseteq Dirs \cup {dir'}
    BY <1>4, <1>5, FileIs
  <2> QED BY <1>5, <2>1, <2>2, OnlyIs DEF DiskInv
<1>7. t \notin LiveTables /\ (MayCrash => FreshIn(t, Dirs, data))
  BY <1>1, NextIsFresh
<1>8. /\ MayCrash => \A d \in Dirs : f \notin Uses(d, data)
      /\ f # Manifest(manifest_file_number_) /\ \A m : m # t => f # TableFile(m)
  BY <1>5, <1>7, NotUsed, FilesApart DEF DiskInv
<1>9. faults <= faults' /\ next_file_number_ \in Nat /\ next_file_number_' \in Nat
  BY NumbersKept DEF DiskInv, historyVars, TypeInv, NumberType
<1>10. MayCrash' => MayCrash
  BY <1>9, MayCrashBefore DEF DiskInv
<1>11. \A n \in LiveTables : Has(dir', n) /\ CompleteIn(n, data', synced')
  BY <1>1, <1>6, <1>7, <1>8, LiveKept
<1>12. NoDir'
  BY <1>1, <1>6 DEF NoDir, DiskInv, Only
<1>13. DirsGood' /\ Horizon' /\ Descriptor' /\ NamesBelow' /\ Replay' /\ NewManifest'
  <2>1. CASE ~MayCrash
    BY <1>10, <2>1 DEF DirsGood, Horizon, Descriptor, NamesBelow, Replay, NewManifest
  <2>2. CASE MayCrash
    <3>1. Touches(f) /\ PcKept
      BY <1>2, <1>6, <1>8, <2>2, OnlyTouches DEF PcKept
    <3>2. next_file_number_ <= next_file_number_'
      BY <1>9
    <3>3. DirsGood' /\ Horizon' /\ Descriptor' /\ AllBelow(next_file_number_', Dirs', data')
      BY <1>1, <1>6, <2>2, <3>1, <3>2, ManifestsKept
    <3>4. NamesBelow'
      <4>1. \A n \in apply'.edit.add : Has(dir', n)
        BY <1>2, <1>4, <1>11 DEF LiveTables
      <4> QED BY <1>2, <1>4, <3>3, <4>1 DEF NamesBelow
    <3>5. ~has_descriptor_
      BY <1>1, <2>2 DEF DiskInv, Descriptor
    <3>6. Replay' /\ NewManifest'
      BY <1>2, <3>5 DEF Replay, NewManifest
    <3> QED BY <3>3, <3>4, <3>6
  <2> QED BY <2>1, <2>2
<1>14. LiveOnDisk' /\ LiveBelow'
  <2>1. LiveTables' \subseteq LiveTables \cup {t}
    BY <1>2 DEF LiveTables, Base, versionVars
  <2>2. \A n \in LiveTables : n \in Nat /\ n < next_file_number_
    BY <1>1, NumbersAre, LiveNumbers DEF DiskInv, LiveBelow
  <2>3. \A n \in LiveTables : n < next_file_number_'
    BY <1>9, <2>2
  <2> QED BY <1>3, <1>4, <1>11, <2>1, <2>3 DEF LiveOnDisk, LiveBelow
<1>15. EditInv'
  BY <1>1, <1>2 DEF DiskInv, EditInv
<1>16. CompactionInv' /\ FlushInv' /\ Fresh'
  BY <1>1 DEF DiskInv, CompactionInv, FlushInv, Fresh
<1> QED BY <1>12, <1>13, <1>14, <1>15, <1>16 DEF DiskInv

LEMMA DiskRecoverLogFile ==
    ASSUME DiskInv, LogsRead, TypeInv', RecoverLogFile
    PROVE  DiskInv'
<1>1. PICK n \in Numbers :
           /\ n \in todo
           /\ IF InLog(n) = {}
              THEN /\ next_file_number_' = Max({next_file_number_, n + 1})
                   /\ UNCHANGED <<diskVars, apply>>
              ELSE LET t == next_file_number_
                   IN  /\ t < MaxFile
                       /\ next_file_number_' = Max({t, n}) + 1
                       /\ dir' = Create(TableFile(t))
                       /\ data' = [data EXCEPT ![TableFile(t)] = <<TableOf(InLog(n), FALSE)>>]
                       /\ SyncFile(TableFile(t))
                       /\ apply' = [apply EXCEPT !.edit.add = @ \cup {t}]
  BY DEF RecoverLogFile, NextLog
<1>2. /\ phase = "open"
      /\ UNCHANGED <<mem_, imm_, has_imm_, logfile_number_, log_number_,
                   manifest_file_number_, has_descriptor_, phase, reuse, versionVars,
                   flush, c, bg_error_, historyVars>>
  BY DEF RecoverLogFile
<1>3. apply.pc = "none"
  BY <1>1 DEF LogsRead, DiskInv, TypeInv, PhaseType
<1>4. n \in Nat /\ n + 1 \in Nat /\ next_file_number_ \in Nat \ {0}
  BY NumbersAre DEF DiskInv, TypeInv, NumberType
<1>5. CASE InLog(n) = {}
  <2>1. Only(Log(1)) /\ Runs
    BY <1>1, <1>2, <1>5, OnlyNothing DEF DiskInv, Runs
  <2>2. next_file_number_ <= next_file_number_'
    <3>1. PICK k \in Nat : k = n + 1
      BY <1>4
    <3>2. Max({next_file_number_, k}) >= next_file_number_
          /\ Max({next_file_number_, k}) \in {next_file_number_, k}
      BY <1>4, MaxOfTwo
    <3> QED BY <1>1, <1>4, <1>5, <3>1, <3>2
  <2>3. has_imm_' => imm_' # {}
    BY <1>2 DEF DiskInv, FlushInv
  <2> QED BY <1>1, <1>2, <1>5, <2>1, <2>2, <2>3, NumbersKept, LogStep
          DEF DiskInv, versionVars, historyVars
<1>6. CASE InLog(n) # {}
  <2>1. PICK t : t = next_file_number_
    OBVIOUS
  <2>2. /\ t < MaxFile /\ next_file_number_' = Max({t, n}) + 1
        /\ dir' = Create(TableFile(t))
        /\ data' = [data EXCEPT ![TableFile(t)] = <<TableOf(InLog(n), FALSE)>>]
        /\ SyncFile(TableFile(t))
        /\ apply' = [apply EXCEPT !.edit.add = @ \cup {t}]
    BY <1>1, <1>6, <2>1
  <2>3. t \in Numbers
    BY <1>4, <2>1, <2>2, NumbersAre DEF Numbers
  <2>4. t < next_file_number_'
    BY <1>4, <2>1, <2>2, NextGrows
  <2>5. PICK entries : entries = InLog(n)
    OBVIOUS
  <2> QED BY <1>2, <1>3, <1>6, <2>1, <2>2, <2>3, <2>4, <2>5, DiskLogToTable
<1> QED BY <1>5, <1>6
-----------------------------------------------------------------------------
(***************************************************************************)
(* LogAndApply.                                                            *)
(***************************************************************************)
\* The process goes on with the same edit.
SameEdit ==
    /\ apply'.owner = apply.owner /\ apply'.edit = apply.edit
    /\ UNCHANGED <<next_file_number_, current_, pinned, pending_outputs_, flush, c, imm_,
                   has_imm_, phase, faults>>

\* One step of LogAndApply, which touches a MANIFEST only.
LEMMA ApplyWorkKept ==
    ASSUME DiskInv, TypeInv', Runs, SameEdit, NEW f, Only(f), \A n \in Numbers : f # TableFile(n)
    PROVE  /\ LiveOnDisk' /\ LiveBelow' /\ EditInv' /\ CompactionInv' /\ FlushInv' /\ NoDir'
           /\ MayCrash' = MayCrash
<1> USE DEF SameEdit
<1>1. LiveTables' = LiveTables /\ LiveTables \subseteq Numbers
  BY LiveNumbers DEF LiveTables, Base, DiskInv
<1>2. next_file_number_ <= next_file_number_'
  BY NumbersKept DEF DiskInv
<1>3. LiveOnDisk' /\ LiveBelow'
  <2>1. \A n \in LiveTables : Has(dir', n) /\ CompleteIn(n, data', synced')
    BY <1>1, LiveKept
  <2> QED BY <1>1, <1>2, <2>1, LiveStays
<1>4. EditInv'
  BY DEF DiskInv, EditInv
<1>5. CompactionInv'
  <2>1. c # None => /\ f # TableFile(c.output) /\ c.output \in pending_outputs_'
                    /\ c.output \notin current_' \cup pinned' /\ c.output # flush'
    BY CompactionIs DEF DiskInv, CompactionInv
  <2> QED BY <1>2, <2>1, CompactionStays
<1>6. FlushInv'
  <2>1. flush # 0 => f # TableFile(flush)
    BY NumbersAre DEF DiskInv, TypeInv, BgType, Numbers
  <2>2. flush # 0 /\ apply'.owner # "flush" =>
               /\ apply.owner # "flush" /\ f # TableFile(flush) /\ flush \in pending_outputs_'
               /\ flush \notin LiveTables'
    BY <1>1, <2>1 DEF DiskInv, FlushInv
  <2> QED BY <1>2, <2>2, FlushStays
<1>7. NoDir'
  BY DEF NoDir, DiskInv, Runs, Only
<1>8. MayCrash' = MayCrash
  BY DEF MayCrash
<1> QED BY <1>3, <1>4, <1>5, <1>6, <1>7, <1>8

\* Its edit is still to be found nowhere else.
LEMMA EditApart ==
    ASSUME DiskInv, apply.pc # "none"
    PROVE  /\ c # None /\ apply.owner # "compaction" => c.output \notin apply.edit.add
           /\ flush # 0 /\ apply.owner # "flush" => flush \notin apply.edit.add
<1>1. CASE apply.owner = "open"
  BY <1>1 DEF DiskInv, TypeInv, PhaseType
<1>2. CASE apply.owner = "flush"
  BY <1>2 DEF DiskInv, TypeInv, PhaseType, EditInv, CompactionInv
<1>3. CASE apply.owner = "compaction"
  BY <1>3 DEF DiskInv, EditInv
<1> QED BY <1>1, <1>2, <1>3 DEF DiskInv, TypeInv, BgType, ApplyType

LEMMA EditNumbers ==
    ASSUME DiskInv, Runs, MayCrash, apply.pc # "none"
    PROVE  /\ apply.edit.next \in Nat /\ apply.edit.add \subseteq Numbers
           /\ \A n \in apply.edit.add : n < next_file_number_ /\ n < apply.edit.next
           /\ AllBelow(next_file_number_, Dirs, data) /\ AllBelow(apply.edit.next, Dirs, data)
           /\ \A d \in Dirs : \A n \in apply.edit.add : Has(d, n)
           /\ manifest_file_number_ < apply.edit.next
           /\ \A n \in current_ : n < next_file_number_ /\ n < apply.edit.next
BY DEF DiskInv, NamesBelow, LiveBelow, LiveTables, TypeInv, BgType, ApplyType, EditsTo

LEMMA AppendGoesOn ==
    ASSUME DiskInv, ApplyAppend
    PROVE  /\ apply.pc = "append" /\ apply'.pc = "sync" /\ SameEdit /\ Runs
           /\ UNCHANGED <<numberVars, memVars, openVars, versionVars, flush, c, bg_error_,
                   historyVars>>
           /\ manifest_file_number_ \in Numbers
           /\ Only(Manifest(manifest_file_number_))
           /\ \A n \in Numbers : Manifest(manifest_file_number_) # TableFile(n)
<1>1. /\ apply.pc = "append" /\ apply' = [apply EXCEPT !.pc = "sync"]
      /\ UNCHANGED <<numberVars, memVars, openVars, versionVars, flush, c, bg_error_,
                   historyVars>>
  BY DEF ApplyAppend
<1>2. apply'.pc = "sync" /\ apply'.owner = apply.owner /\ apply'.edit = apply.edit
  BY <1>1, ApplyGoesOn DEF DiskInv, historyVars
<1>3. manifest_file_number_ \in Numbers /\ Runs
  BY <1>1, NumbersAre DEF DiskInv, TypeInv, PhaseType, BgType, ApplyType, NumberType, Numbers, Runs
<1>4. PICK f : f = Manifest(manifest_file_number_)
  OBVIOUS
<1>5. f \in Files /\ \A n : f # TableFile(n)
  BY <1>3, <1>4, ManifestsApart
<1>6. Only(f)
  <2>1. CASE has_descriptor_
    <3>1. PICK x : data' = [data EXCEPT ![f] = x]
      BY <1>4, <2>1 DEF ApplyAppend, AppendEdit
    <3>2. UNCHANGED <<dir, older, synced>>
      BY <2>1 DEF ApplyAppend, AppendEdit
    <3> QED BY <1>5, <3>1, <3>2, OnlyWrites DEF DiskInv
  <2>2. CASE ~has_descriptor_
    <3>1. PICK r : Written(f, r) /\ ChangeDir(Create(f))
      BY <1>4, <2>2 DEF ApplyAppend, AppendEdit
    <3> QED BY <1>5, <3>1, OnlyCreates DEF DiskInv
  <2> QED BY <2>1, <2>2
<1>7. SameEdit
  BY <1>1, <1>2 DEF SameEdit, numberVars, versionVars, memVars, openVars, historyVars
<1> QED BY <1>1, <1>2, <1>3, <1>4, <1>5, <1>6, <1>7

\* The MANIFEST that CURRENT names gets the edit.
LEMMA AppendsToOld ==
    ASSUME DiskInv, TypeInv', ApplyAppend, MayCrash, has_descriptor_
    PROVE  /\ DirsGood' /\ Horizon' /\ Descriptor' /\ NamesBelow' /\ Fresh' /\ Replay'
           /\ NewManifest'
<1>1. /\ apply.pc = "append" /\ apply'.pc = "sync" /\ SameEdit /\ Runs
      /\ UNCHANGED <<numberVars, openVars, bg_error_>>
      /\ UNCHANGED <<dir, older, synced>>
      /\ AppendsEdit
  BY AppendGoesOn DEF ApplyAppend, AppendEdit, AppendsEdit
<1>2. PICK M : M = Manifest(manifest_file_number_)
  OBVIOUS
<1>3. PICK Q : Q = data'[M]
  OBVIOUS
<1>4. /\ AllGood(Dirs', data', synced')
      /\ \A N : AllBelow(N, Dirs, data) /\ (\A n \in apply.edit.add : n < N)
                => AllBelow(N, Dirs', data')
      /\ \A n : FreshIn(n, Dirs, data) /\ n \notin apply.edit.add
                => FreshIn(n, Dirs', data')
      /\ Len(Q) = Len(Mine) + 1 /\ Q[Len(Q)] = apply.edit
      /\ TablesAt(Q, Len(Q)) = Applied(TablesAt(Mine, Len(Mine)), apply.edit)
  BY <1>1, <1>2, <1>3, AppendKeeps
<1>5. /\ ~reuse /\ phase = "up" /\ dir.current = manifest_file_number_
      /\ manifest_file_number_ < next_file_number_
  BY <1>1 DEF DiskInv, Descriptor, Runs
<1>6. /\ \A n \in apply.edit.add : n < next_file_number_ /\ n < apply.edit.next
      /\ AllBelow(next_file_number_, Dirs, data) /\ AllBelow(apply.edit.next, Dirs, data)
      /\ \A d \in Dirs : \A n \in apply.edit.add : Has(d, n)
      /\ manifest_file_number_ < apply.edit.next /\ apply.edit.next # 0
      /\ \A n \in current_ : n < apply.edit.next
  BY <1>1, EditNumbers DEF DiskInv, NamesBelow
<1>7. AllBelow(next_file_number_, Dirs', data') /\ AllBelow(apply.edit.next, Dirs', data')
  BY <1>4, <1>6
<1>8. Mine' = Q /\ Here' = Q
  BY <1>1, <1>2, <1>3, <1>5 DEF Mine, Here, numberVars
<1>9. DirsGood' /\ Horizon'
  BY <1>4, <1>7, <1>8 DEF DirsGood, Horizon
<1>10. Descriptor'
  BY <1>1, <1>5 DEF Descriptor, numberVars, openVars
<1>11. NamesBelow'
  BY <1>1, <1>6, <1>7 DEF NamesBelow, SameEdit, Dirs, numberVars
<1>12. Fresh'
  <2>1. \A n : FreshIn(n, Dirs, data) /\ n \notin apply.edit.add => FreshIn(n, Dirs', data')
    BY <1>4
  <2> QED BY <1>1, <2>1, EditApart DEF DiskInv, Fresh, SameEdit
<1>13. Replay'
  <2>1. ~bg_error_ => TablesAt(Mine, Len(Mine)) = current_
    BY <1>1 DEF DiskInv, Replay
  <2>2. ~bg_error_' => TablesAt(Mine', Len(Mine')) = After'
    BY <1>1, <1>4, <1>8, <2>1 DEF After, SameEdit
  <2> QED BY <1>1, <2>2 DEF Replay
<1>14. NewManifest'
  BY <1>1 DEF NewManifest, numberVars
<1> QED BY <1>9, <1>10, <1>11, <1>12, <1>13, <1>14

LEMMA TwoRecords ==
    ASSUME NEW a, NEW b
    PROVE  <<a>> \o <<b>> = <<a, b>>
<1>1. PICK p : p = <<a>>
  OBVIOUS
<1>2. PICK q : q = <<b>>
  OBVIOUS
<1>3. PICK r : r = <<a, b>>
  OBVIOUS
<1>4. /\ p \in Seq({a, b}) /\ Len(p) = 1 /\ p[1] = a
      /\ q \in Seq({a, b}) /\ Len(q) = 1 /\ q[1] = b
      /\ r \in Seq({a, b}) /\ Len(r) = 2 /\ r[1] = a /\ r[2] = b
  BY <1>1, <1>2, <1>3
<1>5. PICK s : s = p \o q
  OBVIOUS
<1>6. /\ s \in Seq({a, b}) /\ Len(s) = Len(p) + Len(q)
      /\ \A i \in 1..Len(p) + Len(q) : s[i] = IF i <= Len(p) THEN p[i] ELSE q[i - Len(p)]
  BY <1>4, <1>5, ConcatProperties
<1>7. Len(s) = 2 /\ s[1] = a /\ s[2] = b
  BY <1>4, <1>6
<1>8. s = r
  <2>1. \A i \in 1..Len(s) : s[i] = r[i]
    BY <1>4, <1>7
  <2> QED BY <1>4, <1>6, <1>7, <2>1, SeqEqual
<1> QED BY <1>1, <1>2, <1>3, <1>5, <1>8

\* A new MANIFEST is created, which CURRENT does not name.
LEMMA AppendsToNew ==
    ASSUME DiskInv, TypeInv', ApplyAppend, MayCrash, ~has_descriptor_
    PROVE  /\ DirsGood' /\ Horizon' /\ Descriptor' /\ NamesBelow' /\ Fresh' /\ Replay'
           /\ NewManifest'
<1>1. /\ apply.pc = "append" /\ apply'.pc = "sync" /\ SameEdit /\ Runs
      /\ UNCHANGED <<numberVars, openVars, bg_error_>>
      /\ manifest_file_number_ \in Numbers
      /\ Only(Manifest(manifest_file_number_))
  BY AppendGoesOn
<1>2. PICK f : f = Manifest(manifest_file_number_)
  OBVIOUS
<1>3. PICK r : r = <<Edit(0, 0, 0, current_, {}), apply.edit>>
  OBVIOUS
<1>4. Written(f, r) /\ ChangeDir(Create(f))
  <2>1. <<Edit(0, 0, 0, current_, {})>> \o <<apply.edit>> = r
    BY <1>3, TwoRecords
  <2> QED BY <1>2, <2>1 DEF ApplyAppend, AppendEdit
<1>5. f \in Files /\ \A n : f # TableFile(n)
  <2>1. manifest_file_number_ \in Numbers
    BY <1>1
  <2> QED BY <1>2, <2>1, ManifestsApart
<1>6. f \in dir'.files /\ data'[f] = r
  <2>1. f \in dir'.files
    BY <1>4, <1>5, OnlyCreates DEF DiskInv
  <2>2. data'[f] = r
    BY <1>4, <1>5, FunctionChanges DEF Written, DiskInv, TypeInv, DiskType, FilesOK
  <2> QED BY <2>1, <2>2
<1>7. \A d \in Dirs : d.current < manifest_file_number_
  BY <1>1 DEF DiskInv, Descriptor
<1>8. \A d \in Dirs : f \notin Uses(d, data)
  <2>1. \A d \in Dirs : d.current # manifest_file_number_
    BY <1>1, <1>7, NumbersAre
  <2> QED BY <1>2, <2>1, NotUsed DEF DiskInv
<1>9. Only(f) /\ Touches(f) /\ PcKept
  BY <1>1, <1>2, <1>8, OnlyTouches DEF PcKept
<1>10. /\ DirsGood' /\ Horizon' /\ Descriptor'
       /\ AllBelow(next_file_number_', Dirs', data')
       /\ \A N : AllBelow(N, Dirs, data) => AllBelow(N, Dirs', data')
       /\ \A n : FreshIn(n, Dirs, data) => FreshIn(n, Dirs', data')
  <2>1. next_file_number_ <= next_file_number_'
    BY <1>1, NumbersKept DEF SameEdit, DiskInv
  <2> QED BY <1>1, <1>9, <2>1, ManifestsKept DEF SameEdit, numberVars, openVars
<1>11. NamesBelow'
  <2>1. /\ AllBelow(apply.edit.next, Dirs, data)
        /\ apply.edit.add \subseteq Numbers
        /\ \A d \in Dirs : \A n \in apply.edit.add : Has(d, n)
        /\ manifest_file_number_ < apply.edit.next /\ apply.edit.next # 0
        /\ \A n \in apply.edit.add \cup current_ : n < apply.edit.next
    BY <1>1, EditNumbers DEF DiskInv, NamesBelow
  <2>2. \A e \in Dirs' : \A n \in apply.edit.add : Has(e, n)
    BY <1>5, <1>9, <2>1, FileIs DEF Touches, Has
  <2>3. AllBelow(apply.edit.next, Dirs', data')
    BY <1>10, <2>1
  <2> QED BY <1>1, <1>10, <2>1, <2>2, <2>3 DEF NamesBelow, SameEdit, numberVars
<1>12. Fresh'
  BY <1>1, <1>10 DEF DiskInv, Fresh, SameEdit
<1>13. Replay'
  BY <1>1 DEF Replay, numberVars
<1>14. NewManifest'
  <2>1. Mine' = r /\ Manifest(manifest_file_number_') = f
    BY <1>1, <1>2, <1>6 DEF Mine, numberVars
  <2>2. r = <<Edit(0, 0, 0, current_', {}), apply'.edit>>
    BY <1>1, <1>3 DEF SameEdit
  <2>3. apply'.pc # "current"
    BY <1>1
  <2> QED BY <1>6, <2>1, <2>2, <2>3 DEF NewManifest
<1> QED BY <1>10, <1>11, <1>12, <1>13, <1>14

LEMMA DiskApplyAppend ==
    ASSUME DiskInv, TypeInv', ApplyAppend
    PROVE  DiskInv'
<1>1. PICK f : f = Manifest(manifest_file_number_)
  OBVIOUS
<1>2. /\ SameEdit /\ Runs /\ Only(f) /\ \A n \in Numbers : f # TableFile(n)
      /\ phase' = phase
  BY <1>1, AppendGoesOn DEF SameEdit
<1>3. /\ LiveOnDisk' /\ LiveBelow' /\ EditInv' /\ CompactionInv' /\ FlushInv' /\ NoDir'
      /\ MayCrash' = MayCrash
  BY <1>2, ApplyWorkKept
<1>4. DirsGood' /\ Horizon' /\ Descriptor' /\ NamesBelow' /\ Fresh' /\ Replay' /\ NewManifest'
  <2>1. CASE ~MayCrash
    BY <1>3, <2>1 DEF DirsGood, Horizon, Descriptor, NamesBelow, Fresh, Replay, NewManifest
  <2>2. CASE MayCrash
    BY <2>2, AppendsToOld, AppendsToNew
  <2> QED BY <2>1, <2>2
<1> QED BY <1>2, <1>3, <1>4 DEF DiskInv

\* The record is on stable storage.
LEMMA DiskApplySync ==
    ASSUME DiskInv, TypeInv', ApplySync
    PROVE  DiskInv'
<1>1. PICK f : f = Manifest(manifest_file_number_)
  OBVIOUS
<1>2. PICK pc \in {"install", "current"} : pc = NextAfterSync
  BY DEF NextAfterSync
<1>3. /\ apply.pc = "sync" /\ dir' = dir /\ data' = data /\ older' = {}
      /\ synced' = [synced EXCEPT ![f] = Len(data'[f])]
      /\ apply' = [apply EXCEPT !.pc = pc]
      /\ UNCHANGED <<numberVars, memVars, openVars, versionVars, flush, c, bg_error_,
                   historyVars>>
  BY <1>1, <1>2 DEF ApplySync, SyncFile
<1>4. apply'.pc = pc /\ apply'.owner = apply.owner /\ apply'.edit = apply.edit
  BY <1>2, <1>3, ApplyGoesOn DEF DiskInv, historyVars
<1>5. manifest_file_number_ \in Numbers /\ Runs
  BY <1>3, NumbersAre DEF DiskInv, TypeInv, PhaseType, BgType, ApplyType, NumberType, Numbers, Runs
<1>6. f \in Files /\ \A n : f # TableFile(n)
  BY <1>1, <1>5, ManifestsApart
<1>7. Dirs' \subseteq Dirs /\ dir \in Dirs /\ Only(f)
  <2>1. Dirs' \subseteq Dirs /\ dir \in Dirs
    BY <1>3 DEF Dirs
  <2>2. PICK y : synced' = [synced EXCEPT ![f] = y]
    BY <1>3
  <2>3. Only(f)
    BY <1>3, <1>6, <2>1, <2>2, OnlyIs DEF DiskInv
  <2> QED BY <2>1, <2>3
<1>8. SameEdit
  BY <1>3, <1>4 DEF SameEdit, numberVars, versionVars, memVars, openVars, historyVars
<1>9. /\ LiveOnDisk' /\ LiveBelow' /\ EditInv' /\ CompactionInv' /\ FlushInv' /\ NoDir'
      /\ MayCrash' = MayCrash
  BY <1>5, <1>6, <1>7, <1>8, ApplyWorkKept
<1>10. DirsGood' /\ Horizon' /\ Descriptor' /\ NamesBelow' /\ Fresh' /\ Replay' /\ NewManifest'
  <2>1. CASE ~MayCrash
    BY <1>9, <2>1 DEF DirsGood, Horizon, Descriptor, NamesBelow, Fresh, Replay, NewManifest
  <2>2. CASE MayCrash
    <3>1. synced'[f] = Len(data[f]) /\ \A g \in Files : g # f => synced'[g] = synced[g]
      BY <1>3, <1>6, FunctionChanges DEF DiskInv, TypeInv, DiskType, FilesOK
    <3>2. \A n \in Numbers : /\ synced[Manifest(n)] <= synced'[Manifest(n)]
                             /\ synced'[TableFile(n)] = synced[TableFile(n)]
      <4> TAKE n \in Numbers
      <4>1. TableFile(n) \in Files /\ Manifest(n) \in Files /\ TableFile(n) # f
        BY <1>6, FileIs
      <4>2. /\ synced[Manifest(n)] \in Nat
            /\ synced[Manifest(n)] <= Len(data[Manifest(n)])
        BY <4>1 DEF DiskInv, TypeInv, DiskType, FilesOK
      <4> QED BY <3>1, <4>1, <4>2
    <3>3. /\ AllGood(Dirs, data, synced) => AllGood(Dirs', data', synced')
          /\ \A N : AllBelow(N, Dirs, data) => AllBelow(N, Dirs', data')
          /\ \A n : FreshIn(n, Dirs, data) => FreshIn(n, Dirs', data')
      BY <1>3, <1>7, <3>2, SyncKeeps DEF DiskInv, TypeInv
    <3>4. Here' = Here /\ Mine' = Mine /\ After' = After
      BY <1>3, <1>4 DEF Here, Mine, After, numberVars, versionVars
    <3>5. DirsGood' /\ Horizon'
      BY <1>3, <2>2, <3>3, <3>4 DEF DiskInv, DirsGood, Horizon
    <3>6. /\ ~reuse
          /\ phase = "open" => ~has_descriptor_
          /\ phase = "up" => has_descriptor_
          /\ has_descriptor_ => dir.current = manifest_file_number_
          /\ ~has_descriptor_ => \A d \in Dirs : d.current < manifest_file_number_
          /\ manifest_file_number_ < next_file_number_
      BY <1>3, <1>5, <2>2 DEF DiskInv, Descriptor
    <3>7. phase \in {"open", "up"}
      BY <1>5 DEF Runs
    <3>8. Descriptor'
      <4>1. /\ phase' = "open" => (has_descriptor_' <=> apply'.pc = "install")
            /\ phase' = "up" => has_descriptor_' /\ apply'.pc # "current"
        BY <1>2, <1>3, <1>4, <3>6 DEF NextAfterSync, openVars, numberVars
      <4>2. UNCHANGED <<reuse, has_descriptor_, dir, manifest_file_number_, next_file_number_>>
        BY <1>3 DEF openVars, numberVars
      <4> QED BY <1>7, <3>6, <4>1, <4>2 DEF Descriptor
    <3>9. NamesBelow'
      <4>1. /\ AllBelow(next_file_number_, Dirs, data)
            /\ apply.edit.next # 0 /\ manifest_file_number_ < apply.edit.next
            /\ AllBelow(apply.edit.next, Dirs, data)
            /\ \A n \in apply.edit.add \cup current_ : n < apply.edit.next
            /\ \A d \in Dirs : \A n \in apply.edit.add : Has(d, n)
        BY <1>3, <1>5, <2>2 DEF DiskInv, NamesBelow
      <4>2. AllBelow(next_file_number_, Dirs', data') /\ AllBelow(apply.edit.next, Dirs', data')
        BY <3>3, <4>1
      <4> QED BY <1>3, <1>4, <1>7, <4>1, <4>2 DEF NamesBelow, numberVars, versionVars
    <3>10. Fresh'
      BY <1>5, <1>8, <2>2, <3>3 DEF DiskInv, Fresh, SameEdit
    <3>11. Manifest(manifest_file_number_') = f /\ synced'[f] = Len(Mine')
      BY <1>1, <1>3, <3>1 DEF Mine, numberVars
    <3>12. Replay'
      <4>1. ~bg_error_ /\ has_descriptor_ => TablesAt(Mine, Len(Mine)) = After
        BY <1>3, <1>5, <2>2 DEF DiskInv, Replay
      <4> QED BY <1>2, <1>3, <1>4, <3>4, <3>11, <4>1 DEF Replay, numberVars
    <3>13. NewManifest'
      <4>1. ~has_descriptor_ =>
               /\ Mine = <<Edit(0, 0, 0, current_, {}), apply.edit>>
               /\ Manifest(manifest_file_number_) \in dir.files
        BY <1>3, <1>5, <2>2 DEF DiskInv, NewManifest
      <4> QED BY <1>1, <1>3, <1>4, <3>4, <3>11, <4>1 DEF NewManifest, numberVars, versionVars
    <3> QED BY <3>5, <3>8, <3>9, <3>10, <3>12, <3>13
  <2> QED BY <2>1, <2>2
<1> QED BY <1>3, <1>9, <1>10 DEF DiskInv, openVars

\* CURRENT names the new MANIFEST.
LEMMA DiskSetCurrentFile ==
    ASSUME DiskInv, TypeInv', SetCurrentFile
    PROVE  DiskInv'
<1>1. /\ apply.pc = "current" /\ ChangeDir([dir EXCEPT !.current = manifest_file_number_])
      /\ has_descriptor_' = TRUE /\ apply' = [apply EXCEPT !.pc = "install"]
      /\ UNCHANGED <<data, synced, log_number_, manifest_file_number_, next_file_number_,
                     memVars, openVars, versionVars, flush, c, bg_error_, historyVars>>
  BY DEF SetCurrentFile
<1>2. apply'.pc = "install" /\ apply'.owner = apply.owner /\ apply'.edit = apply.edit
  BY <1>1, ApplyGoesOn DEF DiskInv, historyVars
<1>3. manifest_file_number_ # 0 /\ Runs
  BY <1>1 DEF DiskInv, TypeInv, PhaseType, BgType, ApplyType, Runs
<1>4. dir'.files = dir.files /\ dir'.current = manifest_file_number_ /\ dir \in Dirs
  BY <1>1 DEF ChangeDir, DiskInv, TypeInv, DirsOK, DirType, Dirs
<1>5. LiveTables' = LiveTables /\ MayCrash' = MayCrash
  BY <1>1, <1>2 DEF LiveTables, Base, versionVars, MayCrash, openVars, historyVars
<1>6. LiveOnDisk' /\ LiveBelow'
  BY <1>1, <1>3, <1>4, <1>5 DEF DiskInv, LiveOnDisk, LiveBelow, Has, CompleteIn
<1>7. EditInv'
  BY <1>1, <1>2 DEF DiskInv, EditInv, openVars
<1>8. CompactionInv' /\ FlushInv'
  BY <1>1, <1>2, <1>4, <1>5 DEF DiskInv, CompactionInv, FlushInv, Has, versionVars, memVars
<1>9. NoDir'
  BY <1>3, <1>4 DEF NoDir
<1>10. DirsGood' /\ Horizon' /\ Descriptor' /\ NamesBelow' /\ Fresh' /\ Replay' /\ NewManifest'
  <2>1. CASE ~MayCrash
    BY <1>5, <2>1 DEF DirsGood, Horizon, Descriptor, NamesBelow, Fresh, Replay, NewManifest
  <2>2. CASE MayCrash
    <3>1. /\ AllGood(Dirs', data', synced')
          /\ phase = "open" /\ ~has_descriptor_ /\ dir'.current = manifest_file_number_
          /\ \A N : /\ AllBelow(N, Dirs, data) /\ manifest_file_number_ < N
                    /\ \A n \in apply.edit.add \cup current_ : n < N
                    => AllBelow(N, Dirs', data')
          /\ Len(Mine) = 2 /\ Mine[2] = apply.edit /\ TablesAt(Mine, 2) = After
          /\ synced[Manifest(manifest_file_number_)] = Len(Mine)
          /\ \A e \in Dirs' : e \in Dirs \/ e.files = dir.files
      BY <1>3, <2>2, CurrentKeeps
    <3>2. /\ \A n \in apply.edit.add \cup current_ : n < next_file_number_ /\ n < apply.edit.next
          /\ AllBelow(next_file_number_, Dirs, data) /\ AllBelow(apply.edit.next, Dirs, data)
          /\ \A d \in Dirs : \A n \in apply.edit.add : Has(d, n)
          /\ manifest_file_number_ < apply.edit.next /\ apply.edit.next # 0
      BY <1>1, <1>3, <2>2, EditNumbers DEF DiskInv, NamesBelow
    <3>3. ~reuse /\ manifest_file_number_ < next_file_number_
      BY <1>3, <2>2 DEF DiskInv, Descriptor
    <3>4. AllBelow(next_file_number_, Dirs', data') /\ AllBelow(apply.edit.next, Dirs', data')
      BY <3>1, <3>2, <3>3
    <3>5. Mine' = Mine /\ Here' = Mine /\ After' = After
      BY <1>1, <1>2, <1>4 DEF Mine, Here, After, versionVars
    <3>6. DirsGood' /\ Horizon'
      BY <3>1, <3>4, <3>5 DEF DirsGood, Horizon
    <3>7. Descriptor'
      BY <1>1, <1>2, <1>4, <3>1, <3>3 DEF Descriptor, openVars
    <3>8. NamesBelow'
      <4>1. \A e \in Dirs' : \A n \in apply.edit.add : Has(e, n)
        BY <1>4, <3>1, <3>2 DEF Has
      <4> QED BY <1>1, <1>2, <3>2, <3>4, <4>1 DEF NamesBelow, versionVars
    <3>9. Fresh'
      BY <1>1, <3>1 DEF DiskInv, TypeInv, PhaseType, Fresh
    <3>10. Replay' /\ NewManifest'
      BY <1>1, <1>2, <3>1, <3>5 DEF Replay, NewManifest
    <3> QED BY <3>6, <3>7, <3>8, <3>9, <3>10
  <2> QED BY <2>1, <2>2
<1> QED BY <1>1, <1>6, <1>7, <1>8, <1>9, <1>10 DEF DiskInv, openVars

\* The version is installed, and what no version names is deleted.
Installs ==
    /\ Install /\ DeleteObsoleteFiles /\ phase' = "up" /\ flush' = 0
    /\ UNCHANGED <<data, synced, manifest_file_number_, next_file_number_, has_descriptor_,
                   bg_error_, reuse, pinned, faults>>
    /\ c' = c \/ c' = None
    /\ c' # None => pending_outputs_' = pending_outputs_ /\ apply.owner = "flush"
    /\ has_imm_' => imm_' # {}

LEMMA InstallKeeps ==
    ASSUME DiskInv, TypeInv', Installs
    PROVE  DiskInv'
<1> USE DEF Installs
<1>1. /\ apply.pc = "install" /\ apply' = NoApply /\ current_' = After
  BY DEF Install, After, Applied
<1>2. /\ apply'.pc = "none" /\ apply'.owner = "open" /\ apply'.edit.add = {}
      /\ apply'.edit.del = {}
  BY <1>1 DEF NoApply, Edit
<1>3. Runs /\ dir.current # 0
  BY <1>1 DEF DiskInv, TypeInv, PhaseType, BgType, ApplyType, Runs, NoDir
<1>4. /\ \A n \in Live : Has(dir, n) => Has(dir', n)
      /\ dir'.current = dir.current
  BY DeleteLeaves DEF DiskInv
<1>5. LiveTables' \subseteq Live /\ LiveTables' \subseteq LiveTables
  BY <1>1, <1>2 DEF LiveTables, Live, Base, After, Applied
<1>6. LiveOnDisk' /\ LiveBelow'
  BY <1>3, <1>4, <1>5 DEF DiskInv, LiveOnDisk, LiveBelow, CompleteIn
<1>7. NoDir'
  BY <1>3, <1>4 DEF NoDir
<1>8. EditInv' /\ FlushInv'
  BY <1>2 DEF EditInv, FlushInv
<1>9. CompactionInv'
  <2> SUFFICES ASSUME c' # None
               PROVE  CompactionInv'
    BY DEF CompactionInv
  <2>1. c' = c /\ apply.edit.add = {flush} /\ flush # 0
    BY DEF DiskInv, EditInv, TypeInv, PhaseType
  <2>2. /\ c.output \in pending_outputs_ /\ Has(dir, c.output) /\ c.output < next_file_number_
        /\ c.output \notin current_ \cup pinned \cup c.base /\ c.output # flush
        /\ c.base # {}
    BY <2>1 DEF DiskInv, CompactionInv
  <2>3. c.output \in Live /\ c.output # 0
    BY <2>1, <2>2, CompactionIs, NumbersAre DEF Live, DiskInv
  <2>4. c.output \notin After
    BY <2>1, <2>2 DEF After, Applied
  <2> QED BY <1>1, <1>4, <2>1, <2>2, <2>3, <2>4 DEF CompactionInv
<1>10. DirsGood' /\ Horizon' /\ Descriptor' /\ NamesBelow' /\ Fresh' /\ Replay' /\ NewManifest'
  <2>1. CASE ~MayCrash
    <3>1. ~MayCrash'
      BY <2>1 DEF MayCrash
    <3> QED BY <3>1 DEF DirsGood, Horizon, Descriptor, NamesBelow, Fresh, Replay, NewManifest
  <2>2. CASE MayCrash
    <3>1. /\ AllGood(Dirs', data', synced')
          /\ \A N : AllBelow(N, Dirs, data) => AllBelow(N, Dirs', data')
          /\ \A n : FreshIn(n, Dirs, data) => FreshIn(n, Dirs', data')
          /\ has_descriptor_
      BY <1>3, <2>2, DeleteKeeps
    <3>2. Here' = Here /\ Mine' = Mine
      BY <1>4 DEF Here, Mine
    <3>3. DirsGood' /\ Horizon'
      BY <1>3, <1>4, <2>2, <3>1, <3>2 DEF DiskInv, DirsGood, Horizon
    <3>4. Descriptor'
      BY <1>2, <1>3, <1>4, <2>2, <3>1 DEF DiskInv, Descriptor
    <3>5. NamesBelow'
      <4>1. AllBelow(next_file_number_, Dirs, data)
        BY <1>3, <2>2 DEF DiskInv, NamesBelow
      <4> QED BY <1>2, <3>1, <4>1 DEF NamesBelow
    <3>6. Fresh'
      BY <1>3, <2>2, <3>1 DEF DiskInv, Fresh
    <3>7. Replay' /\ NewManifest'
      <4>1. ~bg_error_ => TablesAt(Mine, Len(Mine)) = After
        BY <1>1, <1>3, <2>2, <3>1 DEF DiskInv, Replay
      <4> QED BY <1>1, <1>2, <3>1, <3>2, <4>1 DEF Replay, NewManifest
    <3> QED BY <3>3, <3>4, <3>5, <3>6, <3>7
  <2> QED BY <2>1, <2>2
<1> QED BY <1>6, <1>7, <1>8, <1>9, <1>10 DEF DiskInv

LEMMA DiskInstall ==
    ASSUME DiskInv, TypeInv', InstallOpen \/ InstallFlush \/ InstallCompaction
    PROVE  DiskInv'
<1>1. CASE InstallOpen
  <2>1. flush = 0 /\ c = None
    BY <1>1 DEF InstallOpen, Install, DiskInv, TypeInv, PhaseType
  <2>2. has_imm_' => imm_' # {}
    BY <1>1 DEF InstallOpen, memVars, DiskInv, FlushInv
  <2>3. Installs
    BY <1>1, <2>1, <2>2 DEF InstallOpen, Installs, historyVars
  <2> QED BY <2>3, InstallKeeps
<1>2. CASE InstallFlush
  <2>1. phase = "up"
    BY <1>2 DEF InstallFlush, DiskInv, TypeInv, PhaseType
  <2>2. Installs
    BY <1>2, <2>1 DEF InstallFlush, Installs, historyVars, openVars
  <2> QED BY <2>2, InstallKeeps
<1>3. CASE InstallCompaction
  <2>1. phase = "up" /\ flush = 0
    BY <1>3 DEF InstallCompaction, DiskInv, TypeInv, PhaseType, EditInv
  <2>2. has_imm_' => imm_' # {}
    BY <1>3 DEF InstallCompaction, memVars, DiskInv, FlushInv
  <2>3. Installs
    BY <1>3, <2>1, <2>2 DEF InstallCompaction, Installs, historyVars, openVars
  <2> QED BY <2>3, InstallKeeps
<1> QED BY <1>1, <1>2, <1>3

\* LogAndApply fails in the background.
LEMMA DiskApplyFailsBackground ==
    ASSUME DiskInv, TypeInv', ApplyFailsBackground
    PROVE  DiskInv'
<1>1. /\ apply.owner # "open" /\ apply.pc \in {"append", "sync", "current"}
      /\ faults < MaxFaults /\ faults' = faults + 1
      /\ RecordOfFailedApply /\ UNCHANGED <<dir, older>>
      /\ apply' = NoApply /\ bg_error_' = TRUE /\ flush' = 0
      /\ IF apply.owner = "compaction"
         THEN c' = None /\ pending_outputs_' = pending_outputs_ \ {c.output}
         ELSE UNCHANGED <<c, pending_outputs_>>
      /\ UNCHANGED <<numberVars, memVars, openVars, current_, pinned, writes, hard>>
  BY DEF ApplyFailsBackground, ApplyError, Fault
<1>2. /\ apply'.pc = "none" /\ apply'.owner = "open" /\ apply'.edit.add = {}
      /\ apply'.edit.del = {}
  BY <1>1 DEF NoApply, Edit
<1>3. Runs /\ phase = "up" /\ MayCrash /\ manifest_file_number_ \in Numbers
  BY <1>1, NumbersAre
  DEF DiskInv, TypeInv, PhaseType, BgType, ApplyType, NumberType, Numbers, Runs, MayCrash
<1>4. /\ has_descriptor_ /\ apply.pc # "current" /\ ~reuse
      /\ dir.current = manifest_file_number_ /\ dir.current # 0
      /\ manifest_file_number_ < next_file_number_
  BY <1>3 DEF DiskInv, Descriptor, NoDir
<1>5. AppendsEdit \/ UNCHANGED diskVars
  <2>1. CASE apply.pc = "append"
    <3>1. PICK found \in {<<>>, <<apply.edit>>} : AppendEdit(found)
      BY <1>1, <1>4, <2>1 DEF RecordOfFailedApply
    <3>2. PICK M : M = Manifest(manifest_file_number_)
      OBVIOUS
    <3>3. data' = [data EXCEPT ![M] = @ \o found] /\ UNCHANGED <<dir, older, synced>>
      BY <1>4, <3>1, <3>2 DEF AppendEdit
    <3>4. CASE found = <<>>
      <4>1. M \in Files
        BY <1>3, <3>2, FileIs
      <4>2. data[M] \o <<>> = data[M]
        BY <4>1, ConcatEmptySeq DEF DiskInv, TypeInv, DiskType, FilesOK
      <4>3. data = [g \in Files |-> data[g]]
        BY DEF DiskInv, TypeInv, DiskType, FilesOK
      <4>4. data' = [data EXCEPT ![M] = data[M]]
        BY <3>3, <3>4, <4>2
      <4>5. data' = data
        BY <4>1, <4>3, <4>4
      <4> QED BY <3>3, <4>5 DEF diskVars
    <3>5. CASE found = <<apply.edit>>
      BY <3>2, <3>3, <3>5 DEF AppendsEdit
    <3> QED BY <3>1, <3>4, <3>5
  <2>2. CASE apply.pc # "append"
    BY <1>1, <2>2 DEF RecordOfFailedApply, diskVars
  <2> QED BY <2>1, <2>2
<1>6. PICK f : f = Manifest(manifest_file_number_)
  OBVIOUS
<1>7. f \in Files /\ \A n : f # TableFile(n)
  BY <1>3, <1>6, FileIs, FilesApart
<1>8. Only(f)
  <2>1. CASE AppendsEdit
    <3>1. PICK x : data' = [data EXCEPT ![f] = x]
      BY <1>6, <2>1 DEF AppendsEdit
    <3> QED BY <1>1, <1>7, <2>1, <3>1, OnlyWrites DEF AppendsEdit, DiskInv
  <2>2. CASE UNCHANGED diskVars
    <3>1. data' = data /\ synced' = synced /\ dir' = dir /\ older' = older
      BY <2>2 DEF diskVars
    <3> QED BY <1>7, <3>1, OnlyIs DEF DiskInv, Dirs
  <2> QED BY <1>5, <2>1, <2>2
<1>9. next_file_number_ <= next_file_number_'
  BY <1>1, NumbersKept DEF DiskInv, numberVars
<1>10. LiveOnDisk' /\ LiveBelow' /\ NoDir'
  <2>1. LiveTables' \subseteq LiveTables
    BY <1>1, <1>2 DEF LiveTables, Base
  <2>2. \A n \in LiveTables : Has(dir', n) /\ CompleteIn(n, data', synced')
    BY <1>3, <1>7, <1>8, LiveKept
  <2> QED BY <1>1, <1>3, <1>4, <1>9, <2>1, <2>2, LiveStays DEF NoDir
<1>11. EditInv' /\ FlushInv'
  BY <1>1, <1>2 DEF DiskInv, EditInv, FlushInv, memVars
<1>12. CompactionInv'
  BY <1>1, CompactionIs, NumbersAre DEF DiskInv, CompactionInv, numberVars
<1>13. /\ AllGood(Dirs', data', synced')
       /\ AllBelow(next_file_number_, Dirs', data')
       /\ AllBelow(Here'[Len(Here')].next, Dirs', data')
       /\ c' # None => FreshIn(c.output, Dirs', data')
  <2>1. c' # None => c' = c /\ apply.owner # "compaction" /\ FreshIn(c.output, Dirs, data)
    BY <1>1, <1>3 DEF DiskInv, Fresh
  <2>2. /\ apply.pc # "none"
        /\ \A n \in apply.edit.add : n < next_file_number_ /\ n < apply.edit.next
        /\ AllBelow(next_file_number_, Dirs, data) /\ AllBelow(apply.edit.next, Dirs, data)
    BY <1>1, <1>3, EditNumbers
  <2>3. CASE AppendsEdit
    <3>1. PICK Q : Q = data'[f]
      OBVIOUS
    <3>2. /\ AllGood(Dirs', data', synced')
          /\ \A N : AllBelow(N, Dirs, data) /\ (\A n \in apply.edit.add : n < N)
                => AllBelow(N, Dirs', data')
          /\ \A n : FreshIn(n, Dirs, data) /\ n \notin apply.edit.add
                    => FreshIn(n, Dirs', data')
          /\ Q[Len(Q)] = apply.edit
      BY <1>3, <1>4, <1>6, <2>2, <2>3, <3>1, AppendKeeps
    <3>3. Here' = Q
      BY <1>1, <1>4, <1>6, <3>1 DEF Here
    <3>4. c' # None => c.output \notin apply.edit.add
      BY <1>1, <2>1, <2>2, EditApart
    <3>5. c' # None => FreshIn(c.output, Dirs', data')
      BY <2>1, <3>2, <3>4
    <3> QED BY <2>2, <3>2, <3>3, <3>5
  <2>4. CASE UNCHANGED diskVars
    <3>1. Dirs' = Dirs /\ data' = data /\ synced' = synced /\ dir' = dir
      BY <2>4 DEF diskVars, Dirs
    <3>2. Here' = Here
      BY <3>1 DEF Here
    <3> QED BY <1>3, <1>4, <2>1, <2>2, <3>1, <3>2 DEF DiskInv, DirsGood, Horizon
  <2> QED BY <1>5, <2>3, <2>4
<1>14. DirsGood' /\ Horizon'
  BY <1>13 DEF DirsGood, Horizon
<1>15. Descriptor'
  BY <1>1, <1>2, <1>3, <1>4 DEF Descriptor, openVars, numberVars
<1>16. NamesBelow'
  BY <1>1, <1>2, <1>13 DEF NamesBelow, numberVars
<1>17. Fresh'
  BY <1>1, <1>13 DEF Fresh
<1>18. Replay' /\ NewManifest'
  BY <1>1, <1>2 DEF Replay, NewManifest
<1> QED BY <1>1, <1>3, <1>10, <1>11, <1>12, <1>14, <1>15, <1>16, <1>17, <1>18 DEF DiskInv, openVars
-----------------------------------------------------------------------------
(***************************************************************************)
(* Crashes, and opens that fail.                                           *)
(***************************************************************************)
LEMMA ForgetKeeps ==
    ASSUME TypeInv', Forget, DirsGood', Horizon', NoDir'
    PROVE  DiskInv'
<1>1. /\ phase' = "down" /\ c' = None /\ flush' = 0 /\ has_imm_' = FALSE /\ apply' = NoApply
  BY DEF Forget
<1>2. /\ apply'.owner = "open" /\ apply'.edit.del = {}
  BY <1>1 DEF NoApply, Edit
<1>3. ~Runs'
  BY <1>1 DEF Runs
<1>4. EditInv' /\ CompactionInv' /\ FlushInv'
  BY <1>1, <1>2 DEF EditInv, CompactionInv, FlushInv
<1>5. LiveOnDisk' /\ LiveBelow' /\ Descriptor' /\ NamesBelow' /\ Fresh' /\ Replay' /\ NewManifest'
  BY <1>3 DEF LiveOnDisk, LiveBelow, Descriptor, NamesBelow, Fresh, Replay, NewManifest
<1> QED BY <1>1, <1>4, <1>5 DEF DiskInv

LEMMA DiskForgotten ==
    ASSUME DiskInv, TypeInv', OpenFails \/ ProcessCrash
    PROVE  DiskInv'
<1>1. Forget /\ MayCrash /\ UNCHANGED diskVars
  BY DEF OpenFails, ProcessCrash, Fault, MayCrash
<1>2. Dirs' = Dirs /\ data' = data /\ synced' = synced /\ dir' = dir /\ older' = older
  BY <1>1 DEF Dirs, diskVars
<1>3. Here' = Here /\ phase' = "down"
  BY <1>1, <1>2 DEF Here, Forget
<1>4. DirsGood'
  BY <1>1, <1>2 DEF DiskInv, DirsGood
<1>5. Horizon'
  BY <1>1, <1>2, <1>3 DEF DiskInv, Horizon
<1>6. NoDir'
  BY <1>2, <1>3 DEF DiskInv, NoDir
<1> QED BY <1>1, <1>4, <1>5, <1>6, ForgetKeeps

LEMMA DiskApplyFailsOpen ==
    ASSUME DiskInv, TypeInv', ApplyFailsOpen
    PROVE  DiskInv'
<1>1. /\ apply.owner = "open" /\ apply.pc \in {"append", "sync", "current"}
      /\ RecordOfFailedApply /\ Forget /\ MayCrash
  BY DEF ApplyFailsOpen, ApplyError, Fault, MayCrash
<1>2. phase = "open" /\ Runs /\ manifest_file_number_ \in Numbers
  BY <1>1, NumbersAre DEF DiskInv, TypeInv, PhaseType, NumberType, Numbers, Runs
<1>3. ~has_descriptor_ /\ \A d \in Dirs : d.current < manifest_file_number_
  BY <1>1, <1>2 DEF DiskInv, Descriptor
<1>4. PICK f : f = Manifest(manifest_file_number_)
  OBVIOUS
<1>5. f \in Files
  BY <1>2, <1>4, FileIs
<1>6. UNCHANGED <<data, synced>> /\ ChangeDir([dir EXCEPT !.files = @ \ {f}])
  BY <1>3, <1>4 DEF ApplyFailsOpen, RecordOfFailedApply
<1>7. \A d \in Dirs : f \notin Uses(d, data)
  <2>1. \A d \in Dirs : d.current # manifest_file_number_
    BY <1>2, <1>3, NumbersAre
  <2> QED BY <1>4, <2>1, NotUsed DEF DiskInv
<1>8. Only(f) /\ Touches(f)
  BY <1>5, <1>6, <1>7, OnlyDeletes, OnlyTouches DEF DiskInv
<1>9. /\ AllGood(Dirs, data, synced) => AllGood(Dirs', data', synced')
      /\ \A N : AllBelow(N, Dirs, data) => AllBelow(N, Dirs', data')
  BY <1>8, TouchKeeps DEF DiskInv, TypeInv
<1>10. dir'.current = dir.current /\ dir.current # 0 /\ Here' = Here
  BY <1>2, <1>6, <1>8 DEF Only, DiskInv, NoDir, Here
<1>11. DirsGood'
  BY <1>1, <1>9 DEF DiskInv, DirsGood
<1>12. Horizon'
  BY <1>1, <1>9, <1>10 DEF DiskInv, Horizon
<1>13. NoDir'
  BY <1>10 DEF NoDir
<1> QED BY <1>1, <1>11, <1>12, <1>13, ForgetKeeps

LEMMA DiskMachineCrash ==
    ASSUME DiskInv, TypeInv', MachineCrash, ~CrashWhenNew
    PROVE  DiskInv'
<1>1. Forget /\ MayCrash /\ older' = {} /\ phase' = "down"
  BY DEF MachineCrash, Fault, MayCrash, Forget
<1>2. /\ AllGood(Dirs', data', synced')
      /\ dir'.current # 0 =>
             AllBelow(data'[Manifest(dir'.current)][Len(data'[Manifest(dir'.current)])].next,
                      Dirs', data')
  BY <1>1, CrashKeeps
<1>3. DirsGood' /\ NoDir'
  BY <1>1, <1>2 DEF DirsGood, NoDir
<1>4. Horizon'
  BY <1>2 DEF Horizon, Here
<1> QED BY <1>1, <1>3, <1>4, ForgetKeeps
-----------------------------------------------------------------------------
(***************************************************************************)
(* DB::Open.                                                               *)
(***************************************************************************)
\* A MANIFEST with one record, that names no table.
LEMMA EmptyManifest ==
    ASSUME NEW R, NEW e, R = <<e>>, e.next = 2, e.add = {}
    PROVE  /\ Len(R) = 1 /\ R[1].next = 2 /\ R[1].add = {} /\ DOMAIN R = {1}
           /\ TablesAt(R, 1) = {}
<1>1. /\ Len(R) = 1 /\ R[1] = e /\ DOMAIN R = {1}
  OBVIOUS
<1>2. TablesAt(R, 1) = {}
  BY <1>1 DEF TablesAt
<1> QED BY <1>1, <1>2

LEMMA DiskNewDB ==
    ASSUME DiskInv, TypeInv', NewDB
    PROVE  DiskInv'
<1>1. PICK f : f = Manifest(1)
  OBVIOUS
<1>2. PICK e : e = Edit(0, 2, 0, {}, {})
  OBVIOUS
<1>3. PICK R : R = <<e>>
  OBVIOUS
<1>4. PICK created : created = Create(f)
  OBVIOUS
<1>5. /\ phase = "down" /\ dir.current = 0 /\ older = {}
      /\ Written(f, R)
      /\ dir' = [created EXCEPT !.current = 1]
      /\ older' = older \cup {dir, created}
      /\ UNCHANGED <<numberVars, memVars, openVars, versionVars, bgVars, historyVars>>
  BY <1>1, <1>2, <1>3, <1>4 DEF NewDB, DiskInv, NoDir
<1>6. 1 \in Numbers /\ f \in Files
  BY <1>1, NumbersAre, FileIs DEF Numbers
<1>7. data'[f] = R /\ synced'[f] = 0
  BY <1>5, <1>6, FunctionChanges DEF Written, DiskInv, TypeInv, DiskType, FilesOK
<1>8. /\ created.current = 0 /\ dir'.current = 1 /\ f \in dir'.files
      /\ Dirs' = {dir, created, dir'}
  BY <1>4, <1>5 DEF Create, Dirs, DiskInv, TypeInv, DirsOK, DirType
<1>9. e.next = 2 /\ e.add = {}
  BY <1>2 DEF Edit
<1>10. /\ Len(R) = 1 /\ R[1].next = 2 /\ R[1].add = {} /\ DOMAIN R = {1}
       /\ TablesAt(R, 1) = {}
  BY <1>3, <1>9, EmptyManifest
<1>11. GoodManifest(dir', R, synced'[f], data', synced')
  <2>1. RecoversAt(1, dir', R, data', synced')
    BY <1>8, <1>10 DEF RecoversAt
  <2>2. \A k \in 1..Len(R) : k = 1
    BY <1>10
  <2> QED BY <1>8, <1>10, <2>1, <2>2 DEF GoodManifest
<1>12. GoodDir(dir', data', synced')
  BY <1>1, <1>7, <1>8, <1>11 DEF GoodDir
<1>13. AllGood(Dirs', data', synced')
  BY <1>5, <1>8, <1>12 DEF AllGood, GoodDir
<1>14. NamedIn(dir', data') = {}
  <2>1. data'[Manifest(dir'.current)] = R
    BY <1>1, <1>7, <1>8
  <2> QED BY <1>8, <1>10, <2>1 DEF NamedIn
<1>15. AllBelow(2, Dirs', data')
  <2>1. BelowIn(2, dir, data') /\ BelowIn(2, created, data')
    BY <1>5, <1>8 DEF BelowIn
  <2>2. BelowIn(2, dir', data')
    BY <1>8, <1>14 DEF BelowIn
  <2> QED BY <1>8, <2>1, <2>2 DEF AllBelow
<1>16. Here' = R
  BY <1>1, <1>7, <1>8 DEF Here
<1>17. DirsGood' /\ Horizon' /\ NoDir'
  <2>1. Here'[Len(Here')].next = 2
    BY <1>10, <1>16
  <2>2. Horizon'
    BY <1>15, <2>1 DEF Horizon
  <2> QED BY <1>8, <1>13, <2>2 DEF DirsGood, NoDir
<1>18. c = None /\ flush = 0 /\ apply = NoApply
  BY <1>5 DEF DiskInv, TypeInv, PhaseType
<1>19. apply.owner = "open" /\ apply.edit.del = {}
  BY <1>18 DEF NoApply, Edit
<1>20. EditInv' /\ CompactionInv' /\ FlushInv'
  BY <1>5, <1>18, <1>19
  DEF DiskInv, EditInv, CompactionInv, FlushInv, openVars, bgVars, memVars
<1>21. ~Runs' /\ phase' = "down"
  BY <1>5 DEF Runs, openVars
<1>22. LiveOnDisk' /\ LiveBelow' /\ Descriptor' /\ NamesBelow' /\ Fresh' /\ Replay'
       /\ NewManifest'
  BY <1>21 DEF LiveOnDisk, LiveBelow, Descriptor, NamesBelow, Fresh, Replay, NewManifest
<1> QED BY <1>17, <1>20, <1>21, <1>22 DEF DiskInv

\* The MANIFEST that CURRENT names can be read.
LEMMA ManifestReads ==
    ASSUME DiskInv, phase = "down", dir.current # 0, NEW R, R = Here
    PROVE  /\ Readable(R) /\ ReplayedNext(R) \in Nat
           /\ AllBelow(ReplayedNext(R), Dirs, data)
           /\ ReplayedTables(R) \subseteq Numbers
           /\ \A n \in ReplayedTables(R) :
                  Has(dir, n) /\ CompleteIn(n, data, synced) /\ n < ReplayedNext(R)
<1>1. dir \in Dirs /\ MayCrash
  BY DEF Dirs, MayCrash
<1>2. /\ dir.current \in Numbers /\ Manifest(dir.current) \in Files
      /\ synced[Manifest(dir.current)] \in Nat
      /\ synced[Manifest(dir.current)] <= Len(R)
      /\ Len(R) \in Nat /\ DOMAIN R = 1..Len(R)
  BY <1>1, ManifestOf DEF DiskInv, Here
<1>3. GoodManifest(dir, R, synced[Manifest(dir.current)], data, synced)
  BY <1>1 DEF DiskInv, DirsGood, AllGood, GoodDir, Here
<1>4. RecoversAt(Len(R), dir, R, data, synced) /\ Len(R) > 0
  <2>1. Len(R) > 0
    BY <1>3 DEF GoodManifest
  <2>2. Len(R) \in 1..Len(R)
    BY <1>2, <2>1
  <2> QED BY <1>2, <1>3, <2>1, <2>2 DEF GoodManifest
<1>5. ReplayedNext(R) = R[Len(R)].next /\ R[Len(R)].next # 0
  BY <1>2, <1>4, NextIsLast DEF RecoversAt
<1>6. ReplayedTables(R) = TablesAt(R, Len(R))
  BY <1>2, TablesAtFull
<1>7. ReplayedTables(R) \subseteq Numbers /\ ReplayedNext(R) \in Nat
  BY <1>2, ReplayedIs DEF DiskInv, Here
<1>8. AllBelow(ReplayedNext(R), Dirs, data)
  BY <1>1, <1>5 DEF DiskInv, Horizon
<1>9. \A n \in ReplayedTables(R) : Has(dir, n) /\ CompleteIn(n, data, synced)
  BY <1>4, <1>6 DEF RecoversAt
<1>10. \A n \in ReplayedTables(R) : n < ReplayedNext(R)
  <2>1. ReplayedTables(R) \subseteq NamedIn(dir, data)
    <3>1. ReplayedTables(R) \subseteq UNION {R[i].add : i \in DOMAIN R}
      BY DEF ReplayedTables
    <3> QED BY <3>1 DEF NamedIn, Here
  <2> QED BY <1>1, <1>8, <2>1 DEF AllBelow, BelowIn
<1>11. Readable(R)
  <2>1. \A n \in Numbers : Has(dir, n) => \E f \in dir.files : f[2] = n
    BY FileIs DEF Has
  <2> QED BY <1>5, <1>7, <1>9, <2>1 DEF Readable
<1> QED BY <1>7, <1>8, <1>9, <1>10, <1>11

LEMMA DiskOpenManifest ==
    ASSUME DiskInv, TypeInv', OpenManifest, ReuseFrom >= MaxFaults
    PROVE  DiskInv'
<1>1. PICK R : R = Here
  OBVIOUS
<1>2. /\ phase = "down" /\ dir.current # 0 /\ R = data[Manifest(dir.current)]
      /\ UNCHANGED <<diskVars, pinned, pending_outputs_, flush, c, bg_error_, historyVars>>
  BY <1>1 DEF OpenManifest, Here
<1>3. /\ Readable(R) /\ ReplayedNext(R) \in Nat
      /\ AllBelow(ReplayedNext(R), Dirs, data)
      /\ ReplayedTables(R) \subseteq Numbers
      /\ \A n \in ReplayedTables(R) :
             Has(dir, n) /\ CompleteIn(n, data, synced) /\ n < ReplayedNext(R)
  BY <1>1, <1>2, ManifestReads
<1>4. PICK N \in Nat : N = ReplayedNext(R)
  BY <1>3
<1>5. PICK r \in BOOLEAN, keep \in BOOLEAN :
           /\ r => faults >= ReuseFrom
           /\ keep => r
           /\ phase' = "open" /\ reuse' = r
           /\ current_' = ReplayedTables(R)
           /\ has_descriptor_' = keep
           /\ manifest_file_number_' = IF keep THEN dir.current ELSE N
           /\ next_file_number_' = N + 1
           /\ apply' = NoApply
           /\ UNCHANGED <<mem_, imm_, has_imm_, logfile_number_>>
  BY <1>2, <1>3, <1>4 DEF OpenManifest
<1>6. /\ apply'.pc = "none" /\ apply'.owner = "open" /\ apply'.edit.add = {}
      /\ apply'.edit.del = {}
  BY <1>5 DEF NoApply, Edit
<1>7. c = None /\ flush = 0 /\ pinned = {}
  BY <1>2 DEF DiskInv, TypeInv, PhaseType
<1>8. /\ dir' = dir /\ data' = data /\ synced' = synced /\ Dirs' = Dirs /\ Here' = Here
      /\ faults' = faults
  BY <1>2 DEF diskVars, Dirs, Here, historyVars
<1>9. MayCrash
  BY <1>2 DEF MayCrash
<1>10. DirsGood' /\ Horizon' /\ NoDir'
  BY <1>2, <1>8, <1>9 DEF DiskInv, DirsGood, Horizon, NoDir
<1>11. LiveTables' = ReplayedTables(R)
  BY <1>2, <1>5, <1>6, <1>7 DEF LiveTables, Base
<1>12. LiveOnDisk' /\ LiveBelow'
  <2>1. \A n \in ReplayedTables(R) : n < N + 1
    <3>1. \A n \in ReplayedTables(R) : n \in Nat /\ n < N
      BY <1>3, <1>4, NumbersAre
    <3> QED BY <3>1
  <2> QED BY <1>3, <1>5, <1>8, <1>11, <2>1 DEF LiveOnDisk, LiveBelow
<1>13. EditInv' /\ CompactionInv' /\ FlushInv' /\ Fresh'
  BY <1>2, <1>5, <1>6, <1>7 DEF DiskInv, EditInv, CompactionInv, FlushInv, Fresh
<1>14. Descriptor' /\ NamesBelow' /\ Replay' /\ NewManifest'
  <2>1. CASE ~MayCrash'
    BY <2>1 DEF Descriptor, NamesBelow, Replay, NewManifest
  <2>2. CASE MayCrash'
    <3>1. r = FALSE /\ keep = FALSE
      <4>1. faults < MaxFaults /\ faults \in Nat
        BY <1>5, <1>8, <2>2 DEF MayCrash, DiskInv, TypeInv, HistoryType
      <4>2. ~(faults >= ReuseFrom)
        BY <4>1, NumbersAre, OptionsAssumption
      <4> QED BY <1>5, <4>2
    <3>2. ~reuse' /\ ~has_descriptor_' /\ manifest_file_number_' = N
      BY <1>5, <3>1
    <3>3. \A d \in Dirs : d.current < N
      <4>1. N # 0
        BY <1>3, <1>4 DEF Readable
      <4>2. \A d \in Dirs : d.current # 0 => d.current < N
        BY <1>3, <1>4 DEF AllBelow, BelowIn
      <4> QED BY <4>1, <4>2
    <3>4. Descriptor'
      BY <1>4, <1>5, <1>6, <1>8, <3>2, <3>3 DEF Descriptor
    <3>5. AllBelow(N + 1, Dirs, data)
      BY <1>3, <1>4, BelowGrows DEF DiskInv
    <3>6. NamesBelow'
      BY <1>5, <1>6, <1>8, <3>5 DEF NamesBelow
    <3>7. Replay' /\ NewManifest'
      BY <1>6, <3>2 DEF Replay, NewManifest
    <3> QED BY <3>4, <3>6, <3>7
  <2> QED BY <2>1, <2>2
<1>15. phase' # "broken"
  BY <1>5
<1> QED BY <1>10, <1>12, <1>13, <1>14, <1>15 DEF DiskInv

\* Only a process that reuses the MANIFEST has nothing to commit.
LEMMA DiskOpenWithoutApply ==
    ASSUME DiskInv, TypeInv', OpenWithoutApply
    PROVE  DiskInv'
<1>1. /\ phase = "open" /\ phase' = "up" /\ apply.pc = "none" /\ has_descriptor_
      /\ apply.edit.add = {} /\ DeleteObsoleteFiles
      /\ UNCHANGED <<data, synced, numberVars, memVars, reuse, todo, versionVars, bgVars,
                   historyVars>>
  BY DEF OpenWithoutApply, Opened, SaveManifest
<1>2. Runs /\ apply.owner = "open" /\ flush = 0 /\ c = None /\ dir.current # 0
  BY <1>1 DEF Runs, DiskInv, TypeInv, PhaseType, NoDir
<1>3. ~MayCrash
  BY <1>1, <1>2 DEF DiskInv, Descriptor
<1>4. ~MayCrash'
  BY <1>1, <1>3 DEF MayCrash, historyVars
<1>5. /\ \A n \in Live : Has(dir, n) => Has(dir', n)
      /\ dir'.current = dir.current
  BY <1>1, DeleteLeaves DEF DiskInv
<1>6. LiveTables' \subseteq Live /\ LiveTables' = LiveTables
  BY <1>1 DEF LiveTables, Live, Base, bgVars, versionVars
<1>7. LiveOnDisk' /\ LiveBelow' /\ NoDir'
  BY <1>1, <1>2, <1>5, <1>6
  DEF DiskInv, LiveOnDisk, LiveBelow, NoDir, CompleteIn, numberVars
<1>8. EditInv' /\ CompactionInv' /\ FlushInv'
  BY <1>1, <1>2 DEF DiskInv, EditInv, CompactionInv, FlushInv, bgVars, memVars
<1>9. DirsGood' /\ Horizon' /\ Descriptor' /\ NamesBelow' /\ Fresh' /\ Replay' /\ NewManifest'
  BY <1>4 DEF DirsGood, Horizon, Descriptor, NamesBelow, Fresh, Replay, NewManifest
<1> QED BY <1>1, <1>7, <1>8, <1>9 DEF DiskInv
-----------------------------------------------------------------------------
DiskAndLogs == DiskInv /\ LogsRead

LEMMA DiskStutters ==
    ASSUME DiskInv, TypeInv', UNCHANGED vars
    PROVE  DiskInv'
<1>1. Dirs' = Dirs /\ Here' = Here /\ Mine' = Mine /\ Base' = Base /\ MayCrash' = MayCrash
      /\ Runs' = Runs
  BY DEF vars, diskVars, numberVars, bgVars, openVars, historyVars, Dirs, Here, Mine, Base,
         MayCrash, Runs
<1>2. LiveTables' = LiveTables /\ After' = After
  BY <1>1 DEF vars, versionVars, bgVars, LiveTables, After
<1>3. DirsGood' /\ Horizon' /\ NoDir' /\ LiveOnDisk' /\ LiveBelow'
  BY <1>1, <1>2 DEF DiskInv, vars, diskVars, numberVars, openVars, DirsGood, Horizon, NoDir,
                    LiveOnDisk, LiveBelow
<1>4. EditInv' /\ CompactionInv' /\ FlushInv' /\ Fresh'
  BY <1>1, <1>2 DEF DiskInv, vars, diskVars, numberVars, openVars, bgVars, versionVars, memVars,
                    EditInv, CompactionInv, FlushInv, Fresh
<1>5. Descriptor' /\ NamesBelow' /\ Replay' /\ NewManifest'
  BY <1>1, <1>2 DEF DiskInv, vars, diskVars, numberVars, openVars, bgVars, versionVars,
                    Descriptor, NamesBelow, Replay, NewManifest
<1> QED BY <1>3, <1>4, <1>5 DEF DiskInv, vars, openVars

LEMMA DiskStep ==
    ASSUME ReuseFrom >= MaxFaults, ~CrashWhenNew
    PROVE  DiskAndLogs /\ [Next]_vars => DiskAndLogs'
<1> SUFFICES ASSUME DiskInv, LogsRead, [Next]_vars
             PROVE  DiskInv' /\ LogsRead'
  BY DEF DiskAndLogs
<1>1. TypeInv /\ TypeInv'
  BY TypeStep DEF DiskInv
<1>2. CASE Next
  <2>1. LogsRead'
    BY <1>1, <1>2, LogsReadKept
  <2>2. CASE LogAndApply
    BY <1>1, <2>1, <2>2, DiskApplyAppend, DiskApplySync, DiskSetCurrentFile, DiskInstall,
       DiskApplyFailsOpen, DiskApplyFailsBackground DEF LogAndApply
  <2>3. CASE Running
    BY <1>1, <2>1, <2>3, DiskPut, DiskSwitchMemTable, DiskStartFlush, DiskFinishFlush, DiskFlushFails,
       DiskStartCompaction, DiskFinishCompaction, DiskQuietBackground DEF Running
  <2>4. CASE Opening
    BY <1>1, <2>1, <2>4, DiskNewDB, DiskOpenManifest, DiskReuseLog, DiskRecoverLogFile, DiskForgotten,
       DiskNewLog, DiskOpenApply, DiskOpenWithoutApply DEF Opening
  <2>5. CASE ProcessCrash \/ MachineCrash
    BY <1>1, <2>1, <2>5, DiskForgotten, DiskMachineCrash
  <2> QED BY <1>2, <2>1, <2>2, <2>3, <2>4, <2>5 DEF Next
<1>3. CASE UNCHANGED vars
  <2>1. LogsRead'
    BY <1>3 DEF vars, memVars, openVars, LogsRead
  <2> QED BY <1>1, <1>3, <2>1, DiskStutters
<1> QED BY <1>2, <1>3

LEMMA DiskInit == Init => DiskAndLogs
<1> SUFFICES ASSUME Init
             PROVE  DiskAndLogs
  OBVIOUS
<1>1. TypeInv
  BY TypeInit
<1>2. /\ dir.current = 0 /\ older = {} /\ phase = "down" /\ Dirs = {dir} /\ ~Runs
      /\ c = None /\ flush = 0 /\ has_imm_ = FALSE /\ logfile_number_ = 0
  BY DEF Init, Dirs, Runs
<1>3. apply.owner = "open" /\ apply.edit.del = {}
  BY DEF Init, NoApply, Edit
<1>4. DirsGood /\ Horizon /\ NoDir
  BY <1>2 DEF DirsGood, AllGood, GoodDir, Horizon, NoDir
<1>5. EditInv /\ CompactionInv /\ FlushInv
  BY <1>2, <1>3 DEF EditInv, CompactionInv, FlushInv
<1>6. LiveOnDisk /\ LiveBelow /\ Descriptor /\ NamesBelow /\ Fresh /\ Replay /\ NewManifest
  BY <1>2 DEF LiveOnDisk, LiveBelow, Descriptor, NamesBelow, Fresh, Replay, NewManifest
<1> QED BY <1>1, <1>2, <1>4, <1>5, <1>6 DEF DiskAndLogs, DiskInv, LogsRead

LEMMA DiskInvImplies == DiskAndLogs => TablesOnDisk /\ Openable
<1> SUFFICES ASSUME DiskInv
             PROVE  TablesOnDisk /\ Openable
  BY DEF DiskAndLogs
<1>1. ASSUME phase = "up",
             NEW n \in current_ \cup pinned \cup (IF c = None THEN {} ELSE c.base)
      PROVE  TableFile(n) \in dir.files /\ Contents(n) # {}
  BY <1>1 DEF DiskInv, LiveOnDisk, Runs, LiveTables, Base, Has, CompleteIn, Contents
<1>2. TablesOnDisk
  BY <1>1 DEF TablesOnDisk
<1> QED BY <1>2 DEF Openable, DiskInv

\* DiskInv holds in every state that is reached.
LEMMA DiskSafe ==
    ASSUME ReuseFrom >= MaxFaults, ~CrashWhenNew
    PROVE  Spec => []DiskAndLogs
<1>1. Init => DiskAndLogs
  BY DiskInit
<1>2. DiskAndLogs /\ [Next]_vars => DiskAndLogs'
  BY DiskStep
<1> QED BY <1>1, <1>2, PTL DEF Spec

\* Every table that the current version, a reader or the compaction under way may
\* read is on the disk and complete: DeleteObsoleteFiles never deletes one, and
\* LogAndApply installs no version with one that is not.  Assumed, as in the run
\* `recovery': reuse_logs is not set while another fault may come, and the machine
\* does not crash before the first MANIFEST, which NewDB does not sync, is on disk.
THEOREM TablesStay ==
    ASSUME ReuseFrom >= MaxFaults, ~CrashWhenNew
    PROVE  Spec => []TablesOnDisk
<1>1. DiskAndLogs => TablesOnDisk
  BY DiskInvImplies
<1> QED BY <1>1, DiskSafe, PTL

\* Whatever crashes of the process or of the machine leave, CURRENT names a MANIFEST
\* that VersionSet::Recover can read, and every table that it names is there.  The
\* assumptions of TablesStay are needed: with reuse_logs, DB::Open deletes tables on
\* the word of a MANIFEST record that is not synced; and see the run `new_db'.
THEOREM AlwaysOpens ==
    ASSUME ReuseFrom >= MaxFaults, ~CrashWhenNew
    PROVE  Spec => []Openable
<1>1. DiskAndLogs => Openable
  BY DiskInvImplies
<1> QED BY <1>1, DiskSafe, PTL
=============================================================================
