------------------------------ MODULE LogFormat ------------------------------
(***************************************************************************)
(* The log format: log::Writer cuts records into fragments that fit into   *)
(* blocks, log::Reader puts them together again, whatever a crash or bad   *)
(* storage has made of the file.  Logs and MANIFESTs are such files.       *)
(*                                                                         *)
(* A fragment is <<header, payload>>, and the payload bytes do not matter, *)
(* only where a fragment starts, how long it is and what has become of it. *)
(* A checksum that does not belong to its fragment never matches.  Where   *)
(* no intact header starts, the reader parses what it finds there: the     *)
(* length it reads is arbitrary.                                           *)
(*                                                                         *)
(* A definition that stands right before another one with the same         *)
(* parameters, and is used nowhere, is a faulty variant of it.             *)
(***************************************************************************)
EXTENDS Integers, Sequences, FiniteSets, SequencesExt

CONSTANTS
    BlockSize,      \* kBlockSize
    Sizes,          \* the sizes of records
    Offsets,        \* the values of initial_offset
    MaxRecords,     \* bound: records
    MaxEvents       \* bound: crashes, Writers made anew, failed appends, damages

HeaderSize == 7

ASSUME BlockAssumption == BlockSize \in Nat /\ BlockSize > HeaderSize
ASSUME BoundsAssumption ==
    /\ Sizes \subseteq Nat /\ Offsets \subseteq Nat
    /\ MaxRecords \in Nat /\ MaxEvents \in Nat

VARIABLES
    fragments,      \* the fragments in the file
    size,           \* the length of the file
    block_offset_,  \* of the Writer
    left,           \* bytes of the current record still to be written, or -1
    part,           \* fragments of the current record written so far
    written,        \* history: records begun, each with its start and if it is complete
    events,         \* history: what has happened to the file
    reading,        \* "no", "yes" or, at the end of the input, "done"
    pos,            \* where buffer_ begins: end_of_buffer_offset_ - buffer_.size()
    end_of_buffer_offset_,
    eof_,
    initial_offset_,
    resyncing_,
    scratch,        \* the fragments collected so far
    in_fragmented_record,
    out,            \* the records returned
    reported        \* Corruption was reported at these positions

fileVars   == <<fragments, size>>
writerVars == <<block_offset_, left, part, written>>
bufferVars == <<pos, end_of_buffer_offset_, eof_>>
recordVars == <<resyncing_, scratch, in_fragmented_record, out>>
readerVars == <<reading, bufferVars, initial_offset_, recordVars, reported>>
vars == <<fileVars, writerVars, events, readerVars>>

\* A fragment is "intact", or its "payload" or its "header" is damaged or cut off.
Fragment(at, len, type, rec, nth, state) ==
    [at |-> at, len |-> len, type |-> type, rec |-> rec, nth |-> nth, state |-> state]

End(f) == f.at + HeaderSize + f.len
BlockOf(offset) == offset \div BlockSize

Init ==
    /\ fragments = {} /\ size = 0
    /\ block_offset_ = 0 /\ left = -1 /\ part = 0 /\ written = <<>>
    /\ events = <<>>
    /\ reading = "no" /\ pos = 0 /\ end_of_buffer_offset_ = 0 /\ eof_ = FALSE
    /\ initial_offset_ = 0 /\ resyncing_ = FALSE
    /\ scratch = <<>> /\ in_fragmented_record = FALSE
    /\ out = <<>> /\ reported = {}

\* No Writer has been made for the file since the crash.
Closed == BlockSize + 1

Event(kind) == Len(events) < MaxEvents /\ events' = Append(events, kind)

-----------------------------------------------------------------------------
(***************************************************************************)
(* log::Writer.                                                            *)
(***************************************************************************)
AddRecord(n) ==
    /\ reading = "no" /\ left = -1 /\ block_offset_ # Closed /\ Len(written) < MaxRecords
    /\ left' = n /\ part' = 0
    /\ written' = Append(written, [start |-> -1, complete |-> FALSE])
    /\ UNCHANGED <<fileVars, block_offset_, events, readerVars>>

TrailerOfOneHeader(leftover) == leftover <= HeaderSize
TrailerIfFull(leftover) == leftover = 0
Trailer(leftover) == leftover < HeaderSize

\* One iteration of AddRecord's loop: where the fragment goes, and what it is.
NewFragment ==
    LET leftover == BlockSize - block_offset_
        skip  == IF Trailer(leftover) THEN leftover ELSE 0
        start == IF Trailer(leftover) THEN 0 ELSE block_offset_
        avail == BlockSize - start - HeaderSize
        len   == IF left < avail THEN left ELSE avail
        type  == IF part = 0 THEN IF len = left THEN "full" ELSE "first"
                 ELSE IF len = left THEN "last" ELSE "middle"
    IN  Fragment(size + skip, len, type, Len(written), part + 1, "intact")

BlockOffsetAfter(f) ==
    (IF Trailer(BlockSize - block_offset_) THEN 0 ELSE block_offset_) + HeaderSize + f.len

RecordStart(f) == IF part = 0 THEN f.at ELSE written[Len(written)].start

EmitPhysicalRecord ==
    /\ reading = "no" /\ left >= 0
    /\ LET f == NewFragment
       IN  /\ fragments' = fragments \cup {f}
           /\ size' = End(f)
           /\ block_offset_' = BlockOffsetAfter(f)
           /\ left' = IF left = f.len THEN -1 ELSE left - f.len
           /\ written' = [written EXCEPT ![Len(written)] =
                             [start |-> RecordStart(f), complete |-> left = f.len]]
    /\ part' = part + 1
    /\ UNCHANGED <<events, readerVars>>

\* What is left of the fragments if the file ends at n.
CutAt(n, frags) ==
    {IF End(f) <= n \/ f.state = "header" THEN f
     ELSE IF f.at + HeaderSize <= n THEN [f EXCEPT !.state = "payload"]
     ELSE [f EXCEPT !.state = "header"] : f \in {g \in frags : g.at < n}}

\* Append or Flush fails after some bytes; block_offset_ moves on all the same,
\* and the next record goes to the same file.
EmitFails ==
    /\ reading = "no" /\ left >= 0 /\ Event("append")
    /\ LET f == NewFragment
       IN  \E n \in size..End(f) - 1 :
           /\ size' = n
           /\ fragments' = CutAt(n, fragments \cup {f})
           /\ block_offset_' = BlockOffsetAfter(f)
           /\ written' = [written EXCEPT ![Len(written)] =
                             [start |-> RecordStart(f), complete |-> FALSE]]
    /\ left' = -1 /\ part' = 0
    /\ UNCHANGED readerVars

\* A crash leaves a prefix of the file.
Crash ==
    /\ reading = "no" /\ Event("crash")
    /\ \E n \in 0..size :
           /\ size' = n
           /\ fragments' = CutAt(n, fragments)
           /\ written' = [i \in DOMAIN written |->
                  [written[i] EXCEPT !.complete =
                      @ /\ \A f \in fragments : f.rec = i => End(f) <= n]]
    /\ left' = -1 /\ part' = 0
    /\ block_offset_' = Closed
    /\ UNCHANGED readerVars

OffsetOfNewFile(dest_length) == 0
OffsetOfReopened(dest_length) == dest_length % BlockSize

\* The Writer that reuse_logs makes for a file that exists.
ReopenWriter ==
    /\ reading = "no" /\ block_offset_ = Closed /\ Event("reopen")
    /\ block_offset_' = OffsetOfReopened(size)
    /\ UNCHANGED <<fileVars, left, part, written, readerVars>>

\* The storage damages a fragment.
Damage ==
    /\ reading = "no" /\ left = -1 /\ Event("damage")
    /\ \E f \in fragments, s \in {"payload", "header"} :
           /\ f.state = "intact"
           /\ fragments' = (fragments \ {f}) \cup {[f EXCEPT !.state = s]}
    /\ UNCHANGED <<size, writerVars, readerVars>>

-----------------------------------------------------------------------------
(***************************************************************************)
(* log::Reader.                                                            *)
(***************************************************************************)
\* SkipToInitialBlock: not a block of which only the trailer is left.
InitialBlock(offset) ==
    LET block == BlockOf(offset)
    IN  BlockSize * (IF offset % BlockSize > BlockSize - 6 THEN block + 1 ELSE block)

StartReading(offset) ==
    /\ reading = "no" /\ left = -1
    /\ reading' = "yes"
    /\ initial_offset_' = offset
    /\ resyncing_' = (offset > 0)
    /\ pos' = InitialBlock(offset) /\ end_of_buffer_offset_' = InitialBlock(offset)
    /\ UNCHANGED <<fileVars, writerVars, events, eof_, scratch, in_fragmented_record, out,
                   reported>>

BufferSize == end_of_buffer_offset_ - pos

\* The rest of the block is a trailer: read the next one.
ReadBlock ==
    /\ reading = "yes" /\ BufferSize < HeaderSize /\ ~eof_
    /\ LET begin == end_of_buffer_offset_
           got   == IF size <= begin THEN 0
                    ELSE IF size - begin < BlockSize THEN size - begin ELSE BlockSize
       IN  /\ pos' = begin
           /\ end_of_buffer_offset_' = begin + got
           /\ eof_' = (got < BlockSize)
    /\ UNCHANGED <<fileVars, writerVars, events, reading, initial_offset_, recordVars,
                   reported>>

\* ReportDrop: what was dropped began at these positions.
ReportableAfter(p) == p > initial_offset_
Reportable(p) == p >= initial_offset_
Report(positions) == reported' = reported \cup {p \in positions : Reportable(p)}

Stop == reading' = "done" /\ pos' = end_of_buffer_offset_

\* kEof: an incomplete header, or an incomplete record.
EndOfFile ==
    /\ reading = "yes" /\ BufferSize < HeaderSize /\ eof_
    /\ Stop
    /\ scratch' = <<>>
    /\ UNCHANGED <<fileVars, writerVars, events, end_of_buffer_offset_, eof_,
                   initial_offset_, resyncing_, in_fragmented_record, out, reported>>

Here == {f \in fragments : f.at = pos}

\* The lengths that the header at pos may have: that of the fragment, or any.
HeaderIntact == \E f \in Here : f.state \in {"intact", "payload"}
LengthAt == CHOOSE n \in {f.len : f \in Here} : TRUE
TooLong == IF HeaderIntact THEN {HeaderSize + LengthAt > BufferSize} ELSE BOOLEAN

AfterBlock == end_of_buffer_offset_
Payload(frags) == FoldSeq(LAMBDA f, n : n + f.len, 0, frags)

InFragmentedKept == in_fragmented_record
InFragmentedAfterBad == FALSE

\* kBadRecord: the rest of the block is dropped, and what was collected.
BadRecord(positions) ==
    /\ pos' = AfterBlock
    /\ resyncing_' = FALSE
    /\ in_fragmented_record' = InFragmentedAfterBad /\ scratch' = <<>>
    /\ Report(positions \cup (IF in_fragmented_record
                             THEN {end_of_buffer_offset_ - Payload(scratch)} ELSE {}))
    /\ UNCHANGED <<fileVars, writerVars, events, reading, end_of_buffer_offset_, eof_,
                   initial_offset_, out>>

CanParse == reading = "yes" /\ BufferSize >= HeaderSize

MayHaveDiedAnywhere == TRUE
MayHaveDied == eof_

\* "Assume the writer died in the middle of writing the record."
WriterDied ==
    /\ CanParse /\ MayHaveDied /\ TRUE \in TooLong
    /\ Stop
    /\ scratch' = <<>>
    /\ UNCHANGED <<fileVars, writerVars, events, end_of_buffer_offset_, eof_,
                   initial_offset_, resyncing_, in_fragmented_record, out, reported>>

BadLength == CanParse /\ ~MayHaveDied /\ TRUE \in TooLong /\ BadRecord({pos})

\* What is taken for a header may be zeros, as in a preallocated file.
ZeroHeader == CanParse /\ ~HeaderIntact /\ BadRecord({})

ChecksumMismatch ==
    /\ CanParse /\ FALSE \in TooLong
    /\ \A f \in Here : f.state # "intact"
    /\ BadRecord({pos})

Good(f) == CanParse /\ f.at = pos /\ f.state = "intact" /\ End(f) <= end_of_buffer_offset_

\* A fragment before initial_offset_ is a bad record too, but only it is dropped.
TooEarly(f) ==
    /\ Good(f) /\ f.at < initial_offset_
    /\ pos' = End(f)
    /\ resyncing_' = FALSE
    /\ in_fragmented_record' = InFragmentedAfterBad /\ scratch' = <<>>
    /\ UNCHANGED <<fileVars, writerVars, events, reading, end_of_buffer_offset_, eof_,
                   initial_offset_, out, reported>>

Resync(f) ==
    /\ Good(f) /\ f.at >= initial_offset_
    /\ resyncing_ /\ f.type \in {"middle", "last"}
    /\ pos' = End(f)
    /\ resyncing_' = (f.type = "middle")
    /\ UNCHANGED <<fileVars, writerVars, events, reading, end_of_buffer_offset_, eof_,
                   initial_offset_, scratch, in_fragmented_record, out, reported>>

Beginning(f) ==
    /\ f.type \in {"full", "first"}
    /\ IF in_fragmented_record /\ Payload(scratch) > 0
       THEN Report({End(f) - Payload(scratch)})    \* "partial record without end"
       ELSE UNCHANGED reported
    /\ IF f.type = "full"
       THEN /\ out' = Append(out, <<f>>)
            /\ scratch' = <<>> /\ in_fragmented_record' = FALSE
       ELSE /\ scratch' = <<f>> /\ in_fragmented_record' = TRUE
            /\ UNCHANGED out

Continuation(f) ==
    /\ f.type \in {"middle", "last"}
    /\ IF ~in_fragmented_record
       THEN /\ Report({f.at + HeaderSize})         \* "missing start of fragmented record"
            /\ UNCHANGED <<scratch, in_fragmented_record, out>>
       ELSE /\ UNCHANGED reported
            /\ IF f.type = "middle"
               THEN /\ scratch' = Append(scratch, f)
                    /\ UNCHANGED <<in_fragmented_record, out>>
               ELSE /\ out' = Append(out, Append(scratch, f))
                    /\ scratch' = <<>> /\ in_fragmented_record' = FALSE

\* ReadRecord's switch; when it returns a record, the caller calls it again.
Assemble(f) ==
    /\ Good(f) /\ f.at >= initial_offset_
    /\ resyncing_ => f.type \in {"full", "first"}
    /\ pos' = End(f)
    /\ resyncing_' = FALSE
    /\ Beginning(f) \/ Continuation(f)
    /\ UNCHANGED <<fileVars, writerVars, events, reading, end_of_buffer_offset_, eof_,
                   initial_offset_>>

ReadRecord ==
    \/ ReadBlock \/ EndOfFile
    \/ WriterDied \/ BadLength \/ ZeroHeader \/ ChecksumMismatch
    \/ \E f \in fragments : TooEarly(f) \/ Resync(f) \/ Assemble(f)

Write ==
    \/ \E n \in Sizes : AddRecord(n)
    \/ EmitPhysicalRecord \/ EmitFails \/ ReopenWriter

Next ==
    \/ Write \/ Crash \/ Damage
    \/ \E offset \in Offsets : StartReading(offset)
    \/ ReadRecord

Spec == Init /\ [][Next]_vars

-----------------------------------------------------------------------------
(***************************************************************************)
(* Properties.                                                             *)
(***************************************************************************)
FragmentType ==
    [at : Nat, len : Nat, type : {"full", "first", "middle", "last"},
     rec : 1..MaxRecords, nth : Nat \ {0}, state : {"intact", "payload", "header"}]

\* Every field has its type; no length is negative.
TypeOK ==
    /\ fragments \subseteq FragmentType /\ size \in Nat
    /\ block_offset_ \in 0..Closed /\ left \in Nat \cup {-1} /\ part \in Nat
    /\ written \in Seq([start : Nat \cup {-1}, complete : BOOLEAN])
    /\ reading \in {"no", "yes", "done"} /\ eof_ \in BOOLEAN
    /\ pos \in 0..end_of_buffer_offset_
    /\ resyncing_ \in BOOLEAN /\ in_fragmented_record \in BOOLEAN
    /\ scratch \in Seq(FragmentType) /\ out \in Seq(Seq(FragmentType))
    /\ reported \subseteq Nat

Happened(kind) == \E i \in DOMAIN events : events[i] = kind

\* No fragment crosses the end of a block, also in a file that a new Writer goes
\* on with.
FitsInBlock ==
    ~Happened("append") => \A f \in fragments : BlockOf(f.at) = BlockOf(End(f) - 1)

Whole(record) ==
    /\ \A i \in DOMAIN record : record[i].rec = record[1].rec /\ record[i].nth = i
    /\ Last(record).type \in {"full", "last"}

\* Whatever has happened to the file, the reader returns whole records in the
\* order of their writing, and none twice.
ReturnsWholeRecords ==
    /\ \A i \in DOMAIN out : Whole(out[i])
    /\ \A i, j \in DOMAIN out : i < j => out[i][1].rec < out[j][1].rec

Wanted(i) == written[i].complete /\ written[i].start >= initial_offset_
Returned == {out[i][1].rec : i \in DOMAIN out}

\* The reader of a log that was written to its end, or up to a crash, returns every
\* complete record at or after initial_offset_, and reports nothing as corrupted.
ReadsEverything ==
    /\ reading = "done"
    /\ ~Happened("append") /\ ~Happened("damage") /\ ~Happened("reopen")
    =>  /\ Returned = {i \in DOMAIN written : Wanted(i)}
        /\ initial_offset_ = 0 => reported = {}

BlocksOf(i) == {BlockOf(f.at) : f \in {g \in fragments : g.rec = i}}
Damaged == {f \in fragments : f.state # "intact"}
Lost(i) == Wanted(i) /\ i \notin Returned

\* Damage costs no more than the records that have a part in a damaged block.
DamageIsLocal ==
    reading = "done" /\ ~Happened("append") =>
        \A i \in DOMAIN written :
            Lost(i) => \E f \in Damaged : BlockOf(f.at) \in BlocksOf(i)

\* Damage that costs a record is reported, unless lengths cannot be trusted.  (With
\* an initial_offset_ a drop that begins before it is not.)
LossIsReported ==
    /\ reading = "done" /\ initial_offset_ = 0
    /\ ~Happened("append") /\ ~Happened("crash")
    =>
        \A i \in DOMAIN written :
            Lost(i) /\ (\A f \in Damaged : f.state = "payload") =>
                \E p \in reported : BlockOf(p) \in BlocksOf(i)
=============================================================================
