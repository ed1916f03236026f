-------------------------------- MODULE DBIter --------------------------------
(***************************************************************************)
(* A memtable and an iterator over it: DBImpl::Write's thread inserts      *)
(* entries into the skip list while DBIter turns the entries that are in   *)
(* there, several of one user key, newer than its snapshot, or deletions,  *)
(* into the map that the snapshot is.                                      *)
(*                                                                         *)
(* An internal key is a number: they are ordered by user key, and those of *)
(* one user key by falling sequence numbers.  A value is the sequence      *)
(* number that wrote it.                                                   *)
(***************************************************************************)
EXTENDS SkipList

CONSTANTS
    UserKeys,       \* positive numbers
    MaxWrites,      \* bound: sequence numbers
    None            \* not valid; no value

ASSUME UserKeysAssumption == UserKeys \subseteq Nat \ {0} /\ MaxWrites \in Nat
ASSUME NoneAssumption == None \notin Nat /\ None \notin Nat \X Nat

VARIABLES
    types,          \* the type of the entry with each sequence number
    last_sequence_, \* the sequence number that has been published
    sequence_,      \* of the iterator
    direction_,
    valid_,
    saved_key_,     \* also the key to skip, 0 if clear
    saved_value_,
    skipping,       \* of FindNextUserEntry
    value_type,     \* of FindPrevUserEntry
    pc,             \* where the iterator is, "idle" between operations
    from            \* history: what the iterator was at before the operation

writeVars == <<types, last_sequence_>>
dbIterVars == <<sequence_, direction_, valid_, saved_key_, saved_value_, skipping,
                value_type, pc, from>>
vars == <<stores, inserting, committed, iteratorVars, writeVars, dbIterVars>>

InternalKey(u, s) == u * (MaxWrites + 1) + MaxWrites - s
UserKey(k) == k \div (MaxWrites + 1)
Sequence(k) == MaxWrites - (k % (MaxWrites + 1))
Type(k) == types[Sequence(k)]

ASSUME KeysAssumption == \A u \in UserKeys, s \in 1..MaxWrites : InternalKey(u, s) \in Keys

Init ==
    /\ ListInit
    /\ types = <<>> /\ last_sequence_ = 0
    /\ sequence_ = 0 /\ direction_ = "kForward" /\ valid_ = FALSE
    /\ saved_key_ = 0 /\ saved_value_ = 0
    /\ skipping = FALSE /\ value_type = "kTypeDeletion"
    /\ pc = "idle" /\ from = None

-----------------------------------------------------------------------------
(***************************************************************************)
(* The thread that writes.                                                 *)
(***************************************************************************)
Add(u, type, height) ==
    /\ Len(types) < MaxWrites
    /\ NewNode(InternalKey(u, Len(types) + 1), height)
    /\ types' = Append(types, type)
    /\ UNCHANGED <<last_sequence_, dbIterVars>>

Insert == LinkLevel /\ UNCHANGED <<writeVars, dbIterVars>>

\* SetLastSequence and Unlock: after the last entry of a batch group.
Publish ==
    /\ inserting = NoInsert /\ last_sequence_ < Len(types)
    /\ last_sequence_' = Len(types)
    /\ Unlock
    /\ UNCHANGED <<stores, inserting, iteratorVars, types, dbIterVars>>

-----------------------------------------------------------------------------
(***************************************************************************)
(* DBIter.  Its loops are steps, each up to the next call of iter_.        *)
(***************************************************************************)
\* What the user sees.
At ==
    IF ~valid_ THEN None
    ELSE IF direction_ = "kForward" THEN <<UserKey(node_), Sequence(node_)>>
    ELSE <<saved_key_, saved_value_>>

unchangedByIter == <<stores, inserting, committed, writeVars, sequence_>>

NewIterator ==
    /\ pc = "idle" /\ last_sequence_ > 0
    /\ view' = ViewAfterLock /\ find' = NoFind /\ node_' = NULL
    /\ sequence_' = last_sequence_
    /\ direction_' = "kForward" /\ valid_' = FALSE
    /\ saved_key_' = 0 /\ saved_value_' = 0
    /\ UNCHANGED <<stores, inserting, committed, writeVars, skipping, value_type, pc, from>>

Begin(label) == pc = "idle" /\ sequence_ > 0 /\ pc' = label /\ from' = At

\* The first step of FindNextUserEntry(skip, ...), of FindPrevUserEntry.
FindNext(skip) == Begin("FindNextUserEntry") /\ skipping' = skip /\ UNCHANGED value_type
FindPrev == Begin("FindPrevUserEntry") /\ value_type' = "kTypeDeletion" /\ UNCHANGED skipping

Seek(target) ==
    /\ FindNext(FALSE)
    /\ direction_' = "kForward" /\ saved_key_' = 0 /\ saved_value_' = 0
    /\ IterSeek(InternalKey(target, sequence_))
    /\ UNCHANGED <<unchangedByIter, valid_>>

SeekToFirst ==
    /\ FindNext(FALSE)
    /\ direction_' = "kForward" /\ saved_value_' = 0
    /\ IterSeekToFirst
    /\ UNCHANGED <<unchangedByIter, valid_, saved_key_>>

SeekToLast ==
    /\ FindPrev
    /\ direction_' = "kReverse" /\ saved_value_' = 0
    /\ IterSeekToLast
    /\ UNCHANGED <<unchangedByIter, valid_, saved_key_>>

MoveNext ==
    /\ valid_ /\ FindNext(TRUE)
    /\ direction_' = "kForward"
    /\ IF direction_ = "kReverse"
       THEN /\ IF node_ = NULL THEN IterSeekToFirst ELSE IterNext
            /\ UNCHANGED saved_key_
       ELSE saved_key_' = UserKey(node_) /\ UNCHANGED iteratorVars
    /\ UNCHANGED <<unchangedByIter, valid_, saved_value_>>

MovePrev ==
    /\ valid_
    /\ IF direction_ = "kForward"
       THEN /\ Begin("Prev")
            /\ saved_key_' = UserKey(node_)
            /\ IterPrev
            /\ UNCHANGED <<skipping, value_type>>
       ELSE FindPrev /\ UNCHANGED <<saved_key_, iteratorVars>>
    /\ UNCHANGED <<unchangedByIter, valid_, saved_value_, direction_>>

Searching == FindStep /\ UNCHANGED <<stores, inserting, committed, writeVars, dbIterVars>>

\* iter_ has finished its move.
Arrived(label) == pc = label /\ find = NoFind

Visible(k) == Sequence(k) <= sequence_

HiddenBefore(k) == UserKey(k) < saved_key_
Hidden(k) == UserKey(k) <= saved_key_

\* The operation ends, and with it its local variables.
Return ==
    /\ pc' = "idle" /\ from' = None
    /\ skipping' = FALSE /\ value_type' = "kTypeDeletion"
    /\ UNCHANGED iteratorVars

FindNextUserEntry ==
    /\ Arrived("FindNextUserEntry")
    /\ \/ /\ node_ = NULL
          /\ valid_' = FALSE /\ saved_key_' = 0
          /\ Return
       \/ /\ node_ # NULL
          /\ Visible(node_) /\ Type(node_) = "kTypeValue" /\ ~(skipping /\ Hidden(node_))
          /\ valid_' = TRUE /\ saved_key_' = 0
          /\ Return
       \/ /\ node_ # NULL
          /\ Visible(node_) /\ Type(node_) = "kTypeDeletion"
          /\ saved_key_' = UserKey(node_) /\ skipping' = TRUE
          /\ IterNext
          /\ UNCHANGED <<valid_, value_type, pc, from>>
       \/ /\ node_ # NULL
          /\ Visible(node_) => Type(node_) = "kTypeValue" /\ skipping /\ Hidden(node_)
          /\ IterNext
          /\ UNCHANGED <<saved_key_, skipping, valid_, value_type, pc, from>>
    /\ UNCHANGED <<unchangedByIter, direction_, saved_value_>>

\* The loop of Prev() that turns round: back to the entries before the current key.
TurnRound ==
    /\ Arrived("Prev")
    /\ \/ /\ node_ = NULL
          /\ valid_' = FALSE /\ saved_key_' = 0 /\ saved_value_' = 0
          /\ Return
          /\ UNCHANGED direction_
       \/ /\ node_ # NULL /\ UserKey(node_) >= saved_key_
          /\ IterPrev
          /\ UNCHANGED <<valid_, saved_key_, saved_value_, direction_, skipping, value_type,
                         pc, from>>
       \/ /\ node_ # NULL /\ UserKey(node_) < saved_key_
          /\ direction_' = "kReverse"
          /\ pc' = "FindPrevUserEntry"
          /\ UNCHANGED <<iteratorVars, valid_, saved_key_, saved_value_, skipping, value_type,
                         from>>
    /\ UNCHANGED unchangedByIter

BeforeAnySaved(k) == value_type # "kTypeDeletion"
\* A value of a greater key has been found, and this entry is of another key.
BeforeSaved(k) == value_type # "kTypeDeletion" /\ UserKey(k) < saved_key_

EndOfReverse ==
    IF value_type = "kTypeDeletion"
    THEN valid_' = FALSE /\ saved_key_' = 0 /\ saved_value_' = 0 /\ direction_' = "kForward"
    ELSE valid_' = TRUE /\ UNCHANGED <<saved_key_, saved_value_, direction_>>

FindPrevUserEntry ==
    /\ Arrived("FindPrevUserEntry")
    /\ \/ /\ node_ = NULL \/ (Visible(node_) /\ BeforeSaved(node_))
          /\ EndOfReverse
          /\ Return
       \/ /\ node_ # NULL /\ Visible(node_) /\ ~BeforeSaved(node_)
          /\ value_type' = Type(node_)
          /\ saved_key_' = IF Type(node_) = "kTypeDeletion" THEN 0 ELSE UserKey(node_)
          /\ saved_value_' = IF Type(node_) = "kTypeDeletion" THEN 0 ELSE Sequence(node_)
          /\ IterPrev
          /\ UNCHANGED <<valid_, direction_, skipping, pc, from>>
       \/ /\ node_ # NULL /\ ~Visible(node_)
          /\ IterPrev
          /\ UNCHANGED <<valid_, direction_, saved_key_, saved_value_, skipping, value_type,
                         pc, from>>
    /\ UNCHANGED unchangedByIter

-----------------------------------------------------------------------------
User ==
    \/ NewIterator
    \/ SeekToFirst \/ SeekToLast \/ \E u \in UserKeys : Seek(u)
    \/ MoveNext \/ MovePrev

Iterate == Searching \/ FindNextUserEntry \/ TurnRound \/ FindPrevUserEntry

Next ==
    \/ \E u \in UserKeys, type \in {"kTypeValue", "kTypeDeletion"}, height \in 1..MaxHeight :
           Add(u, type, height)
    \/ Insert \/ Publish
    \/ User \/ Iterate

Spec == Init /\ [][Next]_vars
FairSpec == Spec /\ WF_vars(Iterate)

-----------------------------------------------------------------------------
(***************************************************************************)
(* Properties.                                                             *)
(***************************************************************************)
\* Every field has its type, and an internal key is one of an entry.
TypeOK ==
    /\ types \in Seq({"kTypeValue", "kTypeDeletion"}) /\ last_sequence_ \in 0..Len(types)
    /\ committed \in 0..Len(stores) /\ view \in 0..Len(stores)
    /\ Inserted \subseteq Keys /\ \A k \in Inserted : Sequence(k) \in DOMAIN types
    /\ node_ \in Inserted \cup {NULL}
    /\ find.op \in {"none", "FindGreaterOrEqual", "FindLessThan", "FindLast"}
    /\ find.x \in Inserted \cup {head_} /\ find.level \in 0..MaxHeight - 1
    /\ sequence_ \in 0..last_sequence_ /\ saved_key_ \in UserKeys \cup {0}
    /\ saved_value_ \in 0..sequence_
    /\ direction_ \in {"kForward", "kReverse"} /\ {valid_, skipping} \subseteq BOOLEAN
    /\ pc \in {"idle", "FindNextUserEntry", "Prev", "FindPrevUserEntry"}

\* The map at the snapshot: the newest entry of each key, unless it is a deletion.
VisibleTo(u) == {Sequence(k) : k \in {n \in Inserted : UserKey(n) = u /\ Visible(n)}}
Snapshot ==
    [u \in UserKeys |->
        IF VisibleTo(u) = {} \/ types[Max(VisibleTo(u))] = "kTypeDeletion" THEN None
        ELSE Max(VisibleTo(u))]

\* Whatever is written meanwhile and whatever the reader's processor sees of it, the
\* iterator moves over the map of its snapshot, forward, back and round.
Map == INSTANCE MapIterator WITH map <- Snapshot, position <- IF pc = "idle" THEN At ELSE from
MovesOverTheSnapshot == Map!Spec

\* Every operation of the iterator ends, however much is written meanwhile.
OperationsEnd == pc # "idle" ~> pc = "idle"
=============================================================================
