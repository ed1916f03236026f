------------------------------ MODULE MapIterator ------------------------------
(***************************************************************************)
(* What an iterator over a database promises: it moves over the keys of    *)
(* the map that was the database when it was made.                         *)
(***************************************************************************)
EXTENDS Integers, FiniteSets

CONSTANTS
    UserKeys,
    None            \* no value; not valid

VARIABLES
    map,            \* the value of each key, or None
    position        \* the key and value the iterator is at, or None

vars == <<map, position>>

Present == {u \in UserKeys : map[u] # None}

\* The iterator is at the least, or greatest, of the keys.
AtLeast(keys) ==
    position' = IF keys = {} THEN None
                ELSE LET u == CHOOSE v \in keys : \A w \in keys : v <= w IN <<u, map[u]>>
AtGreatest(keys) ==
    position' = IF keys = {} THEN None
                ELSE LET u == CHOOSE v \in keys : \A w \in keys : v >= w IN <<u, map[u]>>

Init == map = [u \in UserKeys |-> None] /\ position = None

NewIterator == map' \in [UserKeys -> Nat \cup {None}] /\ position' = None

SeekToFirst == AtLeast(Present)
SeekToLast == AtGreatest(Present)
Seek(target) == AtLeast({u \in Present : u >= target})
MoveNext == position # None /\ AtLeast({u \in Present : u > position[1]})
MovePrev == position # None /\ AtGreatest({u \in Present : u < position[1]})

Next ==
    \/ NewIterator
    \/ /\ SeekToFirst \/ SeekToLast \/ MoveNext \/ MovePrev \/ \E u \in UserKeys : Seek(u)
       /\ UNCHANGED map

Spec == Init /\ [][Next]_vars
=============================================================================
