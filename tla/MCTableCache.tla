---------------------------- MODULE MCTableCache ----------------------------
(***************************************************************************)
(* Instances of TableCache for TLC.                                        *)
(***************************************************************************)
EXTENDS TableCache, TLC

CONSTANTS k1, k2, k3

\* Blocks of two sizes.
SmallAndLarge == (k1 :> 1) @@ (k2 :> 1) @@ (k3 :> 2)

Symmetry == Permutations(Readers)

\* Memory is handed out again as soon as it can be: of equal choices TLC takes one.
LowestFree ==
    \A h \in Handles :
        entry[h] = Freed /\ entry'[h] # Freed => \A g \in 1..h - 1 : entry[g] # Freed
=============================================================================
