------------------------------- MODULE MCHal --------------------------------
(* Two slots, two or three flows; counters wrap at three. *)
EXTENDS Hal, TLC

CONSTANTS f1, f2, f3

MCCandidates == [f \in Flow |-> IF f = f2 THEN {1} ELSE {0, 1}]
MCOneSlot == [f \in Flow |-> {0}]
MCTestKeys == <<f2>>
MCNoTestKeys == <<>>

\* f1 and f3 have the same candidates and are not used by the test.
Symm == Permutations({f1, f3})
=============================================================================
