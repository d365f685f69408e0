---------------------------- MODULE MCHalSignal -----------------------------
(* One slot, one flow: enough for a callback to hold the mutex. *)
EXTENDS HalSignal

CONSTANT f1

MCCandidates == [f \in Flow |-> {0}]
MCTestKeys == <<f1>>
=============================================================================
