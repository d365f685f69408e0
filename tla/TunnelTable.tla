---------------------------- MODULE TunnelTable ----------------------------
(***************************************************************************)
(* What the agent's VRF and tunnel calls promise their callers: a set of   *)
(* named VRFs, and for every tunnel at most one VRF that its packets       *)
(* belong to.  A call that cannot be served changes nothing.               *)
(***************************************************************************)
EXTENDS FiniteSets, Naturals

CONSTANTS Name, TunnelKey, MaxVrfs

VARIABLES names,    \* the VRFs that exist
          owner     \* partial function from tunnels to names

TTInit == names = {} /\ owner = [k \in {} |-> {}]

Create(n) ==
  /\ n \notin names /\ Cardinality(names) < MaxVrfs
  /\ names' = names \cup {n} /\ UNCHANGED owner

(* A VRF takes its tunnels with it. *)
Remove(n) ==
  LET o == owner IN
  /\ n \in names
  /\ names' = names \ {n}
  /\ owner' = [k \in {x \in DOMAIN o : o[x] # n} |-> o[k]]

MapTo(n, k) ==
  LET o == owner IN
  /\ n \in names /\ k \notin DOMAIN o
  /\ owner' = [x \in DOMAIN o \cup {k} |-> IF x = k THEN n ELSE o[x]]
  /\ UNCHANGED names

Unmap(k) ==
  LET o == owner IN
  /\ k \in DOMAIN o
  /\ owner' = [x \in DOMAIN o \ {k} |-> o[x]]
  /\ UNCHANGED names

TTNext ==
  \/ \E n \in Name : Create(n) \/ Remove(n) \/ \E k \in TunnelKey : MapTo(n, k)
  \/ \E k \in TunnelKey : Unmap(k)

TTSpec == TTInit /\ [][TTNext]_<<names, owner>>
=============================================================================
