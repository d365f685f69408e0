----------------------------- MODULE MCOffload ------------------------------
(* Two flows, one slot, two buckets; every header stack once. *)
EXTENDS Offload

CONSTANTS f1, f2

MCCandidates == [f \in Flow |-> {0}]
MCTestKeys == <<>>
MCCrc16 == [f \in Flow |-> IF f = f1 THEN 1 ELSE 2]
MCHash1 == [f \in Flow |-> IF f = f1 THEN 2 ELSE 3]
MCCuckoo == [f \in Flow |-> IF f = f1 THEN <<1, 1, 2, 1>> ELSE <<1, 1, 1, 2>>]

Plain(f)  == [etherType |-> "ipv4", protocol |-> "other", innerEther |-> "other",
              innerProtocol |-> "other", outer |-> f, inner |-> f]
Tagged(f) == [Plain(f) EXCEPT !.protocol = "cuckoo"]
Tunnel(f, g) == [Plain(f) EXCEPT !.protocol = "vxlan", !.innerEther = "ipv4",
                                 !.innerProtocol = "cuckoo", !.inner = g]
MCTraffic ==
  {Plain(f1), Tagged(f1), Tagged(f2), Tunnel(f1, f2), [Plain(f1) EXCEPT !.etherType = "other"]}
=============================================================================
