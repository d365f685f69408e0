---------------------------- MODULE MCRouteFib ----------------------------
(* Instances of RouteFib for TLC: two vrfs, three encapsulations.           *)
EXTENDS RouteFib
CONSTANTS v1, v2, p1, p2, ea, eb, ec

\* ea and eb differ in their tunnel and share gateway 1; ec is a TGRE tunnel
\* without a gateway.
Gw == (ea :> 1) @@ (eb :> 1) @@ (ec :> 0)
Tun == (ea :> 1) @@ (eb :> 2) @@ (ec :> 3)
Separate == (v1 :> {ea, eb}) @@ (v2 :> {ec})
StaticV1 == (v1 :> {1}) @@ (v2 :> {})
AllFaults == {"none", "nhop_mem", "nhop_hash", "neigh_mem", "neigh_hash",
              "neigh_oid", "nh_oid", "rib", "fib"}

\* The keys sit at the positions in which a first use of both hashes puts them.
InOrder == [rib |-> (<<v1, p1>> :> 0) @@ (<<v1, p2>> :> 1) @@ (<<v2, p1>> :> 2) @@ (<<v2, p2>> :> 3),
            nhop |-> (ea :> 0) @@ (eb :> 1) @@ (ec :> 2)]
Placed == {InOrder}
============================================================================
