--------------------------- MODULE MCForwarding ---------------------------
(* An instance of Forwarding for TLC.  ea goes through a gateway, eb uses   *)
(* the default one, ec is a TGRE tunnel.                                    *)
EXTENDS Forwarding
CONSTANTS ea, eb, ec

Gw == (ea :> 1) @@ (eb :> 0) @@ (ec :> 0)
TwoPaths == [t \in RibTypes |-> 2]
Given == ({ea, eb} \X {"RT_DEFAULT"}) \cup ({ea, ec} \X {"RT_MROUTE"})
============================================================================
