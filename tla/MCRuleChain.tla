---------------------------- MODULE MCRuleChain ----------------------------
(* An instance of RuleChain for TLC: two VRF slots, routes in the first. *)
EXTENDS RuleChain, TLC
CONSTANTS p1, ea, eb, ga, gb, red, blue

Gw == (ea :> ga) @@ (eb :> gb)
Tun == (ea :> 1) @@ (eb :> 2)
OwnEncap == (1 :> {ea, eb}) @@ (2 :> {})
StaticGw == (1 :> {ga, gb}) @@ (2 :> {})
Keys == ("agent" :> {<<"VXLAN", 0>>}) @@ ("agent-bak" :> {<<"VXLAN", 0>>, <<"TGRE", 1>>})
RealVni == "agent" :> {<<"VXLAN", 1>>}
TunedBak == ("agent" :> {}) @@ ("agent-bak" :> {red, blue})
NobodyTuned == "agent" :> {}
AgentFaults == {"none", "tun_mem", "tun_hash", "hw_tunnel", "hw_route", "hw_nhop", "hw_neigh"}
AtKeys == {[rib |-> (<<1, p1>> :> 0) @@ (<<2, p1>> :> 1), nhop |-> n] :
             n \in {(ea :> 0) @@ (eb :> 1), (ea :> 1) @@ (eb :> 0)}}
(* Nothing tells the names apart, nor the next hops with their gateways:   *)
(* tunnel infos are only compared for equality, and AtKeys has both orders.*)
Symm == Permutations({red, blue})
          \cup {(ea :> eb) @@ (eb :> ea) @@ (ga :> gb) @@ (gb :> ga)}
============================================================================
