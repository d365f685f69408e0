----------------------------- MODULE RuleChain -----------------------------
(***************************************************************************)
(* shc_swTohw_rule (agent/entry_api.c): a flow's software entries are      *)
(* looked up one after the other and each lookup also writes, or deletes,  *)
(* the hardware entry it found: tunnel -> vrf, route -> next hop, next hop *)
(* -> neighbour, neighbour -> MAC.  A step that fails ends the call and    *)
(* leaves the entries of the steps before it.                              *)
(*                                                                         *)
(* A MAC is represented by the neighbour <<vrf, gateway>> it was given to. *)
(* The code's output pointer ethhdr is uninitialised; the model takes it   *)
(* to point to storage of its own.                                         *)
(***************************************************************************)
EXTENDS VrfTunnel

CONSTANTS Src,         \* source addresses of flows
          Vni          \* VNIs callers ask a rule for

VARIABLE rule          \* the last rule call: arguments, VRF it was run for and
                       \* the lines of tunnel_map.c whose assertion was false

cvars == <<avars, rule>>

NoRule == [op |-> "none", vni |-> 0, vrf |-> 0, src |-> 0, dst |-> 0,
           failed |-> {}]

RuleInit == VrfInit /\ rule = NoRule

-----------------------------------------------------------------------------
(* All members of ntb_tunnel_id_t share their storage and the initialiser  *)
(* sets common_id, the last one, to 0.                                     *)
KeyOf(vni) == <<"VXLAN", 0>>

(* The result of the fib, the blackhole without a route. *)
FibResult(v, p) ==
  IF <<v, p>> \in DOMAIN dp.fib THEN dp.res[dp.fib[<<v, p>>]] ELSE dp.res[Blackhole]

(* The hardware entries.  path is not part of a route entry: it says which *)
(* next hop the entry was written for.                                     *)
HwRoute(h, k, n, path, op, fails) ==
  HwWrite(h, "route", k, [nhop_id |-> n, path |-> path], op, fails)

HwNhop(h, n, path, op, fails) ==
  HwWrite(h, "nhop", n.nh_oid, [encap |-> path, neigh_id |-> n.neigh_oid], op, fails)

HwNeigh(h, id, k, op, fails) == HwWrite(h, "neigh", id, k, op, fails)

(* Mutation: the status of the next-hop entry is dropped. *)
LookupIgnoresNhop(h, v, src, p, op, f) ==
  LET paths == FibResult(v, p).mpath
      n == dp.nhop[Head(paths)]
      o1 == HwRoute(h, <<v, src, p>>, n.nh_oid, Head(paths), op, f = "hw_route")
  IN CASE paths = <<>> -> [hw |-> h, ret |-> Crash]
       [] paths # <<>> /\ o1.ret # OK -> o1
       [] OTHER -> [HwNhop(o1.hw, n, Head(paths), op, f = "hw_nhop") EXCEPT !.ret = OK]

(* mpath[0] of the blackhole is NULL: an add reads it first of all, a      *)
(* delete after it has removed the route entry.                            *)
RouteLookup(h, v, src, p, op, f) ==
  LET paths == FibResult(v, p).mpath
      n == dp.nhop[Head(paths)]
      o1 == HwRoute(h, <<v, src, p>>, n.nh_oid, Head(paths), op, f = "hw_route")
  IN CASE op = "add" /\ paths = <<>> -> [hw |-> h, ret |-> Crash]
       [] ~(op = "add" /\ paths = <<>>) /\ o1.ret # OK -> o1
       [] op = "del" /\ paths = <<>> /\ o1.ret = OK -> [o1 EXCEPT !.ret = Crash]
       [] OTHER -> HwNhop(o1.hw, n, Head(paths), op, f = "hw_nhop")

(* Only a static neighbour has F_arp_valid. *)
NeighLookup(h, v, g, op, f) ==
  LET k == <<v, g>> IN
  CASE k \notin DOMAIN dp.neigh -> [hw |-> h, ret |-> "ENOENT"]
    [] k \in DOMAIN dp.neigh /\ ~dp.neigh[k].static -> [hw |-> h, ret |-> "INCOMPLETE"]
    [] OTHER -> HwNeigh(h, dp.neigh[k].neigh_oid, k, op, f = "hw_neigh")

(* The status of the tunnel's hardware entry is asserted to be an error    *)
(* and then dropped: the call goes on whether the entry was written or not.*)
TunnelLookup(h, k, op, f, junk) ==
  LET id == VrfIdOf(k, junk)
      o == IF op = "add" THEN HwTunnelAdd(h, k, id, f = "hw_tunnel")
           ELSE HwTunnelDel(h, k, f = "hw_tunnel")
      wrong == (IF o.ret # OK THEN {} ELSE {IF op = "add" THEN 239 ELSE 243})
                 \cup (IF GetById(id) # 0 THEN {} ELSE {247})
  IN IF k \in DOMAIN tun THEN [hw |-> o.hw, vrf |-> GetById(id), failed |-> wrong]
     ELSE [hw |-> h, vrf |-> 0, failed |-> {}]

SwToHw(v, h, src, p, op, f) ==
  LET r == RouteLookup(h, v, src, p, op, f) IN
  CASE v = 0 -> [hw |-> h, ret |-> Crash]      \* vrf_dp is NULL
    [] v # 0 /\ r.ret # OK -> r
    [] OTHER -> NeighLookup(r.hw, v, Gateway[Head(FibResult(v, p).mpath)], op, f)

SwTohwRule(vni, src, p, op, f, junk) ==
  LET k == KeyOf(vni)
      t == TunnelLookup(hw, k, op, f, junk)
      o == SwToHw(t.vrf, t.hw, src, p, op, f)
  IN /\ tree = "agent" /\ Usable(k)
     /\ hw' = o.hw /\ ret' = o.ret /\ dp' = Fresh
     /\ rule' = [op |-> op, vni |-> vni, vrf |-> t.vrf, src |-> src, dst |-> p,
                 failed |-> t.failed]
     /\ UNCHANGED <<tree, vrfs, vrf_n, tun, heap>>

-----------------------------------------------------------------------------
(* The route calls reach a VRF through ntb_vrf_lookup, so only valid slots.*)
(* A gateway may get its static MAC before any route uses it; the          *)
(* neighbour then has object id 0 for ever.                                *)
RouteCalls ==
  /\ \E v \in {x \in Vrf : vrfs[x].valid} :
       \/ \E p \in Prefix, e \in EncapOf[v], t \in RibTypes, pos \in HashPos :
            \/ RouteNhopInsert(v, p, e, t, "none", pos)
            \/ RouteNhopDelete(v, p, e, t, "none", pos)
       \/ \E g \in Static[v] : OlNeighAddStatic(v, g, "none")
  /\ UNCHANGED <<tree, vrfs, vrf_n, tun, heap, hw>>

RuleNext ==
  /\ ret # Crash
  /\ \/ (VrfNext \/ RouteCalls) /\ rule' = NoRule
     \/ \E vni \in Vni, src \in Src, p \in Prefix, op \in {"add", "del"} :
        \E f \in Faults \cap {"none", "hw_tunnel", "hw_route", "hw_nhop", "hw_neigh"},
           junk \in Junk(KeyOf(vni)) : SwTohwRule(vni, src, p, op, f, junk)

RuleSpec == RuleInit /\ [][RuleNext]_cvars

-----------------------------------------------------------------------------
(* Type correctness of slots, tunnels and hardware tables. *)
RuleTypeOK ==
  /\ \A v \in Vrf : /\ vrfs[v].name \in Name \cup {""} /\ vrfs[v].valid \in BOOLEAN
                    /\ vrfs[v].internal_ip \in IntIp \cup {0}
                    /\ vrfs[v].route_mac \in Mac \cup {FakeMac, 0}
                    /\ vrfs[v].tunnel_cnt \in 0 .. Cardinality(Addr)
                    /\ ToSet(vrfs[v].tunnel_rmap) \subseteq Addr
  /\ vrf_n \in 0 .. Cardinality(Vrf)
  /\ DOMAIN tun \subseteq TunnelKey /\ DOMAIN heap \subseteq Addr
  /\ DOMAIN hw.tunnel \subseteq TunnelKey /\ DOMAIN hw.route \subseteq Vrf \X Src \X Prefix
  /\ DOMAIN hw.nhop \subseteq 1 .. OidMax /\ DOMAIN hw.neigh \subseteq 0 .. OidMax

(* The reverse list of a VRF, its tunnel_cnt, the hash and the heap are    *)
(* updated one by one by map, unmap and the destruction of a VRF: a live   *)
(* tunnel_i is in the list of its own VRF alone and exactly once, that VRF *)
(* is valid, and the counters agree.                                       *)
TunnelsAgree ==
  /\ \A a \in DOMAIN heap :
       /\ heap[a].key \in DOMAIN tun /\ tun[heap[a].key] = a
       /\ {v \in Vrf : a \in ToSet(vrfs[v].tunnel_rmap)} = {heap[a].vrf_id}
       /\ vrfs[heap[a].vrf_id].valid
  /\ \A v \in Vrf :
       /\ ToSet(vrfs[v].tunnel_rmap) \subseteq DOMAIN heap
       /\ vrfs[v].tunnel_cnt = Len(vrfs[v].tunnel_rmap)
       /\ vrfs[v].tunnel_cnt = Cardinality(ToSet(vrfs[v].tunnel_rmap))
  /\ vrf_n = Cardinality({v \in Vrf : vrfs[v].valid})

(* A slot is taken over without being cleared (ntb_vrf_dp_ctor resets only *)
(* three fields): the VRF that gets it finds no route, next hop, tunnel or *)
(* internal address of its predecessor.  Static neighbours are not part of *)
(* it: nothing deletes them, and the new VRF finds them.                   *)
NewVrfIsEmpty ==
  [][\A v \in Vrf : ~vrfs[v].valid /\ vrfs'[v].valid =>
       /\ vrfs'[v].internal_ip = 0 /\ vrfs'[v].tunnel_rmap = <<>>
       /\ \A a \in DOMAIN heap' : heap'[a].vrf_id # v
       /\ \A k \in DOMAIN dp'.rib \cup DOMAIN dp'.fib : k[1] # v
       /\ dp'.rib_cnt[v] = 0
       /\ EncapOf[v] \cap DOMAIN dp'.nhop = {}]_cvars

(* Hardware entries outlive the software objects they were written for and *)
(* refer to each other by object id.  While VRFs share no encapsulation, a *)
(* route entry never leads to another next hop than the one it was written *)
(* for, nor that one, by an id of its own, to another MAC than its         *)
(* gateway's, however routes, next hops and static neighbours have come    *)
(* and gone and whichever rule calls failed half way.  Id 0 is left out:   *)
(* all neighbours created before a route share it (neigh.c:177).           *)
HwChainSound ==
  \A r \in DOMAIN hw.route :
    hw.route[r].nhop_id \in DOMAIN hw.nhop =>
      LET n == hw.nhop[hw.route[r].nhop_id] IN
      /\ n.encap = hw.route[r].path
      /\ n.neigh_id \in DOMAIN hw.neigh \ {0} =>
           hw.neigh[n.neigh_id] = <<r[1], Gateway[n.encap]>>

(* A rule call that returns 0 has written the three entries whose status   *)
(* it looks at (route, next hop and neighbour), and the next hop is the one *)
(* software forwards the flow to.  The tunnel's entry is there just if its *)
(* write succeeded, which line 239 asserts it did not: no later step of    *)
(* the call takes it away.                                                 *)
RuleResolves ==
  [][rule'.op = "add" /\ ret' = OK =>
       LET r == <<rule'.vrf, rule'.src, rule'.dst>>
           path == Head(dp'.res[dp'.fib[<<rule'.vrf, rule'.dst>>]].mpath)
       IN /\ r \in DOMAIN hw'.route /\ hw'.route[r].nhop_id \in DOMAIN hw'.nhop
          /\ hw'.nhop[hw'.route[r].nhop_id].encap = path
          /\ hw'.nhop[hw'.route[r].nhop_id].neigh_id \in DOMAIN hw'.neigh
          /\ 239 \in rule'.failed => KeyOf(rule'.vni) \in DOMAIN hw'.tunnel]_cvars

(* The tunnels callers may use and the VRFs they lead to are the table     *)
(* that the calls promise, also when slots and addresses are reused.       *)
LiveNames == {vrfs[v].name : v \in {x \in Vrf : vrfs[x].valid}}
Live == {k \in DOMAIN tun : ~Dangling(k)}
Owner == [k \in Live |-> vrfs[heap[tun[k]].vrf_id].name]

TT == INSTANCE TunnelTable WITH
        MaxVrfs <- Cardinality(Vrf), names <- LiveNames, owner <- Owner
RefinesTunnelTable == TT!TTSpec

(* tunnel_map.c:180: ntb_tunnel_unmap_vrf deletes an entry: when it frees  *)
(* the tunnel_i of a VRF that stays, the tunnel is gone from the hash.     *)
UnmapDeletesEntry ==
  [][\A a \in DOMAIN heap \ DOMAIN heap' :
       vrfs'[heap[a].vrf_id].valid => heap[a].key \notin DOMAIN tun']_cvars

(* entry_api.c:30: the lookup of a tunnel that is mapped yields its VRF.   *)
RuleFindsVrf ==
  [][rule' # NoRule /\ <<"VXLAN", rule'.vni>> \in DOMAIN tun =>
       rule'.vrf = heap[tun[<<"VXLAN", rule'.vni>>]].vrf_id]_cvars
=============================================================================
