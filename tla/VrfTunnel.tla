----------------------------- MODULE VrfTunnel -----------------------------
(***************************************************************************)
(* VRF slots (agent/vrf.c) and the tunnel map (agent/tunnel_map.c), over   *)
(* the route tables of RouteFib, whose Vrf is here the set of slot numbers *)
(* 1 .. NTB_NR_VRF (vrf_id).                                               *)
(*                                                                         *)
(* vrf_hash_tbl maps a tunnel to the address of its tunnel_i.  Addresses   *)
(* are explicit because the two trees of the agent release them            *)
(* differently: agent/ frees tunnel_i and keeps its key (the call of       *)
(* __tunnel_unmap is commented out), agent-bak/ deletes the key on unmap   *)
(* but not when the VRF goes.  A read through an address that has been     *)
(* freed yields any vrf id (the input junk).                               *)
(***************************************************************************)
EXTENDS RouteFib

CONSTANTS
  Name,         \* VRF names
  TunnelKeyOf,  \* TunnelKeyOf[t]: the tunnels <<type, id>> callers use in tree t
  Addr,         \* addresses rte_zmalloc hands out, numbers
  Tuned,        \* Tuned[t]: the VRFs whose addresses callers set in tree t
  IntIp,        \* internal addresses they set
  Mac,          \* route MACs they set
  FakeMac,      \* the MAC of ntb_fake_mac_get
  Trees,        \* the trees of the agent that are considered
  ReuseKeys     \* TRUE: callers use a tunnel again after it was released

ASSUME TreesAssumption == Trees \subseteq {"agent", "agent-bak"}

(* Slot 0 is NULL, a VRF without a name is a free slot, memory is finite,  *)
(* and no caller uses the type 0 that an unset tunnel id has.              *)
ASSUME VrfAssumption ==
  /\ Vrf \subseteq Nat \ {0} /\ IsFiniteSet(Vrf)
  /\ Addr \subseteq Nat /\ IsFiniteSet(Addr)
  /\ "" \notin Name
  /\ \A t \in Trees : /\ <<"INVALID", 0>> \notin TunnelKeyOf[t]
                      /\ Tuned[t] \subseteq Name

VARIABLES
  tree,         \* which copy of the agent runs
  vrfs,         \* g_ntb_vrfs
  vrf_n,        \* g_ntb_vrf_n
  tun,          \* vrf_hash_tbl: tunnel -> address
  heap,         \* live tunnel_i: address -> record
  hw            \* the four hardware tables, partial functions

TunnelKey == UNION {TunnelKeyOf[t] : t \in Trees}

avars == <<vars, tree, vrfs, vrf_n, tun, heap, hw>>

Crash == "CRASH"      \* the process is gone
Empty == [x \in {} |-> 0]

Idle == [name |-> "", valid |-> FALSE, internal_ip |-> 0, route_mac |-> 0,
         tunnel_rmap |-> <<>>, tunnel_cnt |-> 0]

VrfInit ==
  /\ RouteInit
  /\ tree \in Trees
  /\ vrfs = [v \in Vrf |-> Idle] /\ vrf_n = 0
  /\ tun = Empty /\ heap = Empty
  /\ hw = [tunnel |-> Empty, route |-> Empty, nhop |-> Empty, neigh |-> Empty]

-----------------------------------------------------------------------------
(* The HAL's tables refuse to add a key they have and to delete one they   *)
(* have not; fails is a failure of the device.                             *)
HwWrite(h, t, k, x, op, fails) ==
  CASE fails \/ (op = "add" <=> k \in DOMAIN h[t]) ->
         [hw |-> h, ret |-> "LOAD_TO_P4_FAIL"]
    [] ~fails /\ op = "add" /\ k \notin DOMAIN h[t] ->
         [hw |-> [h EXCEPT ![t] = Put(@, k, x)], ret |-> OK]
    [] OTHER -> [hw |-> [h EXCEPT ![t] = Del(@, k)], ret |-> OK]

(* For a GRE tunnel the entry gets the id of the tunnel as its vrf. *)
HwTunnelAdd(h, k, id, fails) ==
  HwWrite(h, "tunnel", k, IF k[1] = "VXLAN" THEN id ELSE k[2], "add", fails)
HwTunnelDel(h, k, fails) == HwWrite(h, "tunnel", k, 0, "del", fails)

-----------------------------------------------------------------------------
(* VRFs.                                                                   *)

(* Slot 0 stands for NULL. *)
LookupVrf(n) ==
  LET s == {v \in Vrf : vrfs[v].valid /\ vrfs[v].name = n}
  IN IF s = {} THEN 0 ELSE Min(s)

GetById(id) == IF id \in Vrf /\ vrfs[id].valid THEN id ELSE 0

VrfIdLookup(n) ==
  /\ ret' = IF LookupVrf(n) = 0 THEN "VRF_NOT_EXIST" ELSE OK
  /\ dp' = Fresh /\ UNCHANGED <<tree, vrfs, vrf_n, tun, heap, hw>>

(* ntb_vrf_dp_ctor leaves internal_ip as it is. *)
DpCtor(r, n) == [r EXCEPT !.name = n, !.valid = TRUE, !.route_mac = FakeMac,
                          !.tunnel_rmap = <<>>, !.tunnel_cnt = 0]

VrfAdd(n) ==
  LET free == {v \in Vrf : ~vrfs[v].valid} IN
  /\ UNCHANGED <<tree, tun, heap, hw>>
  /\ \/ /\ LookupVrf(n) # 0
        /\ ret' = OK /\ dp' = Fresh /\ UNCHANGED <<vrfs, vrf_n>>
     \/ /\ LookupVrf(n) = 0 /\ free = {}
        /\ ret' = "VRF_NOENT" /\ dp' = Fresh /\ UNCHANGED <<vrfs, vrf_n>>
     \/ /\ LookupVrf(n) = 0 /\ free # {}
        /\ vrfs' = [vrfs EXCEPT ![Min(free)] = DpCtor(@, n)]
        /\ vrf_n' = vrf_n + 1
        /\ dp' = [Fresh EXCEPT !.neigh_cnt[Min(free)] = 0]
        /\ ret' = OK

CleanupForgets(v) == UNCHANGED <<heap, tun>>        \* mutation

(* Every tunnel_i of the list is freed.  type and id were never stored, so *)
(* agent-bak deletes the key <<INVALID, 0>> instead of the tunnel's own.   *)
MapCleanup(v) ==
  /\ heap' = [a \in DOMAIN heap \ ToSet(vrfs[v].tunnel_rmap) |-> heap[a]]
  /\ tun' = IF tree = "agent-bak" /\ vrfs[v].tunnel_rmap # <<>>
            THEN Del(tun, <<"INVALID", 0>>) ELSE tun

(* Mutation: the loop counts one tunnel more than the list holds. *)
DtorCountsOneMore(r) == [r EXCEPT !.name = "", !.valid = FALSE, !.internal_ip = 0,
                                  !.tunnel_rmap = <<>>,
                                  !.tunnel_cnt = @ - Len(r.tunnel_rmap) - 1]

DpDtor(r) == [r EXCEPT !.name = "", !.valid = FALSE, !.internal_ip = 0,
                       !.tunnel_rmap = <<>>,
                       !.tunnel_cnt = @ - Len(r.tunnel_rmap)]

VrfDel(n, pos) ==
  LET v == LookupVrf(n) IN
  /\ ret' = OK /\ UNCHANGED <<tree, hw>>
  /\ \/ /\ v = 0
        /\ dp' = Fresh /\ UNCHANGED <<vrfs, vrf_n, tun, heap>>
     \/ /\ v # 0
        /\ dp' = Cleanup(Fresh, v, pos)
        /\ MapCleanup(v)
        /\ vrfs' = [vrfs EXCEPT ![v] = DpDtor(@)]
        /\ vrf_n' = vrf_n - 1

SetField(n, field, x) ==
  LET v == LookupVrf(n) IN
  /\ ret' = IF v = 0 THEN "VRF_NOT_EXIST" ELSE OK
  /\ vrfs' = IF v = 0 THEN vrfs ELSE [vrfs EXCEPT ![v][field] = x]
  /\ dp' = Fresh /\ UNCHANGED <<tree, vrf_n, tun, heap, hw>>

VrfIntipSet(n, ip) == SetField(n, "internal_ip", ip)
VrfIntipUnset(n) == VrfIntipSet(n, 0)
VrfRmacSet(n, mac) == SetField(n, "route_mac", mac)

VrfRmacUnset(n, mac) ==
  LET v == LookupVrf(n)
      same == v # 0 /\ vrfs[v].route_mac = mac
  IN /\ ret' = CASE v = 0 -> "VRF_NOT_EXIST"
                 [] v # 0 /\ ~same -> "INVAL_PARAM"
                 [] OTHER -> OK
     /\ vrfs' = IF same THEN [vrfs EXCEPT ![v].route_mac = FakeMac] ELSE vrfs
     /\ dp' = Fresh /\ UNCHANGED <<tree, vrf_n, tun, heap, hw>>

-----------------------------------------------------------------------------
(* Tunnels.                                                                *)

(* Its tunnel_i has been freed, and its address perhaps given to another. *)
Dangling(k) == tun[k] \notin DOMAIN heap \/ heap[tun[k]].key # k
Usable(k) == (k \in DOMAIN tun /\ Dangling(k)) => ReuseKeys

Junk(k) == IF k \in DOMAIN tun /\ Dangling(k) THEN Vrf \cup {0} ELSE {0}

(* The vrf_id read through the pointer the hash holds. *)
VrfIdOf(k, junk) == IF tun[k] \in DOMAIN heap THEN heap[tun[k]].vrf_id ELSE junk

(* heap[a].key is not in the code (the fields are never set): it tells an  *)
(* address from the tunnel it was allocated for.                           *)
MapNew(v, k, f) ==
  LET a == Min(Addr \ DOMAIN heap) IN
  \/ /\ f = "tun_mem" \/ Addr \subseteq DOMAIN heap
     /\ ret' = "NOMEM" /\ UNCHANGED <<vrfs, tun, heap>>
  \/ /\ f = "tun_hash" /\ ~(Addr \subseteq DOMAIN heap)
     /\ ret' = "TUNNEL_MAP_NOSPACE" /\ UNCHANGED <<vrfs, tun, heap>>
  \/ /\ f \notin {"tun_mem", "tun_hash"} /\ ~(Addr \subseteq DOMAIN heap)
     /\ heap' = Put(heap, a, [key |-> k, vrf_id |-> v])
     /\ tun' = Put(tun, k, a)
     /\ vrfs' = [vrfs EXCEPT ![v].tunnel_rmap = <<a>> \o @, ![v].tunnel_cnt = @ + 1]
     /\ ret' = OK

(* Mutation: a tunnel is mapped without looking whether it is in use. *)
MapOverwrites(n, k, f, junk) ==
  LET v == LookupVrf(n) IN
  /\ Usable(k) /\ v # 0
  /\ dp' = Fresh /\ UNCHANGED <<tree, vrf_n, hw>>
  /\ MapNew(v, k, f)

TunnelMapVrf(n, k, f, junk) ==
  LET v == LookupVrf(n) IN
  /\ Usable(k)
  /\ dp' = Fresh /\ UNCHANGED <<tree, vrf_n, hw>>
  /\ \/ /\ v = 0
        /\ ret' = "VRF_NOT_EXIST" /\ UNCHANGED <<vrfs, tun, heap>>
     \/ /\ v # 0 /\ k \in DOMAIN tun
        /\ ret' = IF VrfIdOf(k, junk) = v THEN OK ELSE "TUNNEL_INUSED"
        /\ UNCHANGED <<vrfs, tun, heap>>
     \/ /\ v # 0 /\ k \notin DOMAIN tun
        /\ MapNew(v, k, f)

(* SLIST_REMOVE of an element that is not in the list, or of a NULL vrf,   *)
(* walks off its end.                                                      *)
Release(k, v, keys) ==
  \/ /\ ~(v # 0 /\ tun[k] \in ToSet(vrfs[v].tunnel_rmap))
     /\ ret' = Crash /\ UNCHANGED <<vrfs, tun, heap>>
  \/ /\ v # 0 /\ tun[k] \in ToSet(vrfs[v].tunnel_rmap)
     /\ vrfs' = [vrfs EXCEPT ![v].tunnel_rmap = RemoveFirst(@, tun[k]),
                             ![v].tunnel_cnt = @ - 1]
     /\ heap' = Del(heap, tun[k])
     /\ tun' = keys
     /\ ret' = OK

(* agent/: the hardware entry goes first, its status is ignored. *)
UnmapAgent(k, f, junk) ==
  /\ tree = "agent" /\ Usable(k)
  /\ dp' = Fresh /\ UNCHANGED <<tree, vrf_n>>
  /\ \/ /\ k \notin DOMAIN tun
        /\ ret' = OK /\ UNCHANGED <<vrfs, tun, heap, hw>>
     \/ /\ k \in DOMAIN tun
        /\ hw' = HwTunnelDel(hw, k, f = "hw_tunnel").hw
        /\ Release(k, GetById(VrfIdOf(k, junk)), tun)

(* agent-bak/: __tunnel_unmap deletes the key first. *)
UnmapBak(k, junk) ==
  /\ tree = "agent-bak" /\ Usable(k)
  /\ dp' = Fresh /\ UNCHANGED <<tree, vrf_n, hw>>
  /\ \/ /\ k \notin DOMAIN tun
        /\ ret' = OK /\ UNCHANGED <<vrfs, tun, heap>>
     \/ /\ k \in DOMAIN tun
        /\ Release(k, GetById(VrfIdOf(k, junk)), Del(tun, k))

VrfNext ==
  \/ \E n \in Name :
       \/ VrfIdLookup(n) \/ VrfAdd(n)
       \/ \E pos \in HashPos : VrfDel(n, pos)
       \/ \E k \in TunnelKeyOf[tree], f \in Faults \cap {"none", "tun_mem", "tun_hash"} :
            \E junk \in Junk(k) : TunnelMapVrf(n, k, f, junk)
  \/ \E n \in Tuned[tree] :
       \/ VrfIntipUnset(n) \/ \E ip \in IntIp : VrfIntipSet(n, ip)
       \/ \E mac \in Mac : VrfRmacSet(n, mac) \/ VrfRmacUnset(n, mac)
  \/ \E k \in TunnelKeyOf[tree] : \E junk \in Junk(k) :
       \/ \E f \in Faults \cap {"none", "hw_tunnel"} : UnmapAgent(k, f, junk)
       \/ UnmapBak(k, junk)
=============================================================================
