-------------------------- MODULE RuleChainProofs ---------------------------
(***************************************************************************)
(* The VRF slots and the tunnel map of the agent, in both of its trees and *)
(* for any number of slots, names, tunnels and addresses: the four         *)
(* structures that describe a tunnel agree, and what callers see of them   *)
(* is the TunnelTable the calls promise.  As long as callers do not use a  *)
(* tunnel again after it was released (ReuseKeys = FALSE): the code leaves *)
(* released keys in the hash.                                              *)
(*                                                                         *)
(* Then the whole chain: the route tables stay consistent under VRFs that  *)
(* come and go, a slot that is taken over is empty, and the hardware       *)
(* entries that rule calls leave behind never mislead, because an object   *)
(* id names one next hop or one neighbour for ever.  These rest on         *)
(* RouteFibProofs and, like it, on VRFs that share no encapsulation        *)
(* (Disjoint).                                                             *)
(***************************************************************************)
EXTENDS RuleChain, RouteFibProofs

(* The SLIST of the tunnels of a VRF. *)
IsList(s) == IsListOf(s, Addr)

LEMMA EmptyList == IsList(<<>>) /\ ToSet(<<>>) = {} /\ Len(<<>>) = 0
BY EmptyIsList DEF IsList

-----------------------------------------------------------------------------
(* The inductive invariant: TunnelsAgree, types, lists without repetition  *)
(* and VRFs with different names.                                          *)

(* The values of the fields, under names of their own. *)
AddrSeq == Seq(Addr)
IntIps == IntIp \cup {0}
Macs == Mac \cup {FakeMac, 0}
Names == Name \cup {""}

VrfRecord ==
  [name : Names, valid : BOOLEAN, internal_ip : IntIps, route_mac : Macs,
   tunnel_rmap : AddrSeq, tunnel_cnt : Int]

Fields == {"name", "valid", "internal_ip", "route_mac", "tunnel_rmap", "tunnel_cnt"}

LEMMA RecordIs ==
  ASSUME NEW q, q = [x \in Fields |-> q[x]],
         q.name \in Names, q.valid \in BOOLEAN, q.internal_ip \in IntIps,
         q.route_mac \in Macs, q.tunnel_rmap \in AddrSeq, q.tunnel_cnt \in Int
  PROVE  q \in VrfRecord
BY Zenon DEF Fields, VrfRecord

LEMMA RecordHas ==
  ASSUME NEW r \in VrfRecord
  PROVE  /\ r.name \in Names /\ r.valid \in BOOLEAN /\ r.internal_ip \in IntIps
         /\ r.route_mac \in Macs /\ r.tunnel_rmap \in AddrSeq /\ r.tunnel_cnt \in Int
BY Zenon DEF VrfRecord

LEMMA FieldValues ==
  /\ <<>> \in AddrSeq /\ 0 \in IntIps /\ 0 \in Macs /\ FakeMac \in Macs
  /\ "" \in Names /\ Name \subseteq Names /\ Mac \subseteq Macs
<1>1. <<>> \in AddrSeq
  BY DEF AddrSeq
<1>2. 0 \in IntIps
  BY Zenon DEF IntIps
<1>3. 0 \in Macs /\ FakeMac \in Macs /\ Mac \subseteq Macs
  BY Zenon DEF Macs
<1>4. "" \in Names /\ Name \subseteq Names
  BY Zenon DEF Names
<1>5. QED
  BY <1>1, <1>2, <1>3, <1>4

List(v) == vrfs[v].tunnel_rmap
Valid == {v \in Vrf : vrfs[v].valid}

SlotsOK ==
  /\ vrfs \in [Vrf -> VrfRecord] /\ tree \in Trees
  /\ \A v \in Vrf : IsList(List(v)) /\ vrfs[v].tunnel_cnt = Len(List(v))
  /\ \A v \in Valid : vrfs[v].name \in Name
  /\ \A u, v \in Valid : vrfs[u].name = vrfs[v].name => u = v
  /\ vrf_n = Cardinality(Valid)

(* The hash and the heap point to each other. *)
MapOK ==
  /\ tun = [k \in DOMAIN tun |-> tun[k]] /\ heap = [a \in DOMAIN heap |-> heap[a]]
  /\ DOMAIN tun \subseteq TunnelKey /\ DOMAIN heap \subseteq Addr
  /\ \A a \in DOMAIN heap : /\ heap[a] \in [key : TunnelKey, vrf_id : Vrf]
                            /\ heap[a].key \in DOMAIN tun /\ tun[heap[a].key] = a

(* The heap and the lists of the VRFs describe the same tunnels. *)
ListsOK ==
  /\ \A a \in DOMAIN heap : vrfs[heap[a].vrf_id].valid
  /\ \A v \in Vrf : ToSet(List(v)) = {a \in DOMAIN heap : heap[a].vrf_id = v}

TunInv == SlotsOK /\ MapOK /\ ListsOK

(* TunnelsAgree is what the invariant says of slots, hash, heap and lists. *)
LEMMA InvImpliesAgree == TunInv => TunnelsAgree
<1> SUFFICES ASSUME TunInv PROVE TunnelsAgree
  OBVIOUS
<1>1. ASSUME NEW a \in DOMAIN heap
      PROVE  /\ heap[a].key \in DOMAIN tun /\ tun[heap[a].key] = a
             /\ {v \in Vrf : a \in ToSet(List(v))} = {heap[a].vrf_id}
             /\ vrfs[heap[a].vrf_id].valid
  <2>1. heap[a].vrf_id \in Vrf
    BY DEF TunInv, MapOK
  <2>2. \A v \in Vrf : a \in ToSet(List(v)) <=> v = heap[a].vrf_id
    BY DEF TunInv, ListsOK
  <2>3. QED
    BY <2>1, <2>2 DEF TunInv, MapOK, ListsOK
<1>2. ASSUME NEW v \in Vrf
      PROVE  /\ ToSet(List(v)) \subseteq DOMAIN heap
             /\ vrfs[v].tunnel_cnt = Len(List(v))
             /\ vrfs[v].tunnel_cnt = Cardinality(ToSet(List(v)))
  BY DEF TunInv, SlotsOK, ListsOK, IsList, IsListOf
<1>3. vrf_n = Cardinality({v \in Vrf : vrfs[v].valid})
  BY DEF TunInv, SlotsOK, Valid
<1>4. QED
  BY <1>1, <1>2, <1>3 DEF TunnelsAgree, List

-----------------------------------------------------------------------------
(* What the calls do to the four structures.                               *)

Keeps == UNCHANGED <<tree, vrfs, vrf_n, tun, heap>>

SameVrf(q, r) == /\ q.name = r.name /\ q.valid = r.valid
                 /\ q.tunnel_rmap = r.tunnel_rmap /\ q.tunnel_cnt = r.tunnel_cnt

(* An address of a VRF is set. *)
Sets ==
  /\ UNCHANGED <<tree, vrf_n, tun, heap>>
  /\ vrfs' \in [Vrf -> VrfRecord]
  /\ \A v \in Vrf : SameVrf(vrfs'[v], vrfs[v])
  /\ \A v \in Vrf \ Valid : vrfs'[v] = vrfs[v]

Creates(n, v) ==
  /\ \A u \in Valid : vrfs[u].name # n
  /\ ~vrfs[v].valid
  /\ vrfs' = [vrfs EXCEPT ![v] = DpCtor(@, n)] /\ vrf_n' = vrf_n + 1
  /\ UNCHANGED <<tree, tun, heap>>

Removes(v) ==
  /\ vrfs[v].valid
  /\ MapCleanup(v) /\ \E pos : dp' = Cleanup(Fresh, v, pos)
  /\ vrfs' = [vrfs EXCEPT ![v] = DpDtor(@)] /\ vrf_n' = vrf_n - 1
  /\ UNCHANGED tree

Maps(v, k, a) ==
  /\ vrfs[v].valid /\ k \notin DOMAIN tun /\ a \notin DOMAIN heap
  /\ heap' = Put(heap, a, [key |-> k, vrf_id |-> v])
  /\ tun' = Put(tun, k, a)
  /\ vrfs' = [vrfs EXCEPT ![v].tunnel_rmap = <<a>> \o @, ![v].tunnel_cnt = @ + 1]
  /\ UNCHANGED <<tree, vrf_n>>

Unmaps(v, k) ==
  /\ vrfs[v].valid
  /\ k \in DOMAIN tun /\ tun[k] \in DOMAIN heap
  /\ heap[tun[k]].key = k /\ heap[tun[k]].vrf_id = v
  /\ vrfs' = [vrfs EXCEPT ![v].tunnel_rmap = RemoveFirst(@, tun[k]), ![v].tunnel_cnt = @ - 1]
  /\ heap' = Del(heap, tun[k])
  /\ tun' = tun \/ tun' = Del(tun, k)
  /\ UNCHANGED <<tree, vrf_n>>

Kind ==
  \/ Keeps \/ Sets
  \/ \E n \in Name, v \in Vrf : Creates(n, v)
  \/ \E v \in Vrf : Removes(v)
  \/ \E v \in Vrf, k \in TunnelKey, a \in Addr : Maps(v, k, a)
  \/ \E v \in Vrf, k \in TunnelKey : Unmaps(v, k)

(* The linear search for a name. *)
LEMMA LookupFinds ==
  ASSUME NEW n
  PROVE  /\ LookupVrf(n) = 0 => \A v \in Valid : vrfs[v].name # n
         /\ LookupVrf(n) # 0 => LookupVrf(n) \in Valid /\ vrfs[LookupVrf(n)].name = n
<1> DEFINE s == {v \in Vrf : vrfs[v].valid /\ vrfs[v].name = n}
<1>1. s \in SUBSET Nat /\ 0 \notin s
  BY VrfAssumption
<1>2. LookupVrf(n) = IF s = {} THEN 0 ELSE Min(s)
  BY DEF LookupVrf
<1>3. s # {} => Min(s) \in s
  <2> HIDE DEF s
  <2> QED BY <1>1, MinIn
<1>4. QED
  BY <1>1, <1>2, <1>3 DEF Valid

(* Setting one of the two addresses of a VRF keeps its other fields. *)
LEMMA AddressField ==
  ASSUME NEW r \in VrfRecord
  PROVE  /\ \A x \in IntIps : LET q == [r EXCEPT !["internal_ip"] = x]
                                     IN q \in VrfRecord /\ SameVrf(q, r)
         /\ \A x \in Macs : LET q == [r EXCEPT !["route_mac"] = x]
                                         IN q \in VrfRecord /\ SameVrf(q, r)
BY DEF VrfRecord, SameVrf

LEMMA AddressOnly ==
  ASSUME NEW T \in [Vrf -> VrfRecord], NEW v \in Vrf, NEW U,
         \/ \E x \in IntIps : U = [T EXCEPT ![v]["internal_ip"] = x]
         \/ \E x \in Macs : U = [T EXCEPT ![v]["route_mac"] = x]
  PROVE  /\ U \in [Vrf -> VrfRecord]
         /\ \A u \in Vrf : SameVrf(U[u], T[u])
         /\ \A u \in Vrf : u # v => U[u] = T[u]
<1>1. PICK q \in VrfRecord : U = [T EXCEPT ![v] = q] /\ SameVrf(q, T[v])
  <2>1. CASE \E x \in IntIps : U = [T EXCEPT ![v]["internal_ip"] = x]
    <3>1. PICK x \in IntIps : U = [T EXCEPT ![v] = [T[v] EXCEPT !["internal_ip"] = x]]
      BY <2>1
    <3>2. QED
      BY <3>1, AddressField
  <2>2. CASE \E x \in Macs : U = [T EXCEPT ![v]["route_mac"] = x]
    <3>1. PICK x \in Macs : U = [T EXCEPT ![v] = [T[v] EXCEPT !["route_mac"] = x]]
      BY <2>2
    <3>2. QED
      BY <3>1, AddressField
  <2>3. QED
    BY <2>1, <2>2
<1>2. U \in [Vrf -> VrfRecord]
  BY <1>1
<1>3. \A u \in Vrf : SameVrf(U[u], T[u])
  <2>1. \A u \in Vrf : u # v => U[u] = T[u]
    BY <1>1
  <2>2. U[v] = q
    BY <1>1
  <2>3. \A u \in Vrf : u # v => SameVrf(U[u], T[u])
    BY <2>1, Zenon DEF SameVrf
  <2>4. QED
    BY <1>1, <2>2, <2>3, Zenon
<1>4. \A u \in Vrf : u # v => U[u] = T[u]
  BY <1>1
<1>5. QED
  BY <1>2, <1>3, <1>4

LEMMA SetFieldKind ==
  ASSUME TunInv, NEW n,
         \/ \E x \in IntIps : SetField(n, "internal_ip", x)
         \/ \E x \in Macs : SetField(n, "route_mac", x)
  PROVE  Sets
<1>1. vrfs \in [Vrf -> VrfRecord]
  BY DEF TunInv, SlotsOK
<1>2. CASE vrfs' = vrfs
  BY <1>1, <1>2 DEF Sets, SetField, SameVrf
<1>3. CASE vrfs' # vrfs
  <2> DEFINE v == LookupVrf(n)
  <2>1. v \in Valid /\ v \in Vrf
    BY <1>3, LookupFinds DEF SetField, Valid
  <2>2. \/ \E x \in IntIps : vrfs' = [vrfs EXCEPT ![v]["internal_ip"] = x]
        \/ \E x \in Macs : vrfs' = [vrfs EXCEPT ![v]["route_mac"] = x]
    BY <1>3 DEF SetField
  <2> HIDE DEF v
  <2>3. /\ vrfs' \in [Vrf -> VrfRecord] /\ \A u \in Vrf : SameVrf(vrfs'[u], vrfs[u])
        /\ \A u \in Vrf : u # v => vrfs'[u] = vrfs[u]
    BY <1>1, <2>1, <2>2, AddressOnly, Zenon
  <2>4. QED
    BY <2>1, <2>3 DEF Sets, SetField
<1>4. QED
  BY <1>2, <1>3

LEMMA RmacUnsetKind ==
  ASSUME TunInv, NEW n, NEW mac, VrfRmacUnset(n, mac)
  PROVE  Sets
<1>1. vrfs \in [Vrf -> VrfRecord]
  BY DEF TunInv, SlotsOK
<1>2. CASE vrfs' = vrfs
  BY <1>1, <1>2 DEF Sets, VrfRmacUnset, SameVrf
<1>3. CASE vrfs' # vrfs
  <2> DEFINE v == LookupVrf(n)
  <2>1. v \in Valid /\ v \in Vrf
    BY <1>3, LookupFinds DEF VrfRmacUnset, Valid
  <2>2. vrfs' = [vrfs EXCEPT ![v]["route_mac"] = FakeMac]
    BY <1>3 DEF VrfRmacUnset
  <2> HIDE DEF v
  <2>3. \E x \in Macs : vrfs' = [vrfs EXCEPT ![v]["route_mac"] = x]
    BY <2>2, FieldValues
  <2>4. /\ vrfs' \in [Vrf -> VrfRecord] /\ \A u \in Vrf : SameVrf(vrfs'[u], vrfs[u])
        /\ \A u \in Vrf : u # v => vrfs'[u] = vrfs[u]
    BY <1>1, <2>1, <2>3, AddressOnly, Zenon
  <2>5. QED
    BY <2>1, <2>4 DEF Sets, VrfRmacUnset
<1>4. QED
  BY <1>2, <1>3

LEMMA VrfAddKind ==
  ASSUME NEW n \in Name, VrfAdd(n)
  PROVE  Keeps \/ \E v \in Vrf : Creates(n, v)
<1> DEFINE free == {v \in Vrf : ~vrfs[v].valid}
<1>1. CASE UNCHANGED vrfs /\ UNCHANGED vrf_n
  BY <1>1 DEF VrfAdd, Keeps
<1>2. CASE /\ LookupVrf(n) = 0 /\ free # {}
           /\ vrfs' = [vrfs EXCEPT ![Min(free)] = DpCtor(@, n)] /\ vrf_n' = vrf_n + 1
  <2>1. free \in SUBSET Nat
    BY VrfAssumption
  <2>2. Min(free) \in free
    <3> HIDE DEF free
    <3> QED BY <1>2, <2>1, MinIn
  <2>3. \A u \in Valid : vrfs[u].name # n
    BY <1>2, LookupFinds
  <2>4. Creates(n, Min(free)) /\ Min(free) \in Vrf
    BY <1>2, <2>2, <2>3 DEF VrfAdd, Creates
  <2>5. QED
    BY <2>4
<1>3. QED
  BY <1>1, <1>2 DEF VrfAdd

LEMMA VrfDelKind ==
  ASSUME NEW n, NEW pos, VrfDel(n, pos)
  PROVE  Keeps \/ \E v \in Vrf : Removes(v)
<1> DEFINE v == LookupVrf(n)
<1>1. CASE v = 0
  BY <1>1 DEF VrfDel, Keeps
<1>2. CASE v # 0
  <2>1. v \in Vrf /\ vrfs[v].valid
    BY <1>2, LookupFinds DEF Valid
  <2>2. Removes(v)
    BY <1>2, <2>1 DEF VrfDel, Removes
  <2>3. QED
    BY <2>1, <2>2
<1>3. QED
  BY <1>1, <1>2

LEMMA TunnelMapKind ==
  ASSUME NEW n, NEW k \in TunnelKey, NEW f, NEW junk, TunnelMapVrf(n, k, f, junk)
  PROVE  Keeps \/ \E v \in Vrf, a \in Addr : Maps(v, k, a)
<1> DEFINE v == LookupVrf(n)
           a == Min(Addr \ DOMAIN heap)
<1>1. CASE UNCHANGED <<vrfs, tun, heap>>
  BY <1>1 DEF TunnelMapVrf, Keeps
<1>2. CASE /\ v # 0 /\ k \notin DOMAIN tun /\ ~(Addr \subseteq DOMAIN heap)
           /\ heap' = Put(heap, a, [key |-> k, vrf_id |-> v])
           /\ tun' = Put(tun, k, a)
           /\ vrfs' = [vrfs EXCEPT ![v].tunnel_rmap = <<a>> \o @, ![v].tunnel_cnt = @ + 1]
  <2>1. v \in Vrf /\ vrfs[v].valid
    BY <1>2, LookupFinds DEF Valid
  <2>2. a \in Addr \ DOMAIN heap
    BY <1>2, VrfAssumption, MinIn
  <2> HIDE DEF a, v
  <2>3. UNCHANGED <<tree, vrf_n>>
    BY DEF TunnelMapVrf
  <2>4. Maps(v, k, a)
    BY <1>2, <2>1, <2>2, <2>3 DEF Maps
  <2>5. QED
    BY <2>1, <2>2, <2>4
<1>3. QED
  BY <1>1, <1>2 DEF TunnelMapVrf, MapNew

(* A caller that never uses a released tunnel finds the live tunnel_i of   *)
(* its own one, in the list of a valid VRF: the call cannot run off it.    *)
LEMMA ReleaseKind ==
  ASSUME TunInv, ReuseKeys = FALSE, UNCHANGED <<tree, vrf_n>>,
         NEW k \in TunnelKey, k \in DOMAIN tun, Usable(k), NEW junk,
         NEW keys, keys = tun \/ keys = Del(tun, k),
         Release(k, GetById(VrfIdOf(k, junk)), keys)
  PROVE  ret' = OK /\ \E v \in Vrf : Unmaps(v, k)
<1> DEFINE a == tun[k]
           v == heap[a].vrf_id
<1>1. a \in DOMAIN heap /\ heap[a].key = k
  BY DEF Usable, Dangling
<1>2. v \in Vrf /\ vrfs[v].valid /\ a \in ToSet(List(v)) /\ v # 0
  <2>1. v \in Vrf
    BY <1>1 DEF TunInv, MapOK
  <2>2. vrfs[v].valid
    BY <1>1 DEF TunInv, ListsOK
  <2>3. a \in ToSet(List(v))
    BY <1>1, <2>1 DEF TunInv, ListsOK
  <2>4. QED
    BY <2>1, <2>2, <2>3, VrfAssumption
<1>3. GetById(VrfIdOf(k, junk)) = v
  BY <1>1, <1>2 DEF GetById, VrfIdOf
<1>4. /\ vrfs' = [vrfs EXCEPT ![v].tunnel_rmap = RemoveFirst(@, tun[k]), ![v].tunnel_cnt = @ - 1]
      /\ heap' = Del(heap, tun[k]) /\ tun' = keys /\ ret' = OK
  BY <1>2, <1>3 DEF Release, List
<1>5. Unmaps(v, k)
  BY <1>1, <1>2, <1>4 DEF Unmaps
<1>6. QED
  BY <1>2, <1>4, <1>5

LEMMA StepKind ==
  ASSUME TunInv, ReuseKeys = FALSE, [RuleNext]_cvars
  PROVE  Kind
<1>1. CASE UNCHANGED cvars
  BY <1>1 DEF cvars, avars, Kind, Keeps
<1>2. CASE RouteCalls
  BY <1>2 DEF RouteCalls, Kind, Keeps
<1>3. ASSUME NEW vni, NEW src, NEW q, NEW op, NEW f, NEW junk,
             SwTohwRule(vni, src, q, op, f, junk)
      PROVE  Kind
  BY <1>3 DEF SwTohwRule, Kind, Keeps
<1>4. tree \in Trees
  BY DEF TunInv, SlotsOK
<1>5. TunnelKeyOf[tree] \subseteq TunnelKey /\ Tuned[tree] \subseteq Name
  BY <1>4, VrfAssumption DEF TunnelKey
<1>6. ASSUME NEW n \in Name, VrfIdLookup(n) \/ VrfAdd(n) \/ \E pos \in HashPos : VrfDel(n, pos)
      PROVE  Kind
  <2>1. CASE VrfIdLookup(n)
    BY <2>1 DEF VrfIdLookup, Kind, Keeps
  <2>2. CASE VrfAdd(n)
    BY <2>2, VrfAddKind DEF Kind
  <2>3. CASE \E pos \in HashPos : VrfDel(n, pos)
    BY <2>3, VrfDelKind DEF Kind
  <2>4. QED
    BY <1>6, <2>1, <2>2, <2>3
<1>7. ASSUME NEW n, NEW k \in TunnelKeyOf[tree], NEW f, NEW junk, TunnelMapVrf(n, k, f, junk)
      PROVE  Kind
  BY <1>5, <1>7, TunnelMapKind DEF Kind
<1>8. ASSUME NEW n, \/ VrfIntipUnset(n) \/ \E ip \in IntIp : VrfIntipSet(n, ip)
                    \/ \E mac \in Mac : VrfRmacSet(n, mac) \/ VrfRmacUnset(n, mac)
      PROVE  Kind
  <2>1. CASE VrfIntipUnset(n) \/ \E ip \in IntIp : VrfIntipSet(n, ip)
    <3>1. \E x \in IntIps : SetField(n, "internal_ip", x)
      BY <2>1, FieldValues DEF VrfIntipUnset, VrfIntipSet, IntIps
    <3>2. QED
      BY <3>1, SetFieldKind DEF Kind
  <2>2. CASE \E mac \in Mac : VrfRmacSet(n, mac)
    <3>1. \E x \in Macs : SetField(n, "route_mac", x)
      BY <2>2, FieldValues DEF VrfRmacSet
    <3>2. QED
      BY <3>1, SetFieldKind DEF Kind
  <2>3. CASE \E mac \in Mac : VrfRmacUnset(n, mac)
    BY <2>3, RmacUnsetKind DEF Kind
  <2>4. QED
    BY <1>8, <2>1, <2>2, <2>3
<1>9. ASSUME NEW k \in TunnelKeyOf[tree], NEW junk,
             (\E f : UnmapAgent(k, f, junk)) \/ UnmapBak(k, junk)
      PROVE  Kind
  <2>1. k \in TunnelKey /\ Usable(k)
    BY <1>5, <1>9 DEF UnmapAgent, UnmapBak
  <2>2. CASE k \notin DOMAIN tun
    BY <1>9, <2>2 DEF UnmapAgent, UnmapBak, Kind, Keeps
  <2>3. CASE k \in DOMAIN tun
    <3>1. UNCHANGED <<tree, vrf_n>>
      BY <1>9 DEF UnmapAgent, UnmapBak
    <3>2. PICK keys \in {tun, Del(tun, k)} : Release(k, GetById(VrfIdOf(k, junk)), keys)
      BY <1>9, <2>3 DEF UnmapAgent, UnmapBak
    <3>3. \E v \in Vrf : Unmaps(v, k)
      BY <2>1, <2>3, <3>1, <3>2, ReleaseKind
    <3>4. QED
      BY <2>1, <3>3 DEF Kind
  <2>4. QED
    BY <2>2, <2>3
<1>10. QED
  BY <1>1, <1>2, <1>3, <1>6, <1>7, <1>8, <1>9 DEF RuleNext, VrfNext

-----------------------------------------------------------------------------
(* Every kind of step keeps the invariant.                                 *)

(* A record that takes the place of a VRF leaves the other slots alone. *)
LEMMA SlotUpdate ==
  ASSUME NEW T \in [Vrf -> VrfRecord], NEW v \in Vrf, NEW q \in VrfRecord,
         NEW U, U = [T EXCEPT ![v] = q]
  PROVE  /\ U \in [Vrf -> VrfRecord] /\ U[v] = q
         /\ \A u \in Vrf \ {v} : U[u] = T[u]
OBVIOUS

(* What the constructor and the destructor of a VRF make of its record. *)
LEMMA CtorRecord ==
  ASSUME NEW r \in VrfRecord, NEW n \in Name
  PROVE  /\ DpCtor(r, n) \in VrfRecord
         /\ DpCtor(r, n).name = n /\ DpCtor(r, n).valid = TRUE
         /\ DpCtor(r, n).tunnel_rmap = <<>> /\ DpCtor(r, n).tunnel_cnt = 0
         /\ DpCtor(r, n).internal_ip = r.internal_ip
<1> DEFINE q == DpCtor(r, n)
<1>1. q = [x \in Fields |-> q[x]]
  BY DEF DpCtor, VrfRecord, Fields
<1>2. /\ q.name = n /\ q.internal_ip = r.internal_ip /\ q.route_mac = FakeMac
      /\ q.tunnel_rmap = <<>> /\ q.tunnel_cnt = 0
  BY DEF DpCtor, VrfRecord
<1>3. q.valid = TRUE
  BY DEF DpCtor, VrfRecord
<1> HIDE DEF q
<1>4. q.tunnel_cnt \in Int
  BY <1>2
<1>5. q \in VrfRecord
  BY <1>1, <1>2, <1>3, <1>4, RecordIs, RecordHas, FieldValues, Zenon
<1>6. QED
  BY <1>2, <1>3, <1>5 DEF q

LEMMA DtorRecord ==
  ASSUME NEW r \in VrfRecord, r.tunnel_cnt = Len(r.tunnel_rmap), Len(r.tunnel_rmap) \in Nat
  PROVE  /\ DpDtor(r) \in VrfRecord
         /\ DpDtor(r).name = "" /\ DpDtor(r).valid = FALSE
         /\ DpDtor(r).tunnel_rmap = <<>> /\ DpDtor(r).tunnel_cnt = 0
         /\ DpDtor(r).internal_ip = 0
<1> DEFINE q == DpDtor(r)
<1>1. q = [x \in Fields |-> q[x]]
  BY DEF DpDtor, VrfRecord, Fields
<1>2. /\ q.name = "" /\ q.internal_ip = 0 /\ q.route_mac = r.route_mac
      /\ q.tunnel_rmap = <<>>
  BY DEF DpDtor, VrfRecord
<1>3. q.valid = FALSE
  BY DEF DpDtor, VrfRecord
<1>4. q.tunnel_cnt = 0 /\ q.tunnel_cnt \in Int
  <2>1. q.tunnel_cnt = r.tunnel_cnt - Len(r.tunnel_rmap)
    BY DEF DpDtor, VrfRecord
  <2> HIDE DEF q
  <2>2. QED
    BY <2>1
<1> HIDE DEF q
<1>5. q \in VrfRecord
  BY <1>1, <1>2, <1>3, <1>4, RecordIs, RecordHas, FieldValues, Zenon
<1>6. QED
  BY <1>2, <1>3, <1>4, <1>5 DEF q

(* A VRF whose list of tunnels changes. *)
WithList(r, t, c) == [r EXCEPT !.tunnel_rmap = t, !.tunnel_cnt = c]
OnlyList(q, r, t, c) ==
  /\ q \in VrfRecord /\ q.tunnel_rmap = t /\ q.tunnel_cnt = c
  /\ q.name = r.name /\ q.valid = r.valid

LEMMA ListRecord ==
  ASSUME NEW r \in VrfRecord, NEW t \in AddrSeq, NEW c \in Int
  PROVE  OnlyList(WithList(r, t, c), r, t, c)
<1> DEFINE q == WithList(r, t, c)
<1>1. q = [x \in Fields |-> q[x]]
  BY DEF WithList, VrfRecord, Fields
<1>2. /\ q.name = r.name /\ q.internal_ip = r.internal_ip /\ q.route_mac = r.route_mac
      /\ q.tunnel_rmap = t /\ q.tunnel_cnt = c
  BY DEF WithList, VrfRecord
<1>3. q.valid = r.valid
  BY Zenon DEF WithList, VrfRecord
<1> HIDE DEF q
<1>4. q \in VrfRecord
  BY <1>1, <1>2, <1>3, RecordIs, RecordHas, FieldValues, Zenon
<1>5. QED
  BY <1>2, <1>3, <1>4, Zenon DEF OnlyList, q

LEMMA SetsInv == ASSUME TunInv, Sets PROVE TunInv'
<1>1. \A v \in Vrf : /\ vrfs'[v].name = vrfs[v].name /\ vrfs'[v].valid = vrfs[v].valid
                     /\ vrfs'[v].tunnel_rmap = vrfs[v].tunnel_rmap
                     /\ vrfs'[v].tunnel_cnt = vrfs[v].tunnel_cnt
  BY DEF Sets, SameVrf
<1>2. Valid' = Valid
  BY <1>1, Zenon DEF Valid
<1>3. SlotsOK'
  <2>1. vrfs' \in [Vrf -> VrfRecord] /\ tree' \in Trees /\ vrf_n' = Cardinality(Valid')
    BY <1>2, Zenon DEF Sets, TunInv, SlotsOK
  <2>2. \A v \in Vrf : IsList(List(v)') /\ vrfs'[v].tunnel_cnt = Len(List(v)')
    BY <1>1, Zenon DEF TunInv, SlotsOK, List
  <2>3. /\ \A v \in Valid' : vrfs'[v].name \in Name
        /\ \A u, v \in Valid' : vrfs'[u].name = vrfs'[v].name => u = v
    BY <1>1, <1>2 DEF TunInv, SlotsOK, Valid
  <2>4. QED
    BY <2>1, <2>2, <2>3 DEF SlotsOK
<1>4. MapOK'
  BY DEF Sets, TunInv, MapOK
<1>5. ListsOK'
  <2>1. \A a \in DOMAIN heap' : vrfs'[heap'[a].vrf_id].valid
    <3>1. ASSUME NEW a \in DOMAIN heap PROVE vrfs'[heap[a].vrf_id].valid
      <4>1. heap[a].vrf_id \in Vrf /\ vrfs[heap[a].vrf_id].valid
        BY DEF TunInv, MapOK, ListsOK
      <4>2. QED
        BY <1>1, <4>1, Zenon
    <3>2. QED
      BY <3>1 DEF Sets
  <2>2. \A v \in Vrf : ToSet(List(v)') = {a \in DOMAIN heap' : heap'[a].vrf_id = v}
    <3>1. \A v \in Vrf : List(v)' = List(v)
      BY <1>1, Zenon DEF List
    <3>2. QED
      BY <3>1 DEF Sets, TunInv, ListsOK
  <2>3. QED
    BY <2>1, <2>2 DEF ListsOK
<1>6. QED
  BY <1>3, <1>4, <1>5 DEF TunInv

LEMMA CreatesInv ==
  ASSUME TunInv, NEW n \in Name, NEW v \in Vrf, Creates(n, v)
  PROVE  TunInv'
<1> DEFINE q == DpCtor(vrfs[v], n)
<1>1. vrfs \in [Vrf -> VrfRecord] /\ vrfs[v] \in VrfRecord
  BY DEF TunInv, SlotsOK
<1>2. /\ q \in VrfRecord /\ q.name = n /\ q.tunnel_rmap = <<>> /\ q.tunnel_cnt = 0
      /\ q.valid = TRUE
  BY <1>1, CtorRecord
<1>3. vrfs' = [vrfs EXCEPT ![v] = q]
  BY DEF Creates
<1> HIDE DEF q
<1>4. vrfs' \in [Vrf -> VrfRecord] /\ vrfs'[v] = q /\ \A u \in Vrf \ {v} : vrfs'[u] = vrfs[u]
  BY <1>1, <1>2, <1>3, SlotUpdate
<1>5. v \notin Valid /\ Valid' = Valid \cup {v}
  BY <1>2, <1>4 DEF Valid, Creates
<1>6. IsFiniteSet(Valid)
  BY VrfAssumption, FS_Subset DEF Valid
<1>7. ToSet(List(v)) = {} /\ ToSet(List(v)') = {} /\ List(v)' = <<>>
  <2>1. \A a \in DOMAIN heap : heap[a].vrf_id # v
    BY DEF Creates, TunInv, ListsOK
  <2>2. QED
    BY <2>1, <1>2, <1>4, EmptyList DEF TunInv, ListsOK, List
<1>8. \A u \in Vrf \ {v} : List(u)' = List(u)
  BY <1>4 DEF List
<1>9. SlotsOK'
  <2>1. vrf_n' = Cardinality(Valid')
    BY <1>5, <1>6, FS_AddElement DEF Creates, TunInv, SlotsOK
  <2>2. \A u \in Vrf : IsList(List(u)') /\ vrfs'[u].tunnel_cnt = Len(List(u)')
    BY <1>2, <1>4, <1>7, <1>8, EmptyList DEF TunInv, SlotsOK
  <2>3. \A u \in Valid : u \in Vrf /\ u # v /\ vrfs'[u].name = vrfs[u].name
    BY <1>4, <1>5 DEF Valid
  <2>4. /\ \A u \in Valid' : vrfs'[u].name \in Name
        /\ \A u, w \in Valid' : vrfs'[u].name = vrfs'[w].name => u = w
    BY <1>2, <1>4, <1>5, <2>3 DEF TunInv, SlotsOK, Creates
  <2>5. QED
    BY <1>4, <2>1, <2>2, <2>4 DEF SlotsOK, Creates, TunInv
<1>10. MapOK'
  BY DEF Creates, TunInv, MapOK
<1>11. ListsOK'
  <2>1. \A a \in DOMAIN heap : heap[a].vrf_id \in Vrf \ {v} /\ vrfs[heap[a].vrf_id].valid
    BY DEF TunInv, MapOK, ListsOK, Creates
  <2>2. \A a \in DOMAIN heap : vrfs'[heap[a].vrf_id].valid
    BY <2>1, <1>4
  <2>3. \A u \in Vrf : ToSet(List(u)') = {a \in DOMAIN heap : heap[a].vrf_id = u}
    BY <1>7, <1>8 DEF TunInv, ListsOK
  <2>4. QED
    BY <2>2, <2>3 DEF ListsOK, Creates
<1>12. QED
  BY <1>9, <1>10, <1>11 DEF TunInv

LEMMA RemovesInv ==
  ASSUME TunInv, NEW v \in Vrf, Removes(v)
  PROVE  TunInv'
<1> DEFINE q == DpDtor(vrfs[v])
<1>1. vrfs \in [Vrf -> VrfRecord] /\ vrfs[v] \in VrfRecord
  BY DEF TunInv, SlotsOK
<1>2. q \in VrfRecord /\ q.tunnel_rmap = <<>> /\ q.tunnel_cnt = 0 /\ q.valid = FALSE
  <2>1. vrfs[v].tunnel_cnt = Len(vrfs[v].tunnel_rmap) /\ Len(vrfs[v].tunnel_rmap) \in Nat
    BY LenProperties DEF TunInv, SlotsOK, List, IsList, IsListOf
  <2>2. QED
    BY <1>1, <2>1, DtorRecord
<1>3. vrfs' = [vrfs EXCEPT ![v] = q]
  BY DEF Removes
<1> HIDE DEF q
<1>4. vrfs' \in [Vrf -> VrfRecord] /\ vrfs'[v] = q /\ \A u \in Vrf \ {v} : vrfs'[u] = vrfs[u]
  BY <1>1, <1>2, <1>3, SlotUpdate
<1>5. v \in Valid /\ Valid' = Valid \ {v}
  BY <1>2, <1>4 DEF Valid, Removes
<1>6. IsFiniteSet(Valid)
  BY VrfAssumption, FS_Subset DEF Valid
<1>7. ToSet(List(v)') = {} /\ List(v)' = <<>>
  BY <1>2, <1>4, EmptyList DEF List
<1>8. \A u \in Vrf \ {v} : List(u)' = List(u)
  BY <1>4 DEF List
<1>9. SlotsOK'
  <2>1. vrf_n' = Cardinality(Valid')
    BY <1>5, <1>6, FS_RemoveElement DEF Removes, TunInv, SlotsOK
  <2>2. \A u \in Vrf : IsList(List(u)') /\ vrfs'[u].tunnel_cnt = Len(List(u)')
    BY <1>2, <1>4, <1>7, <1>8, EmptyList DEF TunInv, SlotsOK
  <2>3. \A u \in Valid' : u \in Valid /\ vrfs'[u].name = vrfs[u].name
    BY <1>4, <1>5 DEF Valid
  <2>4. /\ \A u \in Valid' : vrfs'[u].name \in Name
        /\ \A u, w \in Valid' : vrfs'[u].name = vrfs'[w].name => u = w
    BY <2>3 DEF TunInv, SlotsOK
  <2>5. QED
    BY <1>4, <2>1, <2>2, <2>4 DEF SlotsOK, Removes, TunInv
<1>10. /\ heap' = [a \in DOMAIN heap \ ToSet(List(v)) |-> heap[a]]
       /\ DOMAIN heap' = {a \in DOMAIN heap : heap[a].vrf_id # v}
       /\ \A a \in DOMAIN heap' : heap'[a] = heap[a]
  BY DEF Removes, MapCleanup, TunInv, ListsOK, List
<1>11. MapOK'
  <2>1. /\ tun' = [k \in DOMAIN tun' |-> tun'[k]] /\ DOMAIN tun' \subseteq TunnelKey
        /\ \A k \in TunnelKey \cap DOMAIN tun : k \in DOMAIN tun' /\ tun'[k] = tun[k]
    <3>1. <<"INVALID", 0>> \notin TunnelKey
      BY VrfAssumption DEF TunnelKey
    <3>2. tun' = tun \/ tun' = Del(tun, <<"INVALID", 0>>)
      BY DEF Removes, MapCleanup
    <3>3. QED
      BY <3>1, <3>2 DEF TunInv, MapOK, Del
  <2>2. QED
    BY <1>10, <2>1 DEF TunInv, MapOK
<1>12. ListsOK'
  <2>1. ASSUME NEW a \in DOMAIN heap' PROVE vrfs'[heap'[a].vrf_id].valid
    <3>1. heap[a].vrf_id \in Vrf \ {v} /\ vrfs[heap[a].vrf_id].valid /\ heap'[a] = heap[a]
      BY <1>10 DEF TunInv, MapOK, ListsOK
    <3>2. QED
      BY <3>1, <1>4
  <2>2. \A u \in Vrf : ToSet(List(u)') = {a \in DOMAIN heap' : heap'[a].vrf_id = u}
    BY <1>7, <1>8, <1>10 DEF TunInv, ListsOK
  <2>3. QED
    BY <2>1, <2>2 DEF ListsOK
<1>13. QED
  BY <1>9, <1>11, <1>12 DEF TunInv

LEMMA MapsInv ==
  ASSUME TunInv, NEW v \in Vrf, NEW k \in TunnelKey, NEW a \in Addr, Maps(v, k, a)
  PROVE  TunInv'
<1> DEFINE q == [vrfs[v] EXCEPT !.tunnel_rmap = <<a>> \o @, !.tunnel_cnt = @ + 1]
<1>1. vrfs \in [Vrf -> VrfRecord] /\ vrfs[v] \in VrfRecord
  BY DEF TunInv, SlotsOK
<1>2. /\ IsList(List(v)) /\ ToSet(List(v)) = {b \in DOMAIN heap : heap[b].vrf_id = v}
      /\ vrfs[v].tunnel_cnt = Len(List(v)) /\ a \notin ToSet(List(v))
      /\ Len(List(v)) \in Nat
  BY LenProperties DEF TunInv, SlotsOK, ListsOK, Maps, IsList, IsListOf
<1>3. /\ IsList(<<a>> \o List(v)) /\ ToSet(<<a>> \o List(v)) = ToSet(List(v)) \cup {a}
      /\ Len(<<a>> \o List(v)) = Len(List(v)) + 1
  BY <1>2, ListInsert DEF IsList
<1>4. /\ q \in VrfRecord /\ q.tunnel_rmap = <<a>> \o List(v)
      /\ q.tunnel_cnt = Len(<<a>> \o List(v)) /\ q.name = vrfs[v].name
      /\ q.valid = vrfs[v].valid
  <2> DEFINE t == <<a>> \o List(v)
             c == Len(t)
  <2>1. q = WithList(vrfs[v], t, c)
    BY <1>2, <1>3 DEF List, WithList
  <2>2. t \in AddrSeq /\ c \in Int
    BY <1>2, <1>3 DEF IsList, IsListOf, AddrSeq
  <2> HIDE DEF t, c, q
  <2>3. /\ q \in VrfRecord /\ q.tunnel_rmap = t /\ q.tunnel_cnt = c
        /\ q.name = vrfs[v].name /\ q.valid = vrfs[v].valid
    <3>1. OnlyList(q, vrfs[v], t, c)
      BY <1>1, <2>1, <2>2, ListRecord, Zenon
    <3>2. QED
      BY <3>1, Zenon DEF OnlyList
  <2>4. QED
    BY <2>3, Zenon DEF t, c
<1>5. q.valid = vrfs[v].valid
  BY <1>4
<1>6. vrfs' = [vrfs EXCEPT ![v] = q]
  BY <1>1 DEF Maps
<1> HIDE DEF q
<1>7. vrfs' \in [Vrf -> VrfRecord] /\ vrfs'[v] = q /\ \A u \in Vrf \ {v} : vrfs'[u] = vrfs[u]
  BY <1>1, <1>4, <1>6, SlotUpdate
<1>8. \A u \in Vrf : vrfs'[u].name = vrfs[u].name
  BY <1>4, <1>7
<1>9. \A u \in Vrf : vrfs'[u].valid = vrfs[u].valid
  BY <1>5, <1>7, Zenon
<1>10. Valid' = Valid
  BY <1>9, Zenon DEF Valid
<1>11. List(v)' = <<a>> \o List(v) /\ \A u \in Vrf \ {v} : List(u)' = List(u)
  BY <1>4, <1>7 DEF List
<1>12. SlotsOK'
  <2>1. vrf_n' = Cardinality(Valid') /\ tree' \in Trees
    BY <1>10 DEF Maps, TunInv, SlotsOK
  <2>2. \A u \in Vrf : IsList(List(u)') /\ vrfs'[u].tunnel_cnt = Len(List(u)')
    BY <1>3, <1>4, <1>7, <1>11 DEF TunInv, SlotsOK
  <2>3. /\ \A u \in Valid' : vrfs'[u].name \in Name
        /\ \A u, w \in Valid' : vrfs'[u].name = vrfs'[w].name => u = w
    BY <1>8, <1>10 DEF TunInv, SlotsOK, Valid
  <2>4. QED
    BY <1>7, <2>1, <2>2, <2>3 DEF SlotsOK
<1>13. /\ DOMAIN heap' = DOMAIN heap \cup {a} /\ heap'[a] = [key |-> k, vrf_id |-> v]
       /\ \A b \in DOMAIN heap : b # a /\ heap'[b] = heap[b]
       /\ heap' = [b \in DOMAIN heap' |-> heap'[b]]
  BY DEF Maps, Put
<1>14. /\ DOMAIN tun' = DOMAIN tun \cup {k} /\ tun'[k] = a
       /\ \A x \in DOMAIN tun : x # k /\ tun'[x] = tun[x]
       /\ tun' = [x \in DOMAIN tun' |-> tun'[x]]
  BY DEF Maps, Put
<1>15. MapOK'
  <2>1. ASSUME NEW b \in DOMAIN heap'
        PROVE  /\ heap'[b] \in [key : TunnelKey, vrf_id : Vrf]
               /\ heap'[b].key \in DOMAIN tun' /\ tun'[heap'[b].key] = b
    <3>1. CASE b = a
      BY <3>1, <1>13, <1>14
    <3>2. CASE b # a
      BY <3>2, <1>13, <1>14 DEF TunInv, MapOK
    <3>3. QED
      BY <3>1, <3>2
  <2>2. DOMAIN tun' \subseteq TunnelKey /\ DOMAIN heap' \subseteq Addr
    BY <1>13, <1>14 DEF TunInv, MapOK
  <2>3. QED
    BY <1>13, <1>14, <2>1, <2>2 DEF MapOK
<1>16. ListsOK'
  <2>1. heap'[a].vrf_id = v
    BY <1>13
  <2>2. ASSUME NEW b \in DOMAIN heap' PROVE vrfs'[heap'[b].vrf_id].valid
    <3>1. heap'[b].vrf_id \in Vrf /\ vrfs[heap'[b].vrf_id].valid
      BY <1>13, <2>1 DEF TunInv, MapOK, ListsOK, Maps
    <3>2. QED
      BY <3>1, <1>9, Zenon
  <2>3. ToSet(List(v)') = {b \in DOMAIN heap' : heap'[b].vrf_id = v}
    BY <1>2, <1>3, <1>11, <1>13, <2>1
  <2>4. ASSUME NEW u \in Vrf \ {v}
        PROVE  ToSet(List(u)') = {b \in DOMAIN heap' : heap'[b].vrf_id = u}
    BY <1>11, <1>13, <2>1 DEF TunInv, ListsOK
  <2>5. QED
    BY <2>2, <2>3, <2>4 DEF ListsOK
<1>17. QED
  BY <1>12, <1>15, <1>16 DEF TunInv

LEMMA UnmapsInv ==
  ASSUME TunInv, NEW v \in Vrf, NEW k \in TunnelKey, Unmaps(v, k)
  PROVE  TunInv'
<1> DEFINE a == tun[k]
           t == RemoveFirst(List(v), a)
           q == [vrfs[v] EXCEPT !.tunnel_rmap = RemoveFirst(@, a), !.tunnel_cnt = @ - 1]
<1>1. vrfs \in [Vrf -> VrfRecord] /\ vrfs[v] \in VrfRecord
  BY DEF TunInv, SlotsOK
<1>2. /\ IsList(List(v)) /\ ToSet(List(v)) = {b \in DOMAIN heap : heap[b].vrf_id = v}
      /\ vrfs[v].tunnel_cnt = Len(List(v)) /\ a \in ToSet(List(v))
      /\ Len(List(v)) \in Nat
  BY LenProperties DEF TunInv, SlotsOK, ListsOK, Unmaps, IsList, IsListOf
<1>3. IsList(t) /\ ToSet(t) = ToSet(List(v)) \ {a} /\ Len(t) = Len(List(v)) - 1
  BY <1>2, ListRemove DEF IsList
<1>4. q = WithList(vrfs[v], t, Len(t))
  BY <1>2, <1>3 DEF List, WithList
<1>5. vrfs' = [vrfs EXCEPT ![v] = q]
  BY <1>1 DEF Unmaps
<1> HIDE DEF t
<1>6. t \in AddrSeq /\ Len(t) \in Int
  BY <1>2, <1>3 DEF IsList, IsListOf, AddrSeq
<1>7. /\ q \in VrfRecord /\ q.tunnel_rmap = t /\ q.tunnel_cnt = Len(t)
      /\ q.name = vrfs[v].name /\ q.valid = vrfs[v].valid
  <2> HIDE DEF q
  <2>1. OnlyList(q, vrfs[v], t, Len(t))
    BY <1>1, <1>4, <1>6, ListRecord, Zenon
  <2>2. QED
    BY <2>1, Zenon DEF OnlyList
<1> HIDE DEF q
<1>8. vrfs' \in [Vrf -> VrfRecord] /\ vrfs'[v] = q /\ \A u \in Vrf \ {v} : vrfs'[u] = vrfs[u]
  BY <1>1, <1>5, <1>7, SlotUpdate
<1>9. \A u \in Vrf : vrfs'[u].name = vrfs[u].name
  BY <1>7, <1>8
<1>10. \A u \in Vrf : vrfs'[u].valid = vrfs[u].valid
  BY <1>7, <1>8, Zenon
<1>11. Valid' = Valid
  BY <1>10, Zenon DEF Valid
<1>12. List(v)' = t /\ \A u \in Vrf \ {v} : List(u)' = List(u)
  BY <1>7, <1>8 DEF List
<1>13. SlotsOK'
  <2>1. vrf_n' = Cardinality(Valid') /\ tree' \in Trees
    BY <1>11 DEF Unmaps, TunInv, SlotsOK
  <2>2. \A u \in Vrf : IsList(List(u)') /\ vrfs'[u].tunnel_cnt = Len(List(u)')
    BY <1>3, <1>7, <1>8, <1>12 DEF TunInv, SlotsOK
  <2>3. /\ \A u \in Valid' : vrfs'[u].name \in Name
        /\ \A u, w \in Valid' : vrfs'[u].name = vrfs'[w].name => u = w
    BY <1>9, <1>11 DEF TunInv, SlotsOK, Valid
  <2>4. QED
    BY <1>8, <2>1, <2>2, <2>3 DEF SlotsOK
<1>14. /\ DOMAIN heap' = DOMAIN heap \ {a} /\ \A b \in DOMAIN heap' : heap'[b] = heap[b]
       /\ heap' = [b \in DOMAIN heap' |-> heap'[b]]
  BY DEF Unmaps, Del
<1>15. /\ DOMAIN tun \ {k} \subseteq DOMAIN tun' /\ DOMAIN tun' \subseteq DOMAIN tun
       /\ \A x \in DOMAIN tun' : tun'[x] = tun[x]
       /\ tun' = [x \in DOMAIN tun' |-> tun'[x]]
  BY DEF Unmaps, Del, TunInv, MapOK
<1>16. MapOK'
  <2>1. ASSUME NEW b \in DOMAIN heap'
        PROVE  /\ heap'[b] \in [key : TunnelKey, vrf_id : Vrf]
               /\ heap'[b].key \in DOMAIN tun' /\ tun'[heap'[b].key] = b
    <3>1. /\ heap[b] \in [key : TunnelKey, vrf_id : Vrf] /\ heap'[b] = heap[b]
          /\ heap[b].key \in DOMAIN tun /\ tun[heap[b].key] = b /\ b # a
      BY <1>14 DEF TunInv, MapOK
    <3>2. heap[b].key # k
      BY <3>1
    <3>3. QED
      BY <1>15, <3>1, <3>2
  <2>2. DOMAIN tun' \subseteq TunnelKey /\ DOMAIN heap' \subseteq Addr
    BY <1>14, <1>15 DEF TunInv, MapOK
  <2>3. QED
    BY <1>14, <1>15, <2>1, <2>2 DEF MapOK
<1>17. ListsOK'
  <2>1. ASSUME NEW b \in DOMAIN heap' PROVE vrfs'[heap'[b].vrf_id].valid
    <3>1. heap'[b].vrf_id \in Vrf /\ vrfs[heap'[b].vrf_id].valid
      BY <1>14 DEF TunInv, MapOK, ListsOK
    <3>2. QED
      BY <3>1, <1>10, Zenon
  <2>2. ToSet(List(v)') = {b \in DOMAIN heap' : heap'[b].vrf_id = v}
    BY <1>2, <1>3, <1>12, <1>14
  <2>3. ASSUME NEW u \in Vrf \ {v}
        PROVE  ToSet(List(u)') = {b \in DOMAIN heap' : heap'[b].vrf_id = u}
    <3>1. heap[a].vrf_id = v
      BY DEF Unmaps
    <3>2. QED
      BY <3>1, <1>12, <1>14 DEF TunInv, ListsOK
  <2>4. QED
    BY <2>1, <2>2, <2>3 DEF ListsOK
<1>18. QED
  BY <1>13, <1>16, <1>17 DEF TunInv

LEMMA TunInvInit == RuleInit => TunInv
<1> SUFFICES ASSUME RuleInit PROVE TunInv
  OBVIOUS
<1>1. Idle = [name |-> "", valid |-> FALSE, internal_ip |-> 0, route_mac |-> 0,
              tunnel_rmap |-> <<>>, tunnel_cnt |-> 0]
  BY DEF Idle
<1>2. Idle \in VrfRecord /\ Idle.valid = FALSE /\ Idle.tunnel_rmap = <<>> /\ Idle.tunnel_cnt = 0
  <2>1. /\ Idle.name = "" /\ Idle.valid = FALSE /\ Idle.internal_ip = 0 /\ Idle.route_mac = 0
        /\ Idle.tunnel_rmap = <<>> /\ Idle.tunnel_cnt = 0
    BY <1>1
  <2>2. Idle = [x \in Fields |-> Idle[x]]
    BY <1>1 DEF Fields
  <2>3. Idle.tunnel_cnt \in Int
    <3>1. Idle.tunnel_cnt = 0
      BY <2>1
    <3>2. QED
      BY <3>1
  <2>4. Idle \in VrfRecord
    BY <2>1, <2>2, <2>3, RecordIs, FieldValues, Zenon
  <2>5. QED
    BY <2>1, <2>4
<1>3. vrfs = [v \in Vrf |-> Idle] /\ vrf_n = 0 /\ tun = Empty /\ heap = Empty /\ tree \in Trees
  BY DEF RuleInit, VrfInit
<1>4. DOMAIN tun = {} /\ DOMAIN heap = {} /\ tun = [k \in {} |-> 0] /\ heap = [k \in {} |-> 0]
  BY <1>3 DEF Empty
<1>5. Valid = {}
  BY <1>2, <1>3 DEF Valid
<1>6. \A v \in Vrf : List(v) = <<>> /\ vrfs[v].tunnel_cnt = 0
  BY <1>2, <1>3 DEF List
<1>7. SlotsOK
  BY <1>2, <1>3, <1>5, <1>6, EmptyList, FS_EmptySet DEF SlotsOK
<1>8. MapOK /\ ListsOK
  BY <1>4, <1>6, EmptyList DEF MapOK, ListsOK
<1>9. QED
  BY <1>7, <1>8 DEF TunInv

LEMMA TunInvNext ==
  ASSUME ReuseKeys = FALSE
  PROVE  TunInv /\ [RuleNext]_cvars => TunInv'
<1> SUFFICES ASSUME TunInv, [RuleNext]_cvars PROVE TunInv'
  OBVIOUS
<1>1. Kind
  BY StepKind
<1>2. CASE Keeps
  BY <1>2 DEF Keeps, TunInv, SlotsOK, MapOK, ListsOK, List, Valid
<1>3. QED
  BY <1>1, <1>2, SetsInv, CreatesInv, RemovesInv, MapsInv, UnmapsInv DEF Kind

(* Slots, reverse lists, counters, hash and heap agree, however many VRFs  *)
(* and tunnels there are (vrf.c, tunnel_map.c): the updates that map,      *)
(* unmap and VRF destruction make one by one leave no tunnel_i in two      *)
(* lists, in the list of a free slot, or unreachable from its tunnel.      *)
THEOREM TunnelsConsistent ==
  ASSUME ReuseKeys = FALSE
  PROVE  RuleSpec => []TunnelsAgree
<1>1. RuleInit => TunInv
  BY TunInvInit
<1>2. TunInv /\ [RuleNext]_cvars => TunInv'
  BY TunInvNext
<1>3. TunInv => TunnelsAgree
  BY InvImpliesAgree
<1>4. QED
  BY <1>1, <1>2, <1>3, PTL DEF RuleSpec

-----------------------------------------------------------------------------
(* What callers see: the names of the VRFs and the tunnels whose tunnel_i  *)
(* is alive.                                                               *)

LEMMA LiveIs ==
  ASSUME TunInv, NEW k \in Live
  PROVE  /\ k \in DOMAIN tun /\ tun[k] \in DOMAIN heap /\ heap[tun[k]].key = k
         /\ k \in TunnelKey /\ heap[tun[k]].vrf_id \in Valid
BY DEF Live, Dangling, TunInv, MapOK, ListsOK, Valid

(* Steps that keep the names and slots of VRFs and every live tunnel. *)
LEMMA SameView ==
  ASSUME TunInv, UNCHANGED <<tun, heap>>,
         \A v \in Vrf : vrfs'[v].name = vrfs[v].name /\ vrfs'[v].valid = vrfs[v].valid
  PROVE  LiveNames' = LiveNames /\ Owner' = Owner
<1>1. Valid' = Valid
  BY Zenon DEF Valid
<1>2. \A v \in Valid : v \in Vrf /\ vrfs'[v].name = vrfs[v].name
  BY Zenon DEF Valid
<1>3. LiveNames' = LiveNames
  BY <1>1, <1>2, Zenon DEF LiveNames, Valid
<1>4. Live' = Live
  BY DEF Live, Dangling
<1>5. \A k \in Live : vrfs'[heap[tun[k]].vrf_id].name = vrfs[heap[tun[k]].vrf_id].name
  BY <1>2, LiveIs, Zenon
<1>6. QED
  BY <1>3, <1>4, <1>5 DEF Owner

(* There are no more names than VRFs. *)
LEMMA NamesBound ==
  ASSUME TunInv, NEW v \in Vrf, ~vrfs[v].valid
  PROVE  Cardinality(LiveNames) < Cardinality(Vrf)
<1>1. IsFiniteSet(Vrf) /\ Valid \subseteq Vrf /\ Valid # Vrf
  BY VrfAssumption DEF Valid
<1>2. /\ IsFiniteSet(Valid) /\ Cardinality(Valid) \in Nat /\ Cardinality(Vrf) \in Nat
      /\ Cardinality(Valid) < Cardinality(Vrf)
  BY <1>1, FS_Subset, FS_CardinalityType
<1>3. [u \in Valid |-> vrfs[u].name] \in Surjection(Valid, LiveNames)
  BY DEF Surjection, LiveNames, Valid
<1>4. Cardinality(LiveNames) <= Cardinality(Valid) /\ IsFiniteSet(LiveNames)
  BY <1>2, <1>3, FS_Surjection
<1>5. Cardinality(LiveNames) \in Nat
  BY <1>4, FS_CardinalityType
<1>6. QED
  BY <1>2, <1>4, <1>5

-----------------------------------------------------------------------------
(* Every kind of step is a step of TunnelTable or none.                    *)

LEMMA TTCardinality == \A S : TT!Cardinality(S) = Cardinality(S)
BY Zenon DEF TT!Cardinality, Cardinality

LEMMA CreatesView ==
  ASSUME TunInv, NEW n \in Name, NEW v \in Vrf, Creates(n, v)
  PROVE  TT!Create(n)
<1>1. vrfs \in [Vrf -> VrfRecord] /\ vrfs[v] \in VrfRecord
  BY DEF TunInv, SlotsOK
<1>2. DpCtor(vrfs[v], n) \in VrfRecord /\ vrfs' = [vrfs EXCEPT ![v] = DpCtor(vrfs[v], n)]
  BY <1>1, CtorRecord DEF Creates
<1>3. vrfs'[v].name = n /\ vrfs'[v].valid /\ \A u \in Vrf \ {v} : vrfs'[u] = vrfs[u]
  <2>1. vrfs'[v] = DpCtor(vrfs[v], n) /\ \A u \in Vrf \ {v} : vrfs'[u] = vrfs[u]
    BY <1>1, <1>2, SlotUpdate
  <2>2. DpCtor(vrfs[v], n).name = n /\ DpCtor(vrfs[v], n).valid = TRUE
    BY <1>1, CtorRecord
  <2>3. QED
    BY <2>1, <2>2
<1>4. v \notin Valid /\ Valid' = Valid \cup {v} /\ \A u \in Valid : vrfs'[u] = vrfs[u]
  BY <1>3 DEF Valid, Creates
<1>5. LiveNames' = LiveNames \cup {n}
  BY <1>3, <1>4 DEF LiveNames, Valid
<1>6. n \notin LiveNames
  BY DEF LiveNames, Valid, Creates
<1>7. Live' = Live
  BY DEF Creates, Live, Dangling
<1>8. Owner' = Owner
  <2>1. \A k \in Live : vrfs'[heap[tun[k]].vrf_id] = vrfs[heap[tun[k]].vrf_id]
    BY <1>4, LiveIs
  <2>2. QED
    BY <1>7, <2>1 DEF Owner, Creates
<1>9. TT!Cardinality(LiveNames) < Cardinality(Vrf)
  BY NamesBound, TTCardinality DEF Creates
<1>10. QED
  BY <1>5, <1>6, <1>8, <1>9 DEF TT!Create

LEMMA RemovesView ==
  ASSUME TunInv, NEW v \in Vrf, Removes(v)
  PROVE  \E n \in Name : TT!Remove(n)
<1> DEFINE n == vrfs[v].name
<1>1. vrfs \in [Vrf -> VrfRecord] /\ vrfs[v] \in VrfRecord
  BY DEF TunInv, SlotsOK
<1>2. v \in Valid /\ n \in Name /\ \A u \in Valid : vrfs[u].name = n => u = v
  BY DEF Removes, Valid, TunInv, SlotsOK
<1>3. ~vrfs'[v].valid /\ \A u \in Vrf \ {v} : vrfs'[u] = vrfs[u]
  <2>1. vrfs[v].tunnel_cnt = Len(vrfs[v].tunnel_rmap) /\ Len(vrfs[v].tunnel_rmap) \in Nat
    BY LenProperties DEF TunInv, SlotsOK, List, IsList, IsListOf
  <2>2. DpDtor(vrfs[v]) \in VrfRecord /\ DpDtor(vrfs[v]).valid = FALSE
    BY <1>1, <2>1, DtorRecord
  <2>3. vrfs'[v] = DpDtor(vrfs[v]) /\ \A u \in Vrf \ {v} : vrfs'[u] = vrfs[u]
    BY <1>1, <2>2, SlotUpdate DEF Removes
  <2>4. QED
    BY <2>2, <2>3
<1>4. Valid' = Valid \ {v} /\ \A u \in Valid \ {v} : vrfs'[u] = vrfs[u]
  BY <1>3 DEF Valid
<1>5. LiveNames' = LiveNames \ {n} /\ n \in LiveNames
  BY <1>2, <1>4 DEF LiveNames, Valid
<1>6. /\ DOMAIN heap' = {a \in DOMAIN heap : heap[a].vrf_id # v}
      /\ \A a \in DOMAIN heap' : heap'[a] = heap[a]
  BY DEF Removes, MapCleanup, TunInv, ListsOK, List
<1>7. /\ DOMAIN tun' \subseteq DOMAIN tun /\ \A k \in DOMAIN tun' : tun'[k] = tun[k]
      /\ TunnelKey \cap DOMAIN tun \subseteq DOMAIN tun'
  <2>1. <<"INVALID", 0>> \notin TunnelKey
    BY VrfAssumption DEF TunnelKey
  <2>2. tun' = tun \/ tun' = Del(tun, <<"INVALID", 0>>)
    BY DEF Removes, MapCleanup
  <2>3. QED
    BY <2>1, <2>2 DEF Del
<1>8. Live' = {k \in Live : heap[tun[k]].vrf_id # v}
  <2>1. ASSUME NEW k \in Live' PROVE k \in Live /\ heap[tun[k]].vrf_id # v
    BY <1>6, <1>7 DEF Live, Dangling
  <2>2. ASSUME NEW k \in Live, heap[tun[k]].vrf_id # v PROVE k \in Live'
    BY <2>2, <1>6, <1>7, LiveIs DEF Live, Dangling
  <2>3. QED
    BY <2>1, <2>2
<1>9. \A k \in Live : Owner[k] = n <=> heap[tun[k]].vrf_id = v
  BY <1>2, LiveIs DEF Owner
<1>10. Owner' = [k \in {x \in DOMAIN Owner : Owner[x] # n} |-> Owner[k]]
  <2>1. DOMAIN Owner = Live
    BY DEF Owner
  <2>2. Live' = {x \in DOMAIN Owner : Owner[x] # n}
    BY <1>8, <1>9, <2>1
  <2>3. ASSUME NEW k \in Live' PROVE vrfs'[heap'[tun'[k]].vrf_id].name = Owner[k]
    <3>1. k \in Live /\ heap[tun[k]].vrf_id # v /\ heap[tun[k]].vrf_id \in Valid
      BY <1>8, LiveIs
    <3>2. heap'[tun'[k]] = heap[tun[k]]
      BY <1>6, <1>7 DEF Live, Dangling
    <3>3. QED
      BY <1>4, <3>1, <3>2 DEF Owner
  <2>4. QED
    BY <2>2, <2>3 DEF Owner
<1>11. TT!Remove(n)
  <2> HIDE DEF n
  <2> QED BY <1>5, <1>10 DEF TT!Remove
<1>12. QED
  <2> HIDE DEF n
  <2> QED BY <1>2, <1>11

(* map and unmap change only the list of one VRF. *)
LEMMA SameNames ==
  ASSUME vrfs \in [Vrf -> VrfRecord], NEW v \in Vrf, NEW t, NEW c,
         vrfs' = [vrfs EXCEPT ![v].tunnel_rmap = t, ![v].tunnel_cnt = c]
  PROVE  \A u \in Vrf : vrfs'[u].name = vrfs[u].name /\ vrfs'[u].valid = vrfs[u].valid
<1>1. vrfs[v] \in VrfRecord
  OBVIOUS
<1>2. vrfs'[v] = [vrfs[v] EXCEPT !.tunnel_rmap = t, !.tunnel_cnt = c]
  OBVIOUS
<1>3. \A u \in Vrf \ {v} : vrfs'[u] = vrfs[u]
  OBVIOUS
<1>4. vrfs'[v].name = vrfs[v].name
  BY <1>1, <1>2 DEF VrfRecord
<1>5. vrfs'[v].valid = vrfs[v].valid
  BY <1>1, <1>2, Zenon DEF VrfRecord
<1>6. QED
  BY <1>3, <1>4, <1>5, Zenon

LEMMA MapsView ==
  ASSUME TunInv, NEW v \in Vrf, NEW k \in TunnelKey, NEW a \in Addr, Maps(v, k, a)
  PROVE  \E n \in Name : TT!MapTo(n, k)
<1> DEFINE n == vrfs[v].name
<1>1. v \in Valid /\ n \in Name
  BY DEF Maps, Valid, TunInv, SlotsOK
<1>2. \A u \in Vrf : vrfs'[u].name = vrfs[u].name /\ vrfs'[u].valid = vrfs[u].valid
  <2>1. vrfs \in [Vrf -> VrfRecord]
    BY DEF TunInv, SlotsOK
  <2>2. QED
    BY <2>1, SameNames DEF Maps
<1>3. Valid' = Valid /\ \A u \in Valid : vrfs'[u].name = vrfs[u].name
  BY <1>2, Zenon DEF Valid
<1>4. LiveNames' = LiveNames /\ n \in LiveNames
  BY <1>1, <1>3, Zenon DEF LiveNames, Valid
<1>5. /\ DOMAIN heap' = DOMAIN heap \cup {a} /\ heap'[a].key = k /\ heap'[a].vrf_id = v
      /\ \A b \in DOMAIN heap : b # a /\ heap'[b] = heap[b]
  BY DEF Maps, Put
<1>6. /\ DOMAIN tun' = DOMAIN tun \cup {k} /\ tun'[k] = a /\ k \notin DOMAIN tun
      /\ \A x \in DOMAIN tun : x # k /\ tun'[x] = tun[x]
  BY DEF Maps, Put
<1>7. k \notin Live /\ Live' = Live \cup {k}
  BY <1>5, <1>6 DEF Live, Dangling
<1>8. Owner' = [x \in Live \cup {k} |-> IF x = k THEN n ELSE Owner[x]]
  <2>1. vrfs'[heap'[tun'[k]].vrf_id].name = n
    BY <1>1, <1>3, <1>5, <1>6
  <2>2. ASSUME NEW x \in Live PROVE x # k /\ vrfs'[heap'[tun'[x]].vrf_id].name = Owner[x]
    <3>1. x \in DOMAIN tun /\ tun[x] \in DOMAIN heap /\ heap[tun[x]].vrf_id \in Valid
      BY LiveIs
    <3>2. QED
      BY <1>3, <1>5, <1>6, <3>1 DEF Owner
  <2>3. QED
    BY <1>7, <2>1, <2>2 DEF Owner
<1>9. TT!MapTo(n, k)
  <2>1. DOMAIN Owner = Live
    BY DEF Owner
  <2> HIDE DEF n
  <2>2. QED
    BY <1>4, <1>7, <1>8, <2>1 DEF TT!MapTo
<1>10. QED
  BY <1>1, <1>9

LEMMA UnmapsView ==
  ASSUME TunInv, NEW v \in Vrf, NEW k \in TunnelKey, Unmaps(v, k)
  PROVE  TT!Unmap(k)
<1> DEFINE a == tun[k]
<1>1. \A u \in Vrf : vrfs'[u].name = vrfs[u].name /\ vrfs'[u].valid = vrfs[u].valid
  <2>1. vrfs \in [Vrf -> VrfRecord]
    BY DEF TunInv, SlotsOK
  <2>2. QED
    BY <2>1, SameNames DEF Unmaps
<1>2. Valid' = Valid /\ \A u \in Valid : vrfs'[u].name = vrfs[u].name
  BY <1>1, Zenon DEF Valid
<1>3. LiveNames' = LiveNames
  BY <1>2, Zenon DEF LiveNames, Valid
<1>4. DOMAIN heap' = DOMAIN heap \ {a} /\ \A b \in DOMAIN heap' : heap'[b] = heap[b]
  BY DEF Unmaps, Del
<1>5. /\ DOMAIN tun \ {k} \subseteq DOMAIN tun' /\ DOMAIN tun' \subseteq DOMAIN tun
      /\ \A x \in DOMAIN tun' : tun'[x] = tun[x]
  BY DEF Unmaps, Del
<1>6. k \in Live /\ heap[a].key = k
  BY DEF Unmaps, Live, Dangling
<1>7. Live' = Live \ {k}
  <2>1. ASSUME NEW x \in Live' PROVE x \in Live \ {k}
    BY <1>4, <1>5 DEF Live, Dangling
  <2>2. ASSUME NEW x \in Live \ {k} PROVE x \in Live'
    BY <1>4, <1>5, <1>6 DEF Live, Dangling
  <2>3. QED
    BY <2>1, <2>2
<1>8. Owner' = [x \in Live \ {k} |-> Owner[x]]
  <2>1. ASSUME NEW x \in Live \ {k} PROVE vrfs'[heap'[tun'[x]].vrf_id].name = Owner[x]
    <3>1. x \in DOMAIN tun /\ tun[x] \in DOMAIN heap /\ heap[tun[x]].vrf_id \in Valid
          /\ tun[x] # a
      BY LiveIs, <1>6
    <3>2. QED
      BY <1>2, <1>4, <1>5, <3>1 DEF Owner
  <2>2. QED
    BY <1>7, <2>1 DEF Owner
<1>9. DOMAIN Owner = Live
  BY DEF Owner
<1>10. QED
  BY <1>3, <1>6, <1>8, <1>9 DEF TT!Unmap

(* What callers see of the VRF slots, lists, hash and heap is a            *)
(* TunnelTable: a tunnel belongs to the VRF it was mapped to until it is   *)
(* unmapped or the VRF goes, also when the slot of that VRF or the         *)
(* address of its tunnel_i is used again (ntb_tunnel_map_vrf,              *)
(* ntb_tunnel_unmap_vrf, ntb_tunnel_map_cleanup, vrf_add, vrf_del).        *)
THEOREM RefinesTunnels ==
  ASSUME ReuseKeys = FALSE
  PROVE  RuleSpec => RefinesTunnelTable
<1>1. RuleInit => TT!TTInit
  <2> SUFFICES ASSUME RuleInit PROVE TT!TTInit
    OBVIOUS
  <2>1. vrfs = [v \in Vrf |-> Idle] /\ tun = Empty
    BY DEF RuleInit, VrfInit
  <2>2. Idle.valid = FALSE
    BY DEF Idle
  <2>3. Valid = {} /\ DOMAIN tun = {}
    BY <2>1, <2>2 DEF Valid, Empty
  <2>4. LiveNames = {} /\ Live = {}
    BY <2>3 DEF LiveNames, Live, Valid
  <2>5. Owner = [k \in {} |-> {}]
    BY <2>4 DEF Owner
  <2>6. QED
    BY <2>4, <2>5 DEF TT!TTInit
<1>2. TunInv /\ [RuleNext]_cvars => [TT!TTNext]_<<LiveNames, Owner>>
  <2> SUFFICES ASSUME TunInv, [RuleNext]_cvars
               PROVE  TT!TTNext \/ (LiveNames' = LiveNames /\ Owner' = Owner)
    OBVIOUS
  <2>1. Kind
    BY StepKind
  <2>2. CASE Keeps
    BY <2>2, SameView DEF Keeps
  <2>3. CASE Sets
    BY <2>3, SameView DEF Sets, SameVrf
  <2>4. CASE \E n \in Name, v \in Vrf : Creates(n, v)
    BY <2>4, CreatesView DEF TT!TTNext
  <2>5. CASE \E v \in Vrf : Removes(v)
    BY <2>5, RemovesView DEF TT!TTNext
  <2>6. CASE \E v \in Vrf, k \in TunnelKey, a \in Addr : Maps(v, k, a)
    BY <2>6, MapsView DEF TT!TTNext
  <2>7. CASE \E v \in Vrf, k \in TunnelKey : Unmaps(v, k)
    BY <2>7, UnmapsView DEF TT!TTNext
  <2>8. QED
    BY <2>1, <2>2, <2>3, <2>4, <2>5, <2>6, <2>7 DEF Kind
<1>3. RuleInit => TunInv
  BY TunInvInit
<1>4. TunInv /\ [RuleNext]_cvars => TunInv'
  BY TunInvNext
<1>5. QED
  BY <1>1, <1>2, <1>3, <1>4, PTL DEF RuleSpec, RefinesTunnelTable, TT!TTSpec

-----------------------------------------------------------------------------
(* The route tables, under the calls of all parts of the agent.            *)

DpCtors(v) == dp' = [Fresh EXCEPT !.neigh_cnt[v] = 0]
DpDtors(v) == \E pos : dp' = Cleanup(Fresh, v, pos)

(* What a call makes of the route tables. *)
LEMMA StepDp ==
  ASSUME [RuleNext]_cvars
  PROVE  \/ dp' = dp \/ dp' = Fresh
         \/ \E v \in Vrf : DpCtors(v)
         \/ \E v \in Vrf : DpDtors(v)
         \/ RouteCalls
<1>1. CASE UNCHANGED cvars
  BY <1>1 DEF cvars, avars, vars
<1>2. ASSUME NEW n, VrfAdd(n)
      PROVE  dp' = Fresh \/ \E v \in Vrf : DpCtors(v)
  <2> DEFINE free == {v \in Vrf : ~vrfs[v].valid}
             v == Min(free)
  <2>1. dp' = Fresh \/ (free # {} /\ dp' = [Fresh EXCEPT !.neigh_cnt[v] = 0])
    BY <1>2 DEF VrfAdd
  <2>2. free # {} => v \in Vrf
    <3>1. free \in SUBSET Nat /\ free \subseteq Vrf
      BY VrfAssumption
    <3> HIDE DEF free
    <3>2. QED
      BY <3>1, MinIn
  <2> HIDE DEF free, v
  <2>3. QED
    BY <2>1, <2>2 DEF DpCtors
<1>3. ASSUME NEW n, NEW pos, VrfDel(n, pos)
      PROVE  dp' = Fresh \/ \E v \in Vrf : DpDtors(v)
  <2> DEFINE v == LookupVrf(n)
  <2>1. dp' = Fresh \/ (v # 0 /\ dp' = Cleanup(Fresh, v, pos))
    BY <1>3 DEF VrfDel
  <2>2. v # 0 => v \in Vrf
    BY LookupFinds DEF Valid
  <2> HIDE DEF v
  <2>3. QED
    BY <2>1, <2>2 DEF DpDtors
<1>4. ASSUME NEW n, NEW k, NEW f, NEW junk,
             VrfIdLookup(n) \/ TunnelMapVrf(n, k, f, junk)
      PROVE  dp' = Fresh
  BY <1>4 DEF VrfIdLookup, TunnelMapVrf
<1>5. ASSUME NEW n, NEW x, VrfIntipUnset(n) \/ VrfIntipSet(n, x) \/ VrfRmacSet(n, x) \/ VrfRmacUnset(n, x)
      PROVE  dp' = Fresh
  BY <1>5 DEF VrfIntipUnset, VrfIntipSet, VrfRmacSet, VrfRmacUnset, SetField
<1>6. ASSUME NEW k, NEW f, NEW junk, UnmapAgent(k, f, junk) \/ UnmapBak(k, junk)
      PROVE  dp' = Fresh
  BY <1>6 DEF UnmapAgent, UnmapBak
<1>7. ASSUME NEW vni, NEW src, NEW q, NEW op, NEW f, NEW junk,
             SwTohwRule(vni, src, q, op, f, junk)
      PROVE  dp' = Fresh
  BY <1>7 DEF SwTohwRule
<1>8. QED
  BY <1>1, <1>2, <1>3, <1>4, <1>5, <1>6, <1>7 DEF RuleNext, VrfNext

(* ntb_vrf_dp_ctor clears the neighbour count of the slot. *)
LEMMA CtorKeeps ==
  ASSUME NEW s, Consistent(s), NEW v \in Vrf
  PROVE  LET t == [s EXCEPT !.neigh_cnt[v] = 0]
         IN  /\ Consistent(t) /\ SameRoutes(s, t) /\ SameHops(s, t)
             /\ t.neigh = s.neigh /\ t.neigh_oids = s.neigh_oids
<1> DEFINE c == [s.neigh_cnt EXCEPT ![v] = 0]
           t == [s EXCEPT !.neigh_cnt = c]
<1>0. IsTables(s) /\ NeighInv(s)
  BY DEF Consistent, Sound
<1>1. c \in [Vrf -> 0 .. U32 - 1]
  <2>1. 0 \in 0 .. U32 - 1
    BY RouteAssumption
  <2>2. QED
    BY <1>0, <2>1 DEF NeighInv, NeighOK
<1> HIDE DEF c
<1>2. /\ IsTables(t) /\ SameRoutes(s, t) /\ SameHops(s, t) /\ t.neigh_cnt = c
      /\ t.neigh = s.neigh /\ t.neigh_count = s.neigh_count /\ t.neigh_oids = s.neigh_oids
  BY <1>0 DEF IsTables, SameRoutes, SameHops
<1> HIDE DEF t
<1>3. NeighInv(t)
  <2>1. NeighOK(t)
    BY <1>0, <1>1, <1>2 DEF NeighInv, NeighOK
  <2>2. HopEntries(t)
    BY <1>0, <1>2 DEF NeighInv, HopEntries, SameHops
  <2>3. \A x : NCount(t, x) = NCount(s, x) /\ NStatic(t, x) = NStatic(s, x)
    BY <1>2 DEF NCount, NStatic
  <2>4. \A x, g : Users(t, x, g) = Users(s, x, g)
    BY <1>2 DEF Users, SameHops
  <2>5. NeighsCounted(s) => NeighsCounted(t)
    BY <2>3, <2>4 DEF NeighsCounted
  <2>6. QED
    BY <1>0, <2>1, <2>2, <2>5 DEF NeighInv
<1>4. Consistent(t)
  BY <1>2, <1>3, ConsistentSame
<1>5. QED
  BY <1>2, <1>4 DEF t, c

LEMMA FreshConsistent ==
  ASSUME RouteInv
  PROVE  Consistent(Fresh)
BY FreshIs, NeighInvSame, ConsistentSame DEF RouteInv, Consistent, Sound

(* The route calls that a VRF is given. *)
LEMMA RouteCallsAre ==
  ASSUME RouteCalls
  PROVE  \E v \in Vrf : vrfs[v].valid /\
           \/ \E p \in Prefix, e \in EncapOf[v] : \E t, pos :
                \/ dp' = Insert(Fresh, v, p, e, t, "none", pos).dp
                \/ dp' = DeleteNhop(Fresh, v, p, e, t, "none", pos).dp
           \/ \E g \in Static[v] : dp' = StaticAdd(Fresh, v, g, "none").dp
BY DEF RouteCalls, RouteNhopInsert, RouteNhopDelete, OlNeighAddStatic

LEMMA RuleRouteStep ==
  RouteInv /\ [RuleNext]_cvars => RouteInv'
<1> SUFFICES ASSUME RouteInv, [RuleNext]_cvars
             PROVE  Consistent(dp')
  BY DEF RouteInv
<1>1. Consistent(dp) /\ Consistent(Fresh)
  BY FreshConsistent DEF RouteInv
<1>2. ASSUME NEW v \in Vrf, DpCtors(v) \/ DpDtors(v)
      PROVE  Consistent(dp')
  BY <1>1, <1>2, CtorKeeps, CleanupKeeps DEF DpCtors, DpDtors
<1>3. CASE RouteCalls
  <2>1. PICK v \in Vrf :
           \/ \E p \in Prefix, e \in EncapOf[v] : \E t, pos :
                \/ dp' = Insert(Fresh, v, p, e, t, "none", pos).dp
                \/ dp' = DeleteNhop(Fresh, v, p, e, t, "none", pos).dp
           \/ \E g \in Static[v] : dp' = StaticAdd(Fresh, v, g, "none").dp
    BY <1>3, RouteCallsAre
  <2>2. ASSUME NEW p \in Prefix, NEW e \in EncapOf[v], NEW t, NEW pos,
               \/ dp' = Insert(Fresh, v, p, e, t, "none", pos).dp
               \/ dp' = DeleteNhop(Fresh, v, p, e, t, "none", pos).dp
        PROVE  Consistent(dp')
    BY <1>1, <2>2, InsertKeeps, DeleteNhopKeeps
  <2>3. ASSUME NEW g \in Static[v], dp' = StaticAdd(Fresh, v, g, "none").dp
        PROVE  Consistent(dp')
    <3>1. IsTables(dp') /\ SameRoutes(Fresh, dp') /\ SameHops(Fresh, dp')
      BY <1>1, <2>3, StaticAddKeeps DEF Consistent, Sound
    <3>2. NeighInv(dp')
      BY <1>1, <2>3, StaticAddNeigh, NeighAssumption DEF Consistent, Sound
    <3>3. QED
      BY <1>1, <3>1, <3>2, ConsistentSame
  <2>4. QED
    BY <2>1, <2>2, <2>3
<1>4. QED
  BY <1>1, <1>2, <1>3, StepDp

(* The tables of route.c stay consistent however VRFs come and go. *)
LEMMA RuleRouteInvariant ==
  RuleSpec => []RouteInv
<1>1. RuleInit => RouteInv
  BY RouteInitOK DEF RuleInit, VrfInit
<1>2. QED
  BY <1>1, RuleRouteStep, PTL DEF RuleSpec

-----------------------------------------------------------------------------
(* Free slots.                                                             *)

LEMMA SwitchedKeys ==
  ASSUME NEW s, NEW t, NEW v, NEW p, NEW new, NEW r, Switched(s, t, v, p, new, r)
  PROVE  DOMAIN t.rib = DOMAIN s.rib \cup {<<v, p>>}
<1>1. t.rib = Put(s.rib, <<v, p>>, new)
  BY DEF Switched
<1>2. QED
  BY <1>1 DEF Put

LEMMA GoneKeys ==
  ASSUME NEW s, NEW t, NEW v, NEW p, Gone(s, t, v, p)
  PROVE  DOMAIN t.rib = DOMAIN s.rib \ {<<v, p>>}
<1>1. t.rib = Del(s.rib, <<v, p>>)
  BY DEF Gone
<1>2. QED
  BY <1>1, DelIs

(* Only a valid VRF is given routes. *)
LEMMA NewKeys ==
  ASSUME RouteInv, [RuleNext]_cvars
  PROVE  \A k \in DOMAIN dp'.rib : k \in DOMAIN dp.rib \/ (k[1] \in Vrf /\ vrfs[k[1]].valid)
<1>1. Consistent(dp) /\ Consistent(Fresh) /\ Fresh.rib = dp.rib
  BY FreshConsistent, FreshIs DEF RouteInv, Consistent, Sound, SameRoutes
<1>2. ASSUME NEW v \in Vrf, DpCtors(v) \/ DpDtors(v)
      PROVE  DOMAIN dp'.rib \subseteq DOMAIN dp.rib
  <2>1. CASE DpCtors(v)
    BY <1>1, <2>1, CtorKeeps DEF DpCtors, SameRoutes
  <2>2. CASE DpDtors(v)
    <3>1. Cleaned(Fresh, dp', v)
      BY <1>1, <2>2, CleanupKeeps DEF DpDtors
    <3>2. QED
      BY <1>1, <3>1 DEF Cleaned
  <2>3. QED
    BY <1>2, <2>1, <2>2
<1>3. CASE RouteCalls
  <2>1. PICK v \in Vrf : vrfs[v].valid /\
           (\/ \E p \in Prefix, e \in EncapOf[v] : \E t, pos :
                \/ dp' = Insert(Fresh, v, p, e, t, "none", pos).dp
                \/ dp' = DeleteNhop(Fresh, v, p, e, t, "none", pos).dp
            \/ \E g \in Static[v] : dp' = StaticAdd(Fresh, v, g, "none").dp)
    BY <1>3, RouteCallsAre
  <2>2. ASSUME NEW p \in Prefix, NEW e \in EncapOf[v], NEW t, NEW pos,
               dp' = Insert(Fresh, v, p, e, t, "none", pos).dp
        PROVE  DOMAIN dp'.rib \subseteq DOMAIN dp.rib \cup {<<v, p>>}
    <3>1. SameRoutes(Fresh, dp') \/ Added(Fresh, dp', v, p, e, t)
      BY <1>1, <2>2, InsertKeeps
    <3>2. QED
      BY <1>1, <3>1, SwitchedKeys DEF Added, SameRoutes
  <2>3. ASSUME NEW p \in Prefix, NEW e \in EncapOf[v], NEW t, NEW pos,
               dp' = DeleteNhop(Fresh, v, p, e, t, "none", pos).dp
        PROVE  DOMAIN dp'.rib \subseteq DOMAIN dp.rib \cup {<<v, p>>}
    <3>1. SameRoutes(Fresh, dp') \/ Gone(Fresh, dp', v, p) \/ Removed(Fresh, dp', v, p, e, t)
      BY <1>1, <2>3, DeleteNhopKeeps
    <3>2. QED
      BY <1>1, <3>1, SwitchedKeys, GoneKeys DEF Removed, SameRoutes
  <2>4. ASSUME NEW g \in Static[v], dp' = StaticAdd(Fresh, v, g, "none").dp
        PROVE  DOMAIN dp'.rib \subseteq DOMAIN dp.rib
    BY <1>1, <2>4, StaticAddKeeps DEF Consistent, Sound, SameRoutes
  <2>5. QED
    BY <2>1, <2>2, <2>3, <2>4
<1>4. QED
  BY <1>1, <1>2, <1>3, StepDp

(* ntb_vrf_dp_ctor resets neither the address of a slot nor its routes: it *)
(* relies on the destructor, and on callers who use valid VRFs only.       *)
FreeSlots ==
  \A v \in Vrf : ~vrfs[v].valid => vrfs[v].internal_ip = 0 /\ \A k \in DOMAIN dp.rib : k[1] # v

(* What a call makes of a slot. *)
Stays(v) == vrfs[v].valid /\ vrfs'[v].valid
Starts(v) ==
  /\ ~vrfs[v].valid /\ vrfs'[v].valid /\ UNCHANGED heap
  /\ vrfs'[v].internal_ip = vrfs[v].internal_ip /\ vrfs'[v].tunnel_rmap = <<>>
Ends(v) == ~vrfs'[v].valid /\ vrfs'[v].internal_ip = 0 /\ DpDtors(v)

LEMMA SlotStep ==
  ASSUME TunInv, ReuseKeys = FALSE, [RuleNext]_cvars, NEW v \in Vrf
  PROVE  vrfs'[v] = vrfs[v] \/ Stays(v) \/ Starts(v) \/ Ends(v)
<1>1. vrfs \in [Vrf -> VrfRecord] /\ vrfs[v] \in VrfRecord
  BY DEF TunInv, SlotsOK
<1>2. CASE Keeps
  BY <1>2 DEF Keeps
<1>3. CASE Sets
  BY <1>3, Zenon DEF Sets, SameVrf, Valid, Stays
<1>4. ASSUME NEW n \in Name, NEW u \in Vrf, Creates(n, u)
      PROVE  vrfs'[v] = vrfs[v] \/ Starts(v)
  <2> DEFINE q == DpCtor(vrfs[u], n)
  <2>1. /\ vrfs[u] \in VrfRecord /\ q \in VrfRecord /\ q.valid = TRUE
        /\ q.internal_ip = vrfs[u].internal_ip /\ q.tunnel_rmap = <<>>
    <3>1. vrfs[u] \in VrfRecord
      BY <1>1
    <3>2. QED
      BY <3>1, CtorRecord
  <2>2. vrfs' = [vrfs EXCEPT ![u] = q] /\ ~vrfs[u].valid /\ UNCHANGED heap
    BY <1>4 DEF Creates
  <2> HIDE DEF q
  <2>3. vrfs'[u] = q /\ \A x \in Vrf \ {u} : vrfs'[x] = vrfs[x]
    BY <1>1, <2>1, <2>2, SlotUpdate
  <2>4. CASE v = u
    BY <2>1, <2>2, <2>3, <2>4 DEF Starts
  <2>5. QED
    BY <2>3, <2>4
<1>5. ASSUME NEW u \in Vrf, Removes(u)
      PROVE  vrfs'[v] = vrfs[v] \/ Ends(v)
  <2> DEFINE q == DpDtor(vrfs[u])
  <2>1. q \in VrfRecord /\ q.internal_ip = 0 /\ q.valid = FALSE
    <3>1. /\ vrfs[u].tunnel_cnt = Len(vrfs[u].tunnel_rmap) /\ Len(vrfs[u].tunnel_rmap) \in Nat
          /\ vrfs[u] \in VrfRecord
      BY <1>1, LenProperties DEF TunInv, SlotsOK, List, IsList, IsListOf
    <3>2. QED
      BY <3>1, DtorRecord
  <2>2. vrfs' = [vrfs EXCEPT ![u] = q] /\ DpDtors(u)
    BY <1>5 DEF Removes, DpDtors
  <2> HIDE DEF q
  <2>3. vrfs'[u] = q /\ \A x \in Vrf \ {u} : vrfs'[x] = vrfs[x]
    BY <1>1, <2>1, <2>2, SlotUpdate
  <2>4. QED
    BY <2>1, <2>2, <2>3 DEF Ends
<1>6. ASSUME NEW u \in Vrf, NEW k, NEW a, Maps(u, k, a) \/ Unmaps(u, k)
      PROVE  vrfs'[v] = vrfs[v] \/ Stays(v)
  <2>1. PICK t, c : vrfs' = [vrfs EXCEPT ![u] = WithList(vrfs[u], t, c)] /\ vrfs[u].valid
    <3>1. CASE Maps(u, k, a)
      <4> DEFINE l == <<a>> \o vrfs[u].tunnel_rmap
                 n == vrfs[u].tunnel_cnt + 1
      <4>1. vrfs' = [vrfs EXCEPT ![u] = WithList(vrfs[u], l, n)] /\ vrfs[u].valid
        BY <1>1, <3>1 DEF Maps, WithList
      <4> HIDE DEF l, n
      <4>2. QED
        BY <4>1
    <3>2. CASE Unmaps(u, k)
      <4> DEFINE l == RemoveFirst(vrfs[u].tunnel_rmap, tun[k])
                 n == vrfs[u].tunnel_cnt - 1
      <4>1. vrfs' = [vrfs EXCEPT ![u] = WithList(vrfs[u], l, n)] /\ vrfs[u].valid
        BY <1>1, <3>2 DEF Unmaps, WithList
      <4> HIDE DEF l, n
      <4>2. QED
        BY <4>1
    <3>3. QED
      BY <1>6, <3>1, <3>2
  <2> DEFINE q == WithList(vrfs[u], t, c)
  <2>2. q.valid = vrfs[u].valid
    BY <1>1, Zenon DEF WithList, VrfRecord
  <2> HIDE DEF q
  <2>3. vrfs'[u] = q /\ \A x \in Vrf \ {u} : vrfs'[x] = vrfs[x]
    BY <1>1, <2>1 DEF q
  <2>4. CASE v = u
    BY <2>1, <2>2, <2>3, <2>4, Zenon DEF Stays
  <2>5. QED
    BY <2>3, <2>4
<1>7. QED
  BY <1>2, <1>3, <1>4, <1>5, <1>6, StepKind DEF Kind

LEMMA FreeSlotsStep ==
  ReuseKeys = FALSE
    => (TunInv /\ RouteInv /\ FreeSlots /\ [RuleNext]_cvars => FreeSlots')
<1> SUFFICES ASSUME ReuseKeys = FALSE, TunInv, RouteInv, FreeSlots, [RuleNext]_cvars,
                    NEW v \in Vrf, ~vrfs'[v].valid
             PROVE  vrfs'[v].internal_ip = 0 /\ \A k \in DOMAIN dp'.rib : k[1] # v
  BY DEF FreeSlots
<1>1. CASE ~vrfs[v].valid /\ vrfs'[v] = vrfs[v]
  BY <1>1, NewKeys DEF FreeSlots
<1>2. CASE Ends(v)
  <2>1. PICK pos : dp' = Cleanup(Fresh, v, pos)
    BY <1>2 DEF Ends, DpDtors
  <2>2. Cleaned(Fresh, dp', v)
    BY <2>1, FreshConsistent, CleanupKeeps
  <2>3. QED
    BY <1>2, <2>2 DEF Cleaned, Ends
<1>3. QED
  BY <1>1, <1>2, SlotStep DEF Stays, Starts

(* A next hop exists while a route uses it, and only as long. *)
LEMMA HopIsUsed ==
  ASSUME NEW s, Consistent(s), NEW e \in Encap
  PROVE  e \in DOMAIN s.nhop <=>
           \E k \in DOMAIN s.rib : e \in EncapOf[k[1]] /\ e \in ToSet(s.res[s.rib[k]].mpath)
<1>1. RoutesOK(s) /\ HopsOK(s) /\ Counted(s, {})
  BY DEF Consistent, Sound
<1>2. IsFiniteSet(Using(s, e)) /\ Using(s, e) \subseteq 1 .. NrFibRes
  BY <1>1, UsingFinite
<1>3. Count(s, e) = Cardinality(Using(s, e))
  <2>1. Cardinality(Using(s, e)) \in Nat
    BY <1>2, FS_CardinalityType
  <2>2. QED
    BY <1>1, <2>1 DEF Counted, Ind
<1>4. e \in DOMAIN s.nhop <=> Count(s, e) # 0
  BY <1>1 DEF Count, HopsOK
<1>5. e \in DOMAIN s.nhop <=> Using(s, e) # {}
  <2> DEFINE U == Using(s, e)
  <2> HIDE DEF U
  <2>1. IsFiniteSet(U) => (Cardinality(U) = 0 <=> U = {})
    BY FS_EmptySet
  <2>2. QED
    BY <1>2, <1>3, <1>4, <2>1 DEF U
<1>6. Using(s, e) # {} <=> \E k \in DOMAIN s.rib : e \in ToSet(s.res[s.rib[k]].mpath)
  <2>1. ASSUME NEW i \in Using(s, e)
        PROVE  \E k \in DOMAIN s.rib : e \in ToSet(s.res[s.rib[k]].mpath)
    <3>1. i \in DOMAIN s.res /\ i # 0 /\ e \in ToSet(s.res[i].mpath)
      BY <1>2 DEF Using
    <3>2. PICK k \in DOMAIN s.rib : s.rib[k] = i
      BY <1>1, <3>1 DEF RoutesOK
    <3>3. QED
      BY <3>1, <3>2
  <2>2. ASSUME NEW k \in DOMAIN s.rib, e \in ToSet(s.res[s.rib[k]].mpath)
        PROVE  s.rib[k] \in Using(s, e)
    BY <1>1, <2>2 DEF RoutesOK, Using
  <2>3. QED
    BY <2>1, <2>2
<1>7. \A k \in DOMAIN s.rib : ToSet(s.res[s.rib[k]].mpath) \subseteq EncapOf[k[1]]
  <2> SUFFICES ASSUME NEW k \in DOMAIN s.rib
               PROVE  ToSet(s.res[s.rib[k]].mpath) \subseteq EncapOf[k[1]]
    OBVIOUS
  <2> DEFINE l == s.res[s.rib[k]].mpath
  <2>1. l \in Seq(EncapOf[k[1]])
    BY <1>1 DEF RoutesOK, IsListOf
  <2> HIDE DEF l
  <2>2. ToSet(l) \subseteq EncapOf[k[1]]
    BY <2>1, ToSetIs
  <2>3. QED
    BY <2>2 DEF l
<1>8. QED
  BY <1>5, <1>6, <1>7

NewVrfEmpty(v) ==
  /\ vrfs[v].internal_ip = 0 /\ vrfs[v].tunnel_rmap = <<>>
  /\ \A a \in DOMAIN heap : heap[a].vrf_id # v
  /\ \A k \in DOMAIN dp.rib \cup DOMAIN dp.fib : k[1] # v
  /\ dp.rib_cnt[v] = 0
  /\ EncapOf[v] \cap DOMAIN dp.nhop = {}

LEMMA NewVrfStep ==
  Disjoint /\ ReuseKeys = FALSE
    => (TunInv /\ RouteInv /\ RouteInv' /\ FreeSlots /\ [RuleNext]_cvars
          => \A v \in Vrf : ~vrfs[v].valid /\ vrfs'[v].valid => NewVrfEmpty(v)')
<1> SUFFICES ASSUME Disjoint, ReuseKeys = FALSE, TunInv, RouteInv, RouteInv', FreeSlots,
                    [RuleNext]_cvars, NEW v \in Vrf, ~vrfs[v].valid, vrfs'[v].valid
             PROVE  NewVrfEmpty(v)'
  OBVIOUS
<1>1. Starts(v)
  BY SlotStep DEF Stays, Ends
<1>2. vrfs'[v].internal_ip = 0 /\ vrfs'[v].tunnel_rmap = <<>>
  BY <1>1 DEF Starts, FreeSlots
<1>3. \A a \in DOMAIN heap' : heap'[a].vrf_id # v
  BY <1>1 DEF Starts, TunInv, ListsOK
<1>4. Consistent(dp') /\ RoutesOK(dp')
  BY DEF RouteInv, Consistent, Sound
<1>5. \A k \in DOMAIN dp'.rib : k[1] # v
  BY NewKeys DEF FreeSlots
<1>6. dp'.fib = dp'.rib /\ dp'.rib_cnt[v] = 0
  <2>1. PrefixesOf(dp', v) = {}
    BY <1>5 DEF PrefixesOf
  <2>2. QED
    BY <1>4, <2>1, FS_EmptySet DEF RoutesOK
<1>7. EncapOf[v] \cap DOMAIN dp'.nhop = {}
  <2> SUFFICES ASSUME NEW e \in EncapOf[v], e \in DOMAIN dp'.nhop
               PROVE  FALSE
    OBVIOUS
  <2>1. e \in Encap
    BY RouteAssumption
  <2>2. PICK k \in DOMAIN dp'.rib : e \in EncapOf[k[1]]
    BY <1>4, <2>1, HopIsUsed
  <2>3. k[1] \in Vrf /\ k[1] # v
    BY <1>4, <1>5 DEF RoutesOK, Key
  <2>4. QED
    BY <2>2, <2>3 DEF Disjoint
<1>8. QED
  BY <1>2, <1>3, <1>5, <1>6, <1>7 DEF NewVrfEmpty

LEMMA FreeSlotsInit ==
  RuleInit => FreeSlots
<1> SUFFICES ASSUME RuleInit, NEW v \in Vrf
             PROVE  vrfs[v].internal_ip = 0 /\ \A k \in DOMAIN dp.rib : k[1] # v
  BY DEF FreeSlots
<1>1. vrfs[v].internal_ip = 0
  BY DEF RuleInit, VrfInit, Idle
<1>2. DOMAIN dp.rib = {}
  BY DEF RuleInit, VrfInit, RouteInit
<1>3. QED
  BY <1>1, <1>2

(* Free slots are without address and routes. *)
LEMMA SlotsInvariant ==
  ASSUME ReuseKeys = FALSE
  PROVE  RuleSpec => [](TunInv /\ RouteInv /\ FreeSlots)
<1>1. RuleInit => TunInv /\ FreeSlots
  BY TunInvInit, FreeSlotsInit
<1>2. TunInv /\ RouteInv /\ FreeSlots /\ [RuleNext]_cvars => TunInv' /\ FreeSlots'
  BY TunInvNext, FreeSlotsStep
<1>3. QED
  BY <1>1, <1>2, RuleRouteInvariant, PTL DEF RuleSpec

(* A slot that ntb_vrf_add takes over holds nothing of the VRF that had it *)
(* before, although ntb_vrf_dp_ctor clears only three of its fields: the   *)
(* destructor, the cleanup of its tunnels and the deletion of its routes,  *)
(* which gives back every next hop, have left nothing behind.              *)
THEOREM NewVrfsEmpty ==
  ASSUME Disjoint, ReuseKeys = FALSE
  PROVE  RuleSpec => NewVrfIsEmpty
<1> DEFINE A == \A v \in Vrf : ~vrfs[v].valid /\ vrfs'[v].valid => NewVrfEmpty(v)'
<1>1. TunInv /\ RouteInv /\ RouteInv' /\ FreeSlots /\ [RuleNext]_cvars => A
  BY NewVrfStep
<1>2. A => \A v \in Vrf : ~vrfs[v].valid /\ vrfs'[v].valid =>
       /\ vrfs'[v].internal_ip = 0 /\ vrfs'[v].tunnel_rmap = <<>>
       /\ \A a \in DOMAIN heap' : heap'[a].vrf_id # v
       /\ \A k \in DOMAIN dp'.rib \cup DOMAIN dp'.fib : k[1] # v
       /\ dp'.rib_cnt[v] = 0
       /\ EncapOf[v] \cap DOMAIN dp'.nhop = {}
  BY DEF NewVrfEmpty
<1> HIDE DEF A
<1>3. QED
  BY <1>1, <1>2, SlotsInvariant, PTL DEF RuleSpec, NewVrfIsEmpty

-----------------------------------------------------------------------------
(* Object ids.  A next hop and a neighbour get an id when they are created *)
(* and keep it; ids are never given back.                                  *)

Shaped(s) ==
  /\ IsTables(s) /\ s.nh_oids \in Nat /\ s.neigh_oids \in Nat
  /\ \A e \in DOMAIN s.nhop : DOMAIN s.nhop[e] = HopRecord
  /\ \A k \in DOMAIN s.neigh : DOMAIN s.neigh[k] = {"refcnt", "static", "neigh_oid"}

HopIdsStay(s, t) ==
  /\ DOMAIN t.nhop \subseteq DOMAIN s.nhop /\ s.nh_oids <= t.nh_oids
  /\ \A e \in DOMAIN t.nhop : /\ t.nhop[e].nh_oid = s.nhop[e].nh_oid
                              /\ t.nhop[e].neigh_oid = s.nhop[e].neigh_oid
NeighIdsStay(s, t) ==
  /\ DOMAIN t.neigh \subseteq DOMAIN s.neigh /\ s.neigh_oids <= t.neigh_oids
  /\ \A k \in DOMAIN t.neigh : t.neigh[k].neigh_oid = s.neigh[k].neigh_oid

(* t has no object that s has not. *)
Shrinks(s, t) == Shaped(t) /\ HopIdsStay(s, t) /\ NeighIdsStay(s, t)

LEMMA SoundShaped ==
  ASSUME NEW s, IsTables(s), HopsOK(s), NeighInv(s)
  PROVE  Shaped(s)
<1>1. IsTables(s) /\ HopsOK(s) /\ NeighOK(s) /\ HopEntries(s)
  BY DEF NeighInv
<1>2. s.nh_oids \in Nat /\ s.neigh_oids \in Nat
  BY <1>1, RouteAssumption DEF HopEntries, NeighOK
<1>3. \A k \in DOMAIN s.neigh : DOMAIN s.neigh[k] = {"refcnt", "static", "neigh_oid"}
  <2> SUFFICES ASSUME NEW k \in DOMAIN s.neigh
               PROVE  DOMAIN s.neigh[k] = {"refcnt", "static", "neigh_oid"}
    OBVIOUS
  <2> DEFINE n == s.neigh[k]
             a == n.refcnt
             b == n.static
             c == n.neigh_oid
  <2>1. n = [refcnt |-> a, static |-> b, neigh_oid |-> c]
    BY <1>1 DEF NeighOK, NeighRecord
  <2> HIDE DEF n, a, b, c
  <2>2. DOMAIN n = {"refcnt", "static", "neigh_oid"}
    BY <2>1
  <2>3. QED
    BY <2>2 DEF n
<1>4. QED
  BY <1>1, <1>2, <1>3 DEF Shaped, HopsOK

LEMMA ConsistentShaped ==
  ASSUME NEW s, Consistent(s)
  PROVE  Shaped(s)
BY SoundShaped DEF Consistent, Sound

LEMMA SameShrinks ==
  ASSUME NEW s, Shaped(s), NEW t, IsTables(t), SameHops(s, t), SameNeigh(s, t)
  PROVE  Shrinks(s, t)
BY DEF Shrinks, Shaped, SameHops, SameNeigh, HopIdsStay, NeighIdsStay

LEMMA ShrinksOn ==
  ASSUME NEW s, NEW t, NEW u, Shaped(s), Shrinks(s, t), Shrinks(t, u)
  PROVE  Shrinks(s, u)
<1>1. HopIdsStay(s, u)
  BY DEF Shrinks, Shaped, HopIdsStay
<1>2. NeighIdsStay(s, u)
  BY DEF Shrinks, Shaped, NeighIdsStay
<1>3. QED
  BY <1>1, <1>2 DEF Shrinks

LEMMA NeighDelOids ==
  ASSUME NEW s, IsTables(s), NEW v, NEW g
  PROVE  NeighDel(s, v, g).dp.neigh_oids = s.neigh_oids
BY DEF NeighDel, Outcome, IsTables

LEMMA NeighDelShrinks ==
  ASSUME NEW s, Shaped(s), NEW v, NEW g
  PROVE  Shrinks(s, NeighDel(s, v, g).dp)
<1> DEFINE k == <<v, g>>
           t == NeighDel(s, v, g).dp
           c == [s.neigh_cnt EXCEPT ![v] = Dec(@)]
           n == Dec(s.neigh_count)
           r == [s.neigh EXCEPT ![k].refcnt = @ - 1]
           d == Del(s.neigh, k)
<1>1. \/ t = s \/ t = [s EXCEPT !.neigh = r]
      \/ t = [s EXCEPT !.neigh = d, !.neigh_cnt = c, !.neigh_count = n]
  BY DEF NeighDel, Outcome
<1>2. IsTables(t) /\ SameHops(s, t) /\ t.neigh_oids = s.neigh_oids /\ t.neigh \in {s.neigh, r, d}
  <2> HIDE DEF t, r, d, c, n
  <2>1. IsTables(s)
    BY DEF Shaped
  <2>2. CASE t = s
    BY <2>1, <2>2 DEF SameHops
  <2>3. CASE t = [s EXCEPT !.neigh = r]
    BY <2>1, <2>3 DEF SameHops, IsTables
  <2>4. CASE t = [s EXCEPT !.neigh = d, !.neigh_cnt = c, !.neigh_count = n]
    BY <2>1, <2>4 DEF SameHops, IsTables
  <2>5. QED
    BY <1>1, <2>2, <2>3, <2>4
<1> DEFINE F == {"refcnt", "static", "neigh_oid"}
<1>3. /\ DOMAIN r = DOMAIN s.neigh /\ \A x \in DOMAIN r : DOMAIN r[x] = F
      /\ \A x \in DOMAIN r : r[x].neigh_oid = s.neigh[x].neigh_oid
  BY DEF Shaped
<1>4. /\ DOMAIN d \subseteq DOMAIN s.neigh
      /\ \A x \in DOMAIN d : d[x] = s.neigh[x]
  BY DEF Del
<1> HIDE DEF t, r, d
<1>5. /\ DOMAIN t.neigh \subseteq DOMAIN s.neigh
      /\ \A x \in DOMAIN t.neigh : DOMAIN t.neigh[x] = F /\ t.neigh[x].neigh_oid = s.neigh[x].neigh_oid
  BY <1>2, <1>3, <1>4 DEF Shaped
<1>6. QED
  BY <1>2, <1>5 DEF Shrinks, Shaped, HopIdsStay, NeighIdsStay, SameHops, t

LEMMA NhopDeleteShrinks ==
  ASSUME NEW s, Shaped(s), NEW v, NEW e, NEW pos
  PROVE  Shrinks(s, NhopDelete(s, v, e, pos))
<1> DEFINE h == [s.nhop EXCEPT ![e].ref_count = Dec(@)]
           d == Del(h, e)
           s1 == [s EXCEPT !.nhop[e].ref_count = Dec(@)]
           s0 == [s1 EXCEPT !.nhop = Del(@, e)]
           at == DelKey(s1.nhop, e, pos.nhop)
           s2 == Fails(s0, 522, 0 <= at)
           n == NeighDel(s2, v, Gateway[e])
           t == NhopDelete(s, v, e, pos)
<1>1. /\ DOMAIN h = DOMAIN s.nhop /\ \A x \in DOMAIN h : DOMAIN h[x] = HopRecord
      /\ \A x \in DOMAIN h : h[x].nh_oid = s.nhop[x].nh_oid /\ h[x].neigh_oid = s.nhop[x].neigh_oid
  BY DEF Shaped, HopRecord
<1>2. DOMAIN d \subseteq DOMAIN h /\ \A x \in DOMAIN d : d[x] = h[x]
  BY DEF Del
<1>3. IsTables(s1) /\ SameNeigh(s, s1) /\ s1.nh_oids = s.nh_oids /\ s1.nhop = h
  <2> HIDE DEF h
  <2>1. s1 = [s EXCEPT !.nhop = h]
    BY DEF h
  <2> HIDE DEF s1
  <2>2. QED
    BY <2>1 DEF Shaped, IsTables, SameNeigh
<1>4. IsTables(s0) /\ SameNeigh(s, s0) /\ s0.nh_oids = s.nh_oids /\ s0.nhop = d
  <2> HIDE DEF d, h, s1
  <2>1. s0 = [s1 EXCEPT !.nhop = d]
    BY <1>3 DEF d
  <2> HIDE DEF s0
  <2>2. QED
    BY <1>3, <2>1 DEF IsTables, SameNeigh
<1> HIDE DEF h, d
<1>5. Shrinks(s, s1)
  <2> HIDE DEF s1
  <2>1. QED
    BY <1>1, <1>3 DEF Shrinks, Shaped, SameNeigh, HopIdsStay, NeighIdsStay
<1>11. Shrinks(s, s0)
  <2> HIDE DEF s0
  <2>1. QED
    BY <1>1, <1>2, <1>4 DEF Shrinks, Shaped, SameNeigh, HopIdsStay, NeighIdsStay
<1>8. ASSUME NEW x, Shrinks(s, x), NEW line
      PROVE  Shrinks(s, Failed(x, line))
  <2>1. IsTables(Failed(x, line)) /\ SameHops(x, Failed(x, line)) /\ SameNeigh(x, Failed(x, line))
    BY <1>8, FailedKeeps DEF Shrinks, Shaped
  <2>2. Shrinks(x, Failed(x, line))
    BY <1>8, <2>1, SameShrinks DEF Shrinks
  <2>3. QED
    BY <1>8, <2>2, ShrinksOn
<1>12. s2 = s0 \/ s2 = Failed(s0, 522)
  BY DEF Fails, Failed
<1>9. \/ t = s1
      \/ t = n.dp \/ t = Failed(Failed(n.dp, 527), 536)
      \/ t = s2 \/ t = Failed(s2, 536)
  <2>1. CASE s1.nhop[e].ref_count > 0
    BY <2>1 DEF NhopDelete
  <2>2. CASE ~(s1.nhop[e].ref_count > 0) /\ s1.nhop[e].ref_count = 0 /\ Gateway[e] # 0
    <3>1. t = Fails(Fails(n.dp, 527, n.ret = OK), 536, n.ret = OK)
      BY <2>2, Zenon DEF NhopDelete
    <3> HIDE DEF t, n
    <3>2. QED
      BY <3>1 DEF Fails, Failed
  <2>3. CASE /\ ~(s1.nhop[e].ref_count > 0)
             /\ ~(s1.nhop[e].ref_count = 0 /\ Gateway[e] # 0)
    <3>1. t = Fails(s2, 536, at = 0)
      BY <2>3, Zenon DEF NhopDelete
    <3> HIDE DEF t, s2, at
    <3>2. QED
      BY <3>1 DEF Fails, Failed
  <2>4. QED
    BY <2>1, <2>2, <2>3, Zenon
<1> HIDE DEF t, s0, s1
<1>6. Shrinks(s, s2)
  <2> HIDE DEF s2
  <2>1. QED
    BY <1>8, <1>11, <1>12
<1> HIDE DEF s2
<1>7. Shrinks(s, n.dp)
  <2>1. Shrinks(s2, n.dp)
    BY <1>6, NeighDelShrinks DEF Shrinks
  <2>2. QED
    BY <1>6, <2>1, ShrinksOn
<1> HIDE DEF n
<1>10. QED
  BY <1>5, <1>6, <1>7, <1>8, <1>9 DEF t

(* Something that every round keeps holds after the last one. *)
LEMMA AfterRounds ==
  ASSUME NEW N \in Nat, NEW S, 0 \in S, \A n \in 0 .. N - 1 : n \in S => n + 1 \in S
  PROVE  \A n \in 0 .. N : n \in S
<1> DEFINE R == {n \in 0 .. N : n \notin S}
<1>1. ASSUME R # {}
      PROVE  FALSE
  <2> DEFINE m == Min(R)
  <2>1. m \in R /\ \A y \in R : m <= y
    <3>1. R \in SUBSET Nat
      OBVIOUS
    <3> HIDE DEF R
    <3>2. QED
      BY <1>1, <3>1, MinIn
  <2> HIDE DEF m
  <2>2. m \in 1 .. N /\ m - 1 \in 0 .. N - 1 /\ m - 1 \in S
    BY <2>1
  <2>3. m - 1 + 1 \in S
    BY <2>2
  <2>4. QED
    BY <2>1, <2>2, <2>3
<1>2. QED
  BY <1>1

LEMMA ReleaseAllShrinks ==
  ASSUME NEW s, Shaped(s), NEW v, NEW paths, Len(paths) \in Nat, NEW pos
  PROVE  Shrinks(s, ReleaseAll(s, v, paths, pos))
<1> DEFINE N == Len(paths)
<1>1. PICK g : ReleaseRounds(g, s, v, paths, pos, N) /\ ReleaseAll(s, v, paths, pos) = g[N]
  BY ReleaseAllIs
<1> HIDE DEF N
<1>2. g[0] = s /\ \A n \in 0 .. N - 1 : g[n + 1] = NhopDelete(g[n], v, paths[n + 1], pos)
  BY <1>1 DEF ReleaseRounds, N
<1> DEFINE S == {n \in 0 .. N : Shrinks(s, g[n])}
<1>3. 0 \in S
  BY <1>2, SameShrinks DEF N, Shaped, SameHops, SameNeigh
<1>4. ASSUME NEW n \in 0 .. N - 1, n \in S
      PROVE  n + 1 \in S
  <2>1. Shrinks(g[n], g[n + 1])
    BY <1>2, <1>4, NhopDeleteShrinks DEF Shrinks
  <2>2. Shrinks(s, g[n + 1])
    BY <1>4, <2>1, ShrinksOn
  <2>3. QED
    BY <2>2 DEF N
<1> HIDE DEF S
<1>5. \A n \in 0 .. N : n \in S
  BY <1>3, <1>4, AfterRounds DEF N
<1>6. QED
  BY <1>1, <1>5 DEF S, N

(* The hops and neighbours of t are those of s. *)
SameIds(s, t) == IsTables(t) /\ SameHops(s, t) /\ SameNeigh(s, t)

LEMMA DeleteRouteShrinks ==
  ASSUME NEW s, Consistent(s), NEW v \in Vrf, NEW p \in Prefix, NEW pos
  PROVE  Shrinks(s, DeleteRoute(s, v, p, pos).dp)
<1> DEFINE k == <<v, p>>
           id == s.rib[k]
           paths == s.res[id].mpath
           s1 == ResDelete(PrefixDelete(s, v, p, 788, pos), id)
           t == DeleteRoute(s, v, p, pos).dp
<1>0. Shaped(s) /\ IsTables(s) /\ RoutesOK(s) /\ k[1] = v
  BY ConsistentShaped DEF Consistent, Sound
<1>1. CASE k \notin DOMAIN s.rib
  <2>1. t = s
    BY <1>1 DEF DeleteRoute, Outcome
  <2>2. QED
    BY <1>0, <2>1, SameShrinks DEF SameHops, SameNeigh
<1>2. CASE k \in DOMAIN s.rib
  <2>1. SameIds(s, s1)
    BY <1>0, <1>2, PrefixDeleteIs DEF SameIds
  <2>2. t = ReleaseAll(s1, v, paths, pos)
    BY <1>2 DEF DeleteRoute, Outcome
  <2>3. Len(paths) \in Nat
    BY <1>0, <1>2, LenProperties DEF RoutesOK, IsListOf
  <2> HIDE DEF s1, paths, t
  <2>4. Shrinks(s, s1)
    BY <1>0, <2>1, SameShrinks DEF SameIds
  <2>5. Shrinks(s1, t)
    BY <2>2, <2>3, <2>4, ReleaseAllShrinks DEF Shrinks
  <2>6. Shrinks(s, t)
    BY <1>0, <2>4, <2>5, ShrinksOn
  <2>7. QED
    BY <2>6 DEF t
<1>3. QED
  BY <1>1, <1>2

LEMMA CleanupShrinks ==
  ASSUME NEW s, Consistent(s), NEW v \in Vrf, NEW pos
  PROVE  Shrinks(s, Cleanup(s, v, pos))
<1> DEFINE T == PrefixesOf(s, v)
           keys == SetToSeq(T)
           N == Len(keys)
<1>0. Shaped(s) /\ IsFiniteSet(T) /\ T \subseteq Prefix
  <2>1. T \subseteq Prefix
    BY DEF PrefixesOf
  <2>2. QED
    BY <2>1, FS_Subset, RouteAssumption, ConsistentShaped
<1>1. N \in Nat /\ \A i \in 1 .. N : keys[i] \in Prefix
  BY <1>0, SetToSeqIs
<1>2. PICK g : CleanRounds(g, s, v, keys, pos, N) /\ Cleanup(s, v, pos) = g[N]
  BY <1>1, CleanupIs
<1> HIDE DEF keys, N
<1>3. /\ g[0] = s
      /\ \A n \in 0 .. N - 1 : g[n + 1] = DeleteRoute(g[n], v, keys[n + 1], pos).dp
  BY <1>1, <1>2 DEF CleanRounds
<1> DEFINE S == {n \in 0 .. N : Consistent(g[n]) /\ Shrinks(s, g[n])}
<1>4. 0 \in S
  BY <1>0, <1>1, <1>3, SameShrinks DEF Shaped, SameHops, SameNeigh
<1>5. ASSUME NEW n \in 0 .. N - 1, n \in S
      PROVE  n + 1 \in S
  <2> DEFINE x == g[n]
             q == keys[n + 1]
  <2>1. q \in Prefix /\ n + 1 \in 0 .. N
    BY <1>1
  <2>2. g[n + 1] = DeleteRoute(x, v, q, pos).dp /\ Consistent(x) /\ Shrinks(s, x)
    BY <1>3, <1>5
  <2> HIDE DEF x, q
  <2>3. Consistent(g[n + 1]) /\ Shrinks(x, g[n + 1])
    <3>1. Consistent(DeleteRoute(x, v, q, pos).dp)
      BY <2>1, <2>2, DeleteRouteKeeps
    <3>2. Shrinks(x, DeleteRoute(x, v, q, pos).dp)
      BY <2>1, <2>2, DeleteRouteShrinks
    <3>3. QED
      BY <2>2, <3>1, <3>2
  <2>5. Shrinks(s, g[n + 1])
    BY <1>0, <2>2, <2>3, ShrinksOn
  <2>6. QED
    BY <2>1, <2>3, <2>5
<1> HIDE DEF S
<1>6. \A n \in 0 .. N : n \in S
  BY <1>1, <1>4, <1>5, AfterRounds
<1>7. QED
  BY <1>1, <1>2, <1>6 DEF S

LEMMA ResOnly ==
  ASSUME NEW s, IsTables(s), NEW r
  PROVE  SameIds(s, [s EXCEPT !.res = r])
BY DEF SameIds, IsTables, SameHops, SameNeigh

LEMMA DeleteNhopShrinks ==
  ASSUME NEW s, Consistent(s), NEW v \in Vrf, NEW p \in Prefix, NEW e, NEW type, NEW f, NEW pos
  PROVE  Shrinks(s, DeleteNhop(s, v, p, e, type, f, pos).dp)
<1> DEFINE k == <<v, p>>
           id == s.rib[k]
           r == s.res[id]
           t1 == ResDelete(PrefixDelete(s, v, p, 723, pos), id)
           gone == NhopDelete(t1, v, e, pos)
           new == Min(FreeRes(s))
           found == e \in DOMAIN s.nhop /\ e \in ToSet(r.mpath)
           rest == RemoveFirst(r.mpath, e)
           s2 == [s EXCEPT !.res = Put(@, new, NewRes(rest, r.flags, type))]
           u == PrefixUpdate(s2, v, p, id, new, f)
           t == DeleteNhop(s, v, p, e, type, f, pos).dp
<1>0. Shaped(s) /\ IsTables(s) /\ RoutesOK(s) /\ Shrinks(s, s)
  BY ConsistentShaped, SameShrinks DEF Consistent, Sound, SameHops, SameNeigh
<1>1. \/ t = s
      \/ k \in DOMAIN s.rib /\ t = gone
      \/ k \in DOMAIN s.rib /\ t = ResDelete(u.dp, new)
      \/ k \in DOMAIN s.rib /\ t = NhopDelete(ResDelete(u.dp, id), v, e, pos)
  <2>1. CASE \/ k \notin DOMAIN s.rib
             \/ k \in DOMAIN s.rib /\ RType(r) # type
             \/ k \in DOMAIN s.rib /\ RType(r) = type /\ ~found
    BY <2>1 DEF DeleteNhop, Outcome
  <2>2. CASE k \in DOMAIN s.rib /\ RType(r) = type /\ found /\ Len(r.mpath) = 1
    BY <2>2 DEF DeleteNhop, Outcome
  <2>3. CASE /\ k \in DOMAIN s.rib /\ RType(r) = type /\ found
             /\ ~(Len(r.mpath) = 1) /\ Len(r.mpath) > 1 /\ FreeRes(s) = {}
    BY <2>3 DEF DeleteNhop, Outcome
  <2>4. CASE /\ k \in DOMAIN s.rib /\ RType(r) = type /\ found /\ ~(Len(r.mpath) = 1)
             /\ ~(Len(r.mpath) > 1 /\ FreeRes(s) = {})
    BY <2>4 DEF DeleteNhop, Outcome
  <2>5. QED
    BY <2>1, <2>2, <2>3, <2>4
<1>2. CASE k \in DOMAIN s.rib /\ t = gone
  <2>1. SameIds(s, t1)
    BY <1>0, <1>2, PrefixDeleteIs DEF SameIds
  <2> HIDE DEF t1, t
  <2>2. Shrinks(s, t1)
    BY <1>0, <2>1, SameShrinks DEF SameIds
  <2>3. Shrinks(t1, t)
    BY <1>2, <2>2, NhopDeleteShrinks DEF Shrinks
  <2>4. Shrinks(s, t)
    BY <1>0, <2>2, <2>3, ShrinksOn
  <2>5. QED
    BY <2>4 DEF t
<1>3. ASSUME k \in DOMAIN s.rib
      PROVE  Shrinks(s, ResDelete(u.dp, new)) /\ Shrinks(s, ResDelete(u.dp, id))
  <2>1. SameIds(s, s2) /\ s2.rib = s.rib /\ s2.rib_cnt = s.rib_cnt
    BY <1>0, ResOnly DEF IsTables
  <2> HIDE DEF s2
  <2>2. SameIds(s2, u.dp)
    <3>1. IsFcn(s2.rib) /\ PerVrf(s2.rib_cnt) /\ id \in Nat
      BY <1>0, <1>3, <2>1, RouteAssumption DEF RoutesOK
    <3> HIDE DEF new, u
    <3>2. QED
      BY <1>3, <2>1, <3>1, PrefixUpdateIs DEF SameIds, u
  <2> HIDE DEF u, new, id
  <2>3. \A x : SameIds(u.dp, ResDelete(u.dp, x))
    BY <2>2, ResOnly DEF ResDelete, SameIds
  <2>4. \A x : SameIds(s, ResDelete(u.dp, x))
    BY <2>1, <2>2, <2>3 DEF SameIds, SameHops, SameNeigh
  <2>5. QED
    BY <1>0, <2>4, SameShrinks DEF SameIds
<1>4. CASE k \in DOMAIN s.rib /\ t = NhopDelete(ResDelete(u.dp, id), v, e, pos)
  <2> DEFINE w == ResDelete(u.dp, id)
  <2>1. Shrinks(s, w)
    BY <1>3, <1>4
  <2> HIDE DEF w, t
  <2>2. Shrinks(w, t)
    BY <1>4, <2>1, NhopDeleteShrinks DEF Shrinks, w
  <2>3. Shrinks(s, t)
    BY <1>0, <2>1, <2>2, ShrinksOn
  <2>4. QED
    BY <2>3 DEF t
<1>5. QED
  BY <1>0, <1>1, <1>2, <1>3, <1>4

(* The tables of t are those of s with the ids of one more neighbour, if   *)
(* there was none, or of one more next hop.                                *)
NeighGrown(s, t, k) ==
  /\ DOMAIN t.neigh = DOMAIN s.neigh \cup {k}
  /\ \A x \in DOMAIN s.neigh : t.neigh[x].neigh_oid = s.neigh[x].neigh_oid
  /\ IF k \in DOMAIN s.neigh THEN t.neigh_oids = s.neigh_oids
     ELSE t.neigh_oids = s.neigh_oids + 1 /\ t.neigh[k].neigh_oid = s.neigh_oids + 1

Grown(s, t, v, e) ==
  /\ Shaped(t) /\ e \notin DOMAIN s.nhop /\ DOMAIN t.nhop = DOMAIN s.nhop \cup {e}
  /\ \A x \in DOMAIN s.nhop : /\ t.nhop[x].nh_oid = s.nhop[x].nh_oid
                              /\ t.nhop[x].neigh_oid = s.nhop[x].neigh_oid
  /\ t.nh_oids = s.nh_oids + 1 /\ t.nhop[e].nh_oid = s.nh_oids + 1
  /\ Gateway[e] = 0 => NeighIdsStay(s, t) /\ t.nhop[e].neigh_oid = 0
  /\ Gateway[e] # 0 => /\ NeighGrown(s, t, <<v, Gateway[e]>>)
                       /\ t.nhop[e].neigh_oid = t.neigh[<<v, Gateway[e]>>].neigh_oid

LEMMA NeighAddIds ==
  ASSUME NEW s, Shaped(s), NEW v, NEW g, NEW f
  PROVE  LET n == NeighAdd(s, v, g, f)
         IN  /\ s.neigh_oids <= n.dp.neigh_oids
             /\ n.ret = OK => NeighGrown(s, n.dp, <<v, g>>)
<1> DEFINE n == NeighAdd(s, v, g, f)
           k == <<v, g>>
<1>0. IsTables(s) /\ s.neigh_oids \in Nat
  BY DEF Shaped
<1>1. CASE k \in DOMAIN s.neigh
  <2> DEFINE a == [s.neigh EXCEPT ![k].refcnt = @ + 1]
  <2>1. n = Outcome([s EXCEPT !.neigh = a], OK)
    BY <1>1, Zenon DEF NeighAdd
  <2>2. DOMAIN a = DOMAIN s.neigh /\ \A x \in DOMAIN s.neigh : a[x].neigh_oid = s.neigh[x].neigh_oid
    BY DEF Shaped
  <2> HIDE DEF n, a
  <2>3. n.dp.neigh = a /\ n.dp.neigh_oids = s.neigh_oids
    BY <1>0, <2>1 DEF IsTables, Outcome
  <2>4. QED
    BY <1>0, <1>1, <2>2, <2>3 DEF NeighGrown, n
<1>2. CASE k \notin DOMAIN s.neigh /\ f \in {"neigh_mem", "neigh_hash"}
  <2>1. n = Outcome(s, "ENOMEM") \/ n = Outcome(s, "EFAULT")
    <3>1. CASE f = "neigh_mem"
      BY <1>2, <3>1 DEF NeighAdd
    <3>2. CASE f = "neigh_hash"
      BY <1>2, <3>2 DEF NeighAdd
    <3>3. QED
      BY <1>2, <3>1, <3>2
  <2>2. n.dp = s /\ n.ret # OK
    BY <2>1 DEF Outcome, OK
  <2>3. QED
    BY <1>0, <2>2
<1>3. CASE /\ k \notin DOMAIN s.neigh /\ f \notin {"neigh_mem", "neigh_hash"}
           /\ f = "neigh_oid" \/ s.neigh_oids = OidMax
  <2>1. n = Outcome(s, "NO_OID")
    BY <1>3 DEF NeighAdd
  <2>2. n.dp = s /\ n.ret # OK
    BY <2>1 DEF Outcome, OK
  <2>3. QED
    BY <1>0, <2>2
<1>4. CASE /\ k \notin DOMAIN s.neigh /\ f \notin {"neigh_mem", "neigh_hash"}
           /\ ~(f = "neigh_oid" \/ s.neigh_oids = OidMax)
  <2> DEFINE r == [refcnt |-> 1, static |-> FALSE, neigh_oid |-> s.neigh_oids + 1]
             a == Put(s.neigh, k, r)
             b == [s.neigh_cnt EXCEPT ![v] = (@ + 1) % U32]
             c == (s.neigh_count + 1) % U32
  <2>1. n = Outcome([s EXCEPT !.neigh = Put(@, k, r), !.neigh_cnt[v] = (@ + 1) % U32,
                              !.neigh_count = (@ + 1) % U32, !.neigh_oids = @ + 1], OK)
    BY <1>4 DEF NeighAdd
  <2>2. n = Outcome([s EXCEPT !.neigh = a, !.neigh_cnt = b, !.neigh_count = c,
                              !.neigh_oids = @ + 1], OK)
    BY <2>1
  <2>3. r.neigh_oid = s.neigh_oids + 1
    OBVIOUS
  <2> HIDE DEF r
  <2>4. /\ DOMAIN a = DOMAIN s.neigh \cup {k} /\ a[k] = r
        /\ \A x \in DOMAIN s.neigh : a[x] = s.neigh[x]
    BY <1>4 DEF Put
  <2> HIDE DEF n, k, a, b, c
  <2>5. n.dp.neigh = a /\ n.dp.neigh_oids = s.neigh_oids + 1
    BY <1>0, <2>2 DEF IsTables, Outcome
  <2>6. NeighGrown(s, n.dp, k)
    BY <1>4, <2>3, <2>4, <2>5 DEF NeighGrown
  <2>7. QED
    BY <1>0, <2>5, <2>6 DEF n, k
<1>5. QED
  BY <1>1, <1>2, <1>3, <1>4

LEMMA NhopCreateIds ==
  ASSUME NEW s, IsTables(s), HopsOK(s), NeighInv(s), NEW v \in Vrf, NEW e \in EncapOf[v], NEW f
  PROVE  LET c == NhopCreate(s, v, e, f)
         IN  /\ Shaped(c.dp) /\ s.nh_oids <= c.dp.nh_oids /\ s.neigh_oids <= c.dp.neigh_oids
             /\ c.ret = OK => Shrinks(s, c.dp) \/ Grown(s, c.dp, v, e)
<1> DEFINE r0 == [ref_count |-> 0, nh_oid |-> 0, neigh_oid |-> 0]
           s1 == [s EXCEPT !.nhop = Put(@, e, r0)]
           n == NeighOf(s1, v, e, f)
           undone == IF Gateway[e] = 0 THEN n.dp ELSE NeighDel(n.dp, v, Gateway[e]).dp
           c == NhopCreate(s, v, e, f)
<1>0. Shaped(s) /\ s.nh_oids \in Nat /\ s.neigh_oids \in Nat
  BY SoundShaped DEF Shaped
<1>1. IsTables(s1) /\ s1.nhop = Put(s.nhop, e, r0) /\ SameNeigh(s, s1) /\ s1.nh_oids = s.nh_oids
  BY DEF IsTables, SameNeigh
<1>2. DOMAIN r0 = HopRecord
  BY DEF HopRecord
<1> HIDE DEF r0
<1>3. /\ DOMAIN s1.nhop = DOMAIN s.nhop \cup {e} /\ s1.nhop[e] = r0
      /\ \A x \in DOMAIN s.nhop : x # e => s1.nhop[x] = s.nhop[x]
  BY <1>1 DEF Put
<1> HIDE DEF s1
<1>4. Shaped(s1)
  BY <1>0, <1>1, <1>2, <1>3 DEF Shaped, SameNeigh
<1>5. IsTables(c.dp) /\ Shaped(c.dp)
  <2>1. /\ IsTables(c.dp) /\ NeighInv(c.dp)
        /\ c.ret # OK => c.dp.nhop = s.nhop
        /\ c.ret = OK => HopsOK(c.dp)
    BY NhopCreateKeeps
  <2> HIDE DEF c
  <2>2. HopsOK(c.dp)
    BY <2>1 DEF HopsOK
  <2>3. QED
    BY <2>1, <2>2, SoundShaped
<1>6. /\ IsTables(n.dp) /\ SameHops(s1, n.dp) /\ s.neigh_oids <= n.dp.neigh_oids
      /\ n.dp.neigh_oids \in Int
      /\ Gateway[e] = 0 => SameNeigh(s, n.dp)
      /\ n.ret = OK /\ Gateway[e] # 0 => NeighGrown(s, n.dp, <<v, Gateway[e]>>)
  <2>1. CASE Gateway[e] = 0
    <3>1. n.dp = s1
      BY <2>1 DEF NeighOf, Outcome
    <3>2. QED
      BY <1>0, <1>1, <2>1, <3>1 DEF SameHops, SameNeigh
  <2>2. CASE Gateway[e] # 0
    <3>1. n = NeighAdd(s1, v, Gateway[e], f)
      BY <2>2 DEF NeighOf
    <3> HIDE DEF n
    <3>2. IsTables(n.dp) /\ SameHops(s1, n.dp)
      BY <1>1, <3>1, NeighAddKeeps
    <3>3. s1.neigh_oids <= n.dp.neigh_oids /\ (n.ret = OK => NeighGrown(s1, n.dp, <<v, Gateway[e]>>))
      BY <1>4, <3>1, NeighAddIds
    <3>4. n.dp.neigh_oids \in Int
      <4>1. NeighOK(s1)
        BY <1>1, NeighOKSame DEF NeighInv
      <4>2. e \in Encap /\ Gateway[e] \in Gateways
        BY <2>2, RouteAssumption, GatewayOf
      <4>3. n.ret # OK => n.dp = s1
        BY <1>1, <3>1, <4>1, <4>2, NeighAddIs
      <4>4. n.ret = OK => NeighOK(n.dp)
        BY <1>1, <3>1, <4>1, <4>2, NeighAddIs
      <4>5. QED
        BY <4>1, <4>3, <4>4 DEF NeighOK
    <3>5. QED
      BY <1>1, <2>2, <3>2, <3>3, <3>4 DEF NeighGrown, SameNeigh
  <2>3. QED
    BY <2>1, <2>2
<1> HIDE DEF n
<1>7. IsTables(undone) /\ SameHops(s1, undone) /\ s.neigh_oids <= undone.neigh_oids
  <2>1. CASE Gateway[e] = 0
    BY <1>6, <2>1
  <2>2. CASE Gateway[e] # 0
    <3> DEFINE d == NeighDel(n.dp, v, Gateway[e]).dp
    <3>1. IsTables(d) /\ SameHops(n.dp, d)
      BY <1>6, NeighDelKeeps
    <3>2. d.neigh_oids = n.dp.neigh_oids
      BY <1>6, NeighDelOids
    <3>3. undone = d
      BY <2>2
    <3> HIDE DEF d, undone
    <3>4. QED
      BY <1>6, <3>1, <3>2, <3>3 DEF SameHops
  <2>3. QED
    BY <2>1, <2>2
<1>8. CASE e \in DOMAIN s.nhop
  <2> DEFINE a == [s.nhop EXCEPT ![e].ref_count = @ + 1]
  <2>1. c = Outcome([s EXCEPT !.nhop = a], OK)
    BY <1>8, Zenon DEF NhopCreate
  <2>2. /\ DOMAIN a = DOMAIN s.nhop
        /\ \A x \in DOMAIN a : a[x].nh_oid = s.nhop[x].nh_oid /\ a[x].neigh_oid = s.nhop[x].neigh_oid
    BY <1>0 DEF Shaped, HopRecord
  <2> HIDE DEF c, a
  <2>3. c.dp.nhop = a /\ SameNeigh(s, c.dp) /\ c.dp.nh_oids = s.nh_oids
    BY <2>1 DEF IsTables, SameNeigh, Outcome
  <2>4. Shrinks(s, c.dp)
    BY <1>0, <1>5, <2>2, <2>3 DEF Shrinks, HopIdsStay, NeighIdsStay, SameNeigh, c
  <2>5. QED
    BY <1>0, <1>5, <2>3, <2>4 DEF c, SameNeigh
<1>9. CASE e \notin DOMAIN s.nhop
  <2>1. CASE f \in {"nhop_mem", "nhop_hash"}
    <3>0. c = Outcome(s, "NOMEM") \/ c = Outcome(s, "EFAULT")
      <4>1. CASE f = "nhop_mem"
        BY <1>9, <4>1 DEF NhopCreate
      <4>2. CASE f = "nhop_hash"
        BY <1>9, <4>2 DEF NhopCreate
      <4>3. QED
        BY <2>1, <4>1, <4>2
    <3>1. c.dp = s /\ c.ret # OK
      BY <3>0 DEF Outcome, OK
    <3>2. QED
      BY <1>0, <3>1
  <2>2. CASE f \notin {"nhop_mem", "nhop_hash"} /\ n.ret # OK
    <3>1. c = Outcome([n.dp EXCEPT !.nhop = Del(@, e)], n.ret)
      BY <1>9, <2>2 DEF NhopCreate, n, s1, r0
    <3> DEFINE h == Del(n.dp.nhop, e)
    <3>2. c = Outcome([n.dp EXCEPT !.nhop = h], n.ret)
      BY <3>1
    <3> HIDE DEF c, h
    <3>3. c.ret # OK /\ c.dp.nh_oids = s.nh_oids /\ c.dp.neigh_oids = n.dp.neigh_oids
      BY <1>1, <1>6, <2>2, <3>2 DEF IsTables, SameHops, Outcome
    <3>4. QED
      BY <1>0, <1>5, <1>6, <3>3 DEF c
  <2>3. CASE /\ f \notin {"nhop_mem", "nhop_hash"} /\ n.ret = OK
             /\ f = "nh_oid" \/ s.nh_oids = OidMax
    <3>1. c = Outcome([undone EXCEPT !.nhop = Del(@, e)], "NH_ALLOC_OID_FAIL")
      BY <1>9, <2>3 DEF NhopCreate, n, s1, r0
    <3> DEFINE h == Del(undone.nhop, e)
    <3>2. c = Outcome([undone EXCEPT !.nhop = h], "NH_ALLOC_OID_FAIL")
      BY <3>1
    <3> HIDE DEF c, h, undone
    <3>3. c.ret # OK /\ c.dp.nh_oids = s.nh_oids /\ c.dp.neigh_oids = undone.neigh_oids
      BY <1>1, <1>7, <3>2 DEF IsTables, SameHops, Outcome, OK
    <3>4. QED
      BY <1>0, <1>5, <1>7, <3>3 DEF c
  <2>4. CASE /\ f \notin {"nhop_mem", "nhop_hash"} /\ n.ret = OK
             /\ ~(f = "nh_oid" \/ s.nh_oids = OidMax)
    <3> DEFINE r == [ref_count |-> 1, nh_oid |-> s.nh_oids + 1,
                     neigh_oid |-> IF Gateway[e] = 0 THEN 0
                                   ELSE n.dp.neigh[<<v, Gateway[e]>>].neigh_oid]
               a == [n.dp.nhop EXCEPT ![e] = r]
    <3>1. c = Outcome([n.dp EXCEPT !.nhop[e] = r, !.nh_oids = @ + 1], OK)
      BY <1>9, <2>4 DEF NhopCreate, n, s1, r0
    <3>2. c = Outcome([n.dp EXCEPT !.nhop = a, !.nh_oids = @ + 1], OK)
      BY <3>1
    <3>3. /\ r.nh_oid = s.nh_oids + 1 /\ (Gateway[e] = 0 => r.neigh_oid = 0)
          /\ Gateway[e] # 0 => r.neigh_oid = n.dp.neigh[<<v, Gateway[e]>>].neigh_oid
      OBVIOUS
    <3> HIDE DEF r
    <3>4. DOMAIN a = DOMAIN s.nhop \cup {e} /\ a[e] = r /\ \A x \in DOMAIN s.nhop : a[x] = s.nhop[x]
      BY <1>3, <1>6, <1>9 DEF SameHops
    <3> HIDE DEF c, a
    <3>5. /\ c.dp.nhop = a /\ c.dp.nh_oids = s.nh_oids + 1 /\ SameNeigh(n.dp, c.dp) /\ c.ret = OK
      BY <1>1, <1>6, <3>2 DEF IsTables, SameHops, SameNeigh, Outcome
    <3>6. Gateway[e] = 0 => NeighIdsStay(s, c.dp) /\ c.dp.nhop[e].neigh_oid = 0
      BY <1>0, <1>6, <3>3, <3>4, <3>5 DEF NeighIdsStay, SameNeigh
    <3>7. Gateway[e] # 0 => /\ NeighGrown(s, c.dp, <<v, Gateway[e]>>)
                            /\ c.dp.nhop[e].neigh_oid = c.dp.neigh[<<v, Gateway[e]>>].neigh_oid
      BY <1>6, <2>4, <3>3, <3>4, <3>5 DEF NeighGrown, SameNeigh
    <3>8. Grown(s, c.dp, v, e)
      BY <1>5, <1>9, <3>3, <3>4, <3>5, <3>6, <3>7 DEF Grown, c
    <3>9. QED
      BY <1>0, <1>5, <1>6, <3>5, <3>8 DEF c, SameNeigh
  <2>5. QED
    BY <2>1, <2>2, <2>3, <2>4
<1>10. QED
  BY <1>8, <1>9

LEMMA GrownSame ==
  ASSUME NEW s, NEW t, NEW u, NEW v, NEW e, Shaped(t), SameIds(t, u)
  PROVE  /\ Shrinks(s, t) => Shrinks(s, u)
         /\ Grown(s, t, v, e) => Grown(s, u, v, e)
<1>1. Shaped(u)
  BY DEF Shaped, SameIds, SameHops, SameNeigh
<1>2. HopIdsStay(s, t) => HopIdsStay(s, u)
  BY DEF HopIdsStay, SameIds, SameHops
<1>3. NeighIdsStay(s, t) => NeighIdsStay(s, u)
  BY DEF NeighIdsStay, SameIds, SameNeigh
<1>4. \A k : NeighGrown(s, t, k) => NeighGrown(s, u, k)
  BY DEF NeighGrown, SameIds, SameNeigh
<1>5. QED
  BY <1>1, <1>2, <1>3, <1>4 DEF Shrinks, Grown, SameIds, SameHops, SameNeigh

(* An insertion that is undone may have used up an id. *)
LEMMA UndoneShrinks ==
  ASSUME NEW s, NEW t, Shaped(t), Undone(s, t),
         s.nh_oids <= t.nh_oids, s.neigh_oids <= t.neigh_oids
  PROVE  Shrinks(s, t)
BY DEF Shrinks, Undone, NeighBack, HopIdsStay, NeighIdsStay

LEMMA InsertIntoIds ==
  ASSUME NEW s, Consistent(s), NEW v \in Vrf, NEW p \in Prefix, NEW e \in EncapOf[v],
         NEW type, NEW f, NEW pos, e \notin PathsOf(s, <<v, p>>)
  PROVE  LET o == InsertInto(s, v, p, e, type, f, pos)
         IN  Shrinks(s, o.dp) \/ Grown(s, o.dp, v, e)
<1> DEFINE k == <<v, p>>
           exists == k \in DOMAIN s.rib
           old == IF exists THEN s.rib[k] ELSE -1
           c == NhopCreate(s, v, e, f)
           paths == IF exists THEN Append(s.res[old].mpath, e) ELSE <<e>>
           new == Min(FreeRes(c.dp))
           r == NewRes(paths, IF exists THEN s.res[old].flags ELSE {}, type)
           s2 == [c.dp EXCEPT !.res = Put(@, new, r)]
           u == PrefixUpdate(s2, v, p, old, new, f)
           o == InsertInto(s, v, p, e, type, f, pos)
<1>1. /\ IsTables(c.dp) /\ SameRoutes(s, c.dp) /\ Shaped(c.dp)
      /\ s.nh_oids <= c.dp.nh_oids /\ s.neigh_oids <= c.dp.neigh_oids
      /\ c.ret = OK => Shrinks(s, c.dp) \/ Grown(s, c.dp, v, e)
  BY NhopCreateKeeps, NhopCreateIds DEF Consistent, Sound
<1>2. o.ret # OK => Undone(s, o.dp)
  BY InsertIntoKeeps
<1>3. Shaped(s) /\ RoutesOK(s)
  BY ConsistentShaped DEF Consistent, Sound
<1>4. ASSUME NEW t, Shrinks(c.dp, t), Undone(s, t)
      PROVE  Shrinks(s, t)
  <2> HIDE DEF c
  <2>1. Shaped(t) /\ c.dp.nh_oids <= t.nh_oids /\ c.dp.neigh_oids <= t.neigh_oids
    BY <1>4 DEF Shrinks, HopIdsStay, NeighIdsStay
  <2>2. s.nh_oids <= t.nh_oids /\ s.neigh_oids <= t.neigh_oids
    BY <1>1, <1>3, <2>1 DEF Shaped
  <2>3. QED
    BY <1>4, <2>1, <2>2, UndoneShrinks
<1> HIDE DEF c
<1>5. CASE c.ret # OK
  <2>1. o = c
    BY <1>5 DEF InsertInto, c
  <2> HIDE DEF o
  <2>2. Shrinks(s, o.dp)
    BY <1>1, <1>2, <1>5, <2>1, UndoneShrinks
  <2>3. QED
    BY <2>2 DEF o
<1>6. CASE c.ret = OK /\ FreeRes(c.dp) = {}
  <2>1. o = Outcome(NhopDelete(c.dp, v, e, pos), "RESULT_NOSPACE")
    BY <1>6 DEF InsertInto, c
  <2> HIDE DEF o
  <2>2. o.dp = NhopDelete(c.dp, v, e, pos) /\ o.ret # OK
    BY <2>1 DEF Outcome, OK
  <2>3. Shrinks(c.dp, o.dp)
    BY <1>1, <2>2, NhopDeleteShrinks
  <2>4. Shrinks(s, o.dp)
    BY <1>2, <1>4, <2>2, <2>3
  <2>5. QED
    BY <2>4 DEF o
<1>7. CASE c.ret = OK /\ FreeRes(c.dp) # {}
  <2>1. o = IF u.ret # OK
            THEN Outcome(NhopDelete(ResDelete(u.dp, new), v, e, pos), u.ret)
            ELSE Outcome(IF exists THEN ResDelete(u.dp, old) ELSE u.dp, OK)
    BY <1>7 DEF InsertInto, c
  <2>2. SameIds(c.dp, s2) /\ s2.rib = c.dp.rib /\ s2.rib_cnt = c.dp.rib_cnt
    BY <1>1, ResOnly DEF IsTables
  <2>3. /\ IsFcn(s2.rib) /\ PerVrf(s2.rib_cnt)
        /\ k \in DOMAIN s2.rib => old = s2.rib[k] /\ old \in Nat
        /\ k \notin DOMAIN s2.rib => old = -1
    BY <1>1, <1>3, <2>2, RouteAssumption DEF RoutesOK, SameRoutes
  <2> HIDE DEF s2, new, old, o
  <2>4. SameIds(c.dp, u.dp)
    <3>1. SameIds(s2, u.dp)
      BY <2>2, <2>3, PrefixUpdateIs DEF SameIds
    <3> HIDE DEF u
    <3>2. QED
      BY <2>2, <3>1 DEF SameIds, SameHops, SameNeigh
  <2> HIDE DEF u
  <2>5. \A x : SameIds(c.dp, ResDelete(u.dp, x))
    <3>1. \A x : SameIds(u.dp, ResDelete(u.dp, x))
      BY <2>4, ResOnly DEF ResDelete, SameIds
    <3>2. QED
      BY <2>4, <3>1 DEF SameIds, SameHops, SameNeigh
  <2>6. CASE u.ret # OK
    <3> DEFINE t0 == ResDelete(u.dp, new)
    <3>1. o.dp = NhopDelete(t0, v, e, pos) /\ o.ret # OK
      BY <2>1, <2>6 DEF Outcome
    <3>2. Shaped(t0) /\ Shrinks(c.dp, t0)
      BY <1>1, <2>5, SameShrinks DEF SameIds, Shrinks
    <3> HIDE DEF t0
    <3>3. Shrinks(t0, o.dp)
      BY <3>1, <3>2, NhopDeleteShrinks
    <3>4. Shrinks(c.dp, o.dp)
      BY <1>1, <3>2, <3>3, ShrinksOn
    <3>5. Undone(s, o.dp)
      BY <1>2, <3>1 DEF o
    <3>6. Shrinks(s, o.dp)
      BY <1>4, <3>4, <3>5
    <3>7. QED
      BY <3>6 DEF o
  <2>7. CASE u.ret = OK
    <3>1. o.dp = ResDelete(u.dp, old) \/ o.dp = u.dp
      BY <2>1, <2>7 DEF Outcome
    <3>2. SameIds(c.dp, o.dp)
      BY <2>4, <2>5, <3>1
    <3>3. Shrinks(s, o.dp) \/ Grown(s, o.dp, v, e)
      BY <1>1, <1>7, <3>2, GrownSame
    <3>4. QED
      BY <3>3 DEF o
  <2>8. QED
    BY <2>6, <2>7
<1>8. QED
  BY <1>5, <1>6, <1>7

LEMMA InsertIds ==
  ASSUME NEW s, Consistent(s), NEW v \in Vrf, NEW p \in Prefix, NEW e \in EncapOf[v],
         NEW type, NEW f, NEW pos
  PROVE  LET o == Insert(s, v, p, e, type, f, pos)
         IN  Shrinks(s, o.dp) \/ Grown(s, o.dp, v, e)
<1> DEFINE o == Insert(s, v, p, e, type, f, pos)
<1>1. o.dp = s \/ (Admits(s, v, p, e, type) /\ o = InsertInto(s, v, p, e, type, f, pos))
  BY InsertIs
<1>2. CASE o.dp = s
  BY <1>2, ConsistentShaped, SameShrinks DEF Shaped, SameHops, SameNeigh
<1>3. CASE Admits(s, v, p, e, type) /\ o = InsertInto(s, v, p, e, type, f, pos)
  BY <1>3, InsertIntoIds DEF Admits
<1>4. QED
  BY <1>1, <1>2, <1>3

LEMMA StaticAddShrinks ==
  ASSUME NEW s, Shaped(s), NEW v, NEW g, <<v, g>> \in DOMAIN s.neigh
  PROVE  Shrinks(s, StaticAdd(s, v, g, "none").dp)
<1> DEFINE k == <<v, g>>
           n == s.neigh[k]
           c == IF n.static THEN n.refcnt ELSE n.refcnt + 1
           a == [s.neigh EXCEPT ![k].static = TRUE, ![k].refcnt = c]
           t == StaticAdd(s, v, g, "none").dp
<1>1. t = [s EXCEPT !.neigh[k].static = TRUE,
                    !.neigh[k].refcnt = IF n.static THEN @ ELSE @ + 1]
  BY Zenon DEF StaticAdd, Outcome
<1>2. IsTables(t) /\ SameHops(s, t)
  BY StaticAddKeeps DEF Shaped
<1> HIDE DEF t
<1>3. t.neigh_oids = s.neigh_oids /\ DOMAIN t.neigh = DOMAIN s.neigh
      /\ \A x \in DOMAIN s.neigh : x # k => t.neigh[x] = s.neigh[x]
  BY <1>1 DEF Shaped, IsTables
<1>4. DOMAIN t.neigh[k] = DOMAIN n /\ t.neigh[k].neigh_oid = n.neigh_oid
  BY <1>1 DEF Shaped, IsTables
<1>5. \A x \in DOMAIN t.neigh : /\ DOMAIN t.neigh[x] = DOMAIN s.neigh[x]
                                /\ t.neigh[x].neigh_oid = s.neigh[x].neigh_oid
  BY <1>3, <1>4
<1>6. QED
  BY <1>2, <1>3, <1>5 DEF Shrinks, Shaped, HopIdsStay, NeighIdsStay, SameHops, t

(* t has everything that s has and a neighbour without an id of its own. *)
Joined(s, t, k) ==
  /\ SameHops(s, t) /\ t.neigh_oids = s.neigh_oids
  /\ k \notin DOMAIN s.neigh /\ DOMAIN t.neigh = DOMAIN s.neigh \cup {k}
  /\ \A x \in DOMAIN s.neigh : t.neigh[x].neigh_oid = s.neigh[x].neigh_oid
  /\ t.neigh[k].neigh_oid = 0

LEMMA StaticAddJoins ==
  ASSUME NEW s, Shaped(s), NEW v, NEW g, <<v, g>> \notin DOMAIN s.neigh
  PROVE  Joined(s, StaticAdd(s, v, g, "none").dp, <<v, g>>)
<1> DEFINE k == <<v, g>>
           r == [refcnt |-> 0, static |-> FALSE, neigh_oid |-> 0]
           s1 == [s EXCEPT !.neigh = Put(@, k, r), !.neigh_count = (@ + 1) % U32]
           t == StaticAdd(s, v, g, "none").dp
<1>1. t = [s1 EXCEPT !.neigh[k].static = TRUE,
                     !.neigh[k].refcnt = IF s1.neigh[k].static THEN @ ELSE @ + 1]
  BY Zenon DEF StaticAdd, Outcome
<1>2. IsTables(t) /\ SameHops(s, t)
  BY StaticAddKeeps DEF Shaped
<1>0. r.neigh_oid = 0
  OBVIOUS
<1> HIDE DEF r
<1>3. IsTables(s1) /\ s1.neigh = Put(s.neigh, k, r) /\ s1.neigh_oids = s.neigh_oids
  <2> DEFINE a == Put(s.neigh, k, r)
             c == (s.neigh_count + 1) % U32
  <2>1. s1 = [s EXCEPT !.neigh = a, !.neigh_count = c]
    OBVIOUS
  <2> HIDE DEF a, c, s1
  <2>2. IsTables(s1) /\ s1.neigh = a /\ s1.neigh_oids = s.neigh_oids
    BY <2>1 DEF Shaped, IsTables
  <2>3. QED
    BY <2>2 DEF a
<1>4. /\ DOMAIN s1.neigh = DOMAIN s.neigh \cup {k} /\ s1.neigh[k] = r
      /\ \A x \in DOMAIN s.neigh : s1.neigh[x] = s.neigh[x] /\ x # k
  <2> HIDE DEF s1
  <2>1. QED
    BY <1>3 DEF Put
<1> HIDE DEF t, s1
<1>5. /\ DOMAIN t.neigh = DOMAIN s1.neigh /\ t.neigh_oids = s1.neigh_oids
      /\ \A x \in DOMAIN s1.neigh : x # k => t.neigh[x] = s1.neigh[x]
  BY <1>1, <1>3 DEF IsTables
<1>6. t.neigh[k].neigh_oid = s1.neigh[k].neigh_oid
  BY <1>1, <1>3, <1>4 DEF IsTables
<1>7. QED
  BY <1>0, <1>2, <1>3, <1>4, <1>5, <1>6 DEF Joined, t

-----------------------------------------------------------------------------
(* The hardware tables.  A call writes entries for next hops and           *)
(* neighbours of the tables s only, and for tunnels K.                     *)

HwTables(h) == h = [tunnel |-> h.tunnel, route |-> h.route, nhop |-> h.nhop, neigh |-> h.neigh]

HopsOf(s, v) == DOMAIN s.nhop \cap EncapOf[v]

Written(s, K, h, g) ==
  /\ HwTables(g) /\ DOMAIN g.tunnel \subseteq DOMAIN h.tunnel \cup K
  /\ \A r \in DOMAIN g.route :
       \/ r \in DOMAIN h.route /\ g.route[r] = h.route[r]
       \/ /\ r \in Vrf \X Src \X Prefix /\ g.route[r].path \in HopsOf(s, r[1])
          /\ g.route[r].nhop_id = s.nhop[g.route[r].path].nh_oid
  /\ \A i \in DOMAIN g.nhop :
       \/ i \in DOMAIN h.nhop /\ g.nhop[i] = h.nhop[i]
       \/ /\ \E v \in Vrf : g.nhop[i].encap \in HopsOf(s, v)
          /\ i = s.nhop[g.nhop[i].encap].nh_oid
          /\ g.nhop[i].neigh_id = s.nhop[g.nhop[i].encap].neigh_oid
  /\ \A i \in DOMAIN g.neigh :
       \/ i \in DOMAIN h.neigh /\ g.neigh[i] = h.neigh[i]
       \/ g.neigh[i] \in DOMAIN s.neigh /\ i = s.neigh[g.neigh[i]].neigh_oid

LEMMA NothingWritten ==
  ASSUME NEW s, NEW K, NEW h, HwTables(h)
  PROVE  Written(s, K, h, h)
BY DEF Written

LEMMA WrittenOn ==
  ASSUME NEW s, NEW K, NEW h, NEW g, NEW j, Written(s, K, h, g), Written(s, K, g, j)
  PROVE  Written(s, K, h, j)
<1>1. HwTables(j) /\ DOMAIN j.tunnel \subseteq DOMAIN h.tunnel \cup K
  BY DEF Written
<1>2. \A r \in DOMAIN j.route :
       \/ r \in DOMAIN h.route /\ j.route[r] = h.route[r]
       \/ /\ r \in Vrf \X Src \X Prefix /\ j.route[r].path \in HopsOf(s, r[1])
          /\ j.route[r].nhop_id = s.nhop[j.route[r].path].nh_oid
  BY DEF Written
<1>3. \A i \in DOMAIN j.nhop :
       \/ i \in DOMAIN h.nhop /\ j.nhop[i] = h.nhop[i]
       \/ /\ \E v \in Vrf : j.nhop[i].encap \in HopsOf(s, v)
          /\ i = s.nhop[j.nhop[i].encap].nh_oid
          /\ j.nhop[i].neigh_id = s.nhop[j.nhop[i].encap].neigh_oid
  BY DEF Written
<1>4. \A i \in DOMAIN j.neigh :
       \/ i \in DOMAIN h.neigh /\ j.neigh[i] = h.neigh[i]
       \/ j.neigh[i] \in DOMAIN s.neigh /\ i = s.neigh[j.neigh[i]].neigh_oid
  BY DEF Written
<1>5. QED
  BY <1>1, <1>2, <1>3, <1>4 DEF Written

(* One entry put or deleted. *)
LEMMA RouteWritten ==
  ASSUME NEW s, NEW K, NEW h, HwTables(h), NEW k \in Vrf \X Src \X Prefix, NEW e, NEW op, NEW f,
         NEW n, op = "add" => e \in HopsOf(s, k[1]) /\ n = s.nhop[e].nh_oid
  PROVE  Written(s, K, h, HwRoute(h, k, n, e, op, f = "hw_route").hw)
<1> DEFINE g == HwRoute(h, k, n, e, op, f = "hw_route").hw
           x == [nhop_id |-> n, path |-> e]
           a == Put(h.route, k, x)
           d == Del(h.route, k)
<1>1. \/ g = h \/ g = [h EXCEPT !.route = d]
      \/ op = "add" /\ g = [h EXCEPT !.route = a]
  BY DEF HwRoute, HwWrite
<1>2. \A r \in DOMAIN d : r \in DOMAIN h.route /\ d[r] = h.route[r]
  BY DEF Del
<1>3. x.nhop_id = n /\ x.path = e
  OBVIOUS
<1> HIDE DEF x
<1>4. \A r \in DOMAIN a : (r \in DOMAIN h.route /\ a[r] = h.route[r]) \/ (r = k /\ a[r] = x)
  BY DEF Put
<1> HIDE DEF g, a, d
<1>5. /\ HwTables(g) /\ g.tunnel = h.tunnel /\ g.nhop = h.nhop /\ g.neigh = h.neigh
      /\ g.route = h.route \/ g.route = d \/ (op = "add" /\ g.route = a)
  BY <1>1 DEF HwTables
<1>6. Written(s, K, h, g)
  BY <1>2, <1>3, <1>4, <1>5 DEF Written
<1>7. QED
  BY <1>6 DEF g

LEMMA NhopWritten ==
  ASSUME NEW s, NEW K, NEW h, HwTables(h), NEW v \in Vrf, NEW e, NEW op, NEW f,
         NEW n, op = "add" => e \in HopsOf(s, v) /\ n = s.nhop[e]
  PROVE  Written(s, K, h, HwNhop(h, n, e, op, f = "hw_nhop").hw)
<1> DEFINE g == HwNhop(h, n, e, op, f = "hw_nhop").hw
           x == [encap |-> e, neigh_id |-> n.neigh_oid]
           a == Put(h.nhop, n.nh_oid, x)
           d == Del(h.nhop, n.nh_oid)
<1>1. \/ g = h \/ g = [h EXCEPT !.nhop = d]
      \/ op = "add" /\ g = [h EXCEPT !.nhop = a]
  BY DEF HwNhop, HwWrite
<1>2. \A r \in DOMAIN d : r \in DOMAIN h.nhop /\ d[r] = h.nhop[r]
  BY DEF Del
<1>3. x.neigh_id = n.neigh_oid /\ x.encap = e
  OBVIOUS
<1> HIDE DEF x
<1>4. \A r \in DOMAIN a : (r \in DOMAIN h.nhop /\ a[r] = h.nhop[r]) \/ (r = n.nh_oid /\ a[r] = x)
  BY DEF Put
<1> HIDE DEF g, a, d
<1>5. /\ HwTables(g) /\ g.tunnel = h.tunnel /\ g.route = h.route /\ g.neigh = h.neigh
      /\ g.nhop = h.nhop \/ g.nhop = d \/ (op = "add" /\ g.nhop = a)
  BY <1>1 DEF HwTables
<1>6. Written(s, K, h, g)
  BY <1>2, <1>3, <1>4, <1>5 DEF Written
<1>7. QED
  BY <1>6 DEF g

LEMMA NeighWritten ==
  ASSUME NEW s, NEW K, NEW h, HwTables(h), NEW k \in DOMAIN s.neigh, NEW op, NEW f
  PROVE  Written(s, K, h, HwNeigh(h, s.neigh[k].neigh_oid, k, op, f = "hw_neigh").hw)
<1> DEFINE id == s.neigh[k].neigh_oid
           g == HwNeigh(h, id, k, op, f = "hw_neigh").hw
           a == Put(h.neigh, id, k)
           d == Del(h.neigh, id)
<1>1. \/ g = h \/ g = [h EXCEPT !.neigh = d] \/ g = [h EXCEPT !.neigh = a]
  BY DEF HwNeigh, HwWrite
<1>2. \A r \in DOMAIN d : r \in DOMAIN h.neigh /\ d[r] = h.neigh[r]
  BY DEF Del
<1>4. \A r \in DOMAIN a : (r \in DOMAIN h.neigh /\ a[r] = h.neigh[r]) \/ (r = id /\ a[r] = k)
  BY DEF Put
<1> HIDE DEF g, a, d
<1>5. /\ HwTables(g) /\ g.tunnel = h.tunnel /\ g.route = h.route /\ g.nhop = h.nhop
      /\ g.neigh = h.neigh \/ g.neigh = d \/ g.neigh = a
  BY <1>1 DEF HwTables
<1>6. Written(s, K, h, g)
  BY <1>2, <1>4, <1>5 DEF Written
<1>7. QED
  BY <1>6 DEF g

LEMMA TunnelWritten ==
  ASSUME NEW s, NEW K, NEW h, HwTables(h), NEW k \in K, NEW id, NEW f
  PROVE  /\ Written(s, K, h, HwTunnelAdd(h, k, id, f = "hw_tunnel").hw)
         /\ Written(s, K, h, HwTunnelDel(h, k, f = "hw_tunnel").hw)
<1> DEFINE x == IF k[1] = "VXLAN" THEN id ELSE k[2]
           a == Put(h.tunnel, k, x)
           d == Del(h.tunnel, k)
<1>0. DOMAIN a = DOMAIN h.tunnel \cup {k} /\ DOMAIN d \subseteq DOMAIN h.tunnel
  BY DEF Put, Del
<1>1. ASSUME NEW g, g = h \/ g = [h EXCEPT !.tunnel = d] \/ g = [h EXCEPT !.tunnel = a]
      PROVE  Written(s, K, h, g)
  <2> HIDE DEF a, d
  <2>1. /\ HwTables(g) /\ g.neigh = h.neigh /\ g.route = h.route /\ g.nhop = h.nhop
        /\ g.tunnel = h.tunnel \/ g.tunnel = d \/ g.tunnel = a
    BY <1>1 DEF HwTables
  <2>2. QED
    BY <1>0, <2>1 DEF Written
<1> DEFINE g1 == HwTunnelAdd(h, k, id, f = "hw_tunnel").hw
           g2 == HwTunnelDel(h, k, f = "hw_tunnel").hw
<1>2. g1 = h \/ g1 = [h EXCEPT !.tunnel = a]
  BY DEF HwTunnelAdd, HwWrite
<1>3. g2 = h \/ g2 = [h EXCEPT !.tunnel = d]
  BY DEF HwTunnelDel, HwWrite
<1> HIDE DEF g1, g2, a, d
<1>4. Written(s, K, h, g1) /\ Written(s, K, h, g2)
  BY <1>1, <1>2, <1>3
<1>5. QED
  BY <1>4 DEF g1, g2

(* The first path of a fib result is a next hop of the tables. *)
LEMMA FibHop ==
  ASSUME RouteInv, NEW v \in Vrf, NEW p \in Prefix, FibResult(v, p).mpath # <<>>
  PROVE  /\ <<v, p>> \in DOMAIN dp.fib
         /\ FibResult(v, p).mpath = dp.res[dp.fib[<<v, p>>]].mpath
         /\ Head(FibResult(v, p).mpath) \in HopsOf(dp, v)
<1> DEFINE k == <<v, p>>
           m == FibResult(v, p).mpath
           e == Head(m)
<1>1. Consistent(dp) /\ RoutesOK(dp)
  BY DEF RouteInv, Consistent, Sound
<1>2. k \in DOMAIN dp.rib /\ dp.fib = dp.rib /\ m = dp.res[dp.rib[k]].mpath
  BY <1>1 DEF FibResult, RoutesOK, Blackhole
<1>3. IsListOf(m, EncapOf[v]) /\ m # <<>>
  BY <1>1, <1>2 DEF RoutesOK
<1> HIDE DEF m
<1>4. e \in EncapOf[v] /\ e \in ToSet(m)
  <2>1. m \in Seq(EncapOf[v]) /\ Len(m) \in Nat /\ Len(m) # 0 /\ m[1] = e
    BY <1>3, LenProperties, EmptySeq DEF IsListOf
  <2>2. m[1] \in EncapOf[v] /\ 1 \in DOMAIN m
    BY <2>1, ElementOfSeq, LenProperties
  <2>3. QED
    BY <2>1, <2>2 DEF ToSet
<1>5. e \in Encap
  BY <1>4, RouteAssumption
<1> HIDE DEF e
<1>6. e \in DOMAIN dp.nhop
  BY <1>1, <1>2, <1>4, <1>5, HopIsUsed
<1>7. QED
  BY <1>2, <1>4, <1>6 DEF m, e, HopsOf

LEMMA RouteLookupWrites ==
  ASSUME RouteInv, NEW K, NEW h, HwTables(h), NEW v \in Vrf, NEW src \in Src, NEW p \in Prefix,
         NEW op \in {"add", "del"}, NEW f
  PROVE  Written(dp, K, h, RouteLookup(h, v, src, p, op, f).hw)
<1> DEFINE paths == FibResult(v, p).mpath
           e == Head(paths)
           n == dp.nhop[e]
           k == <<v, src, p>>
           o1 == HwRoute(h, k, n.nh_oid, e, op, f = "hw_route")
           o2 == HwNhop(o1.hw, n, e, op, f = "hw_nhop")
           r == RouteLookup(h, v, src, p, op, f)
<1>1. paths # <<>> => e \in HopsOf(dp, v)
  BY FibHop
<1>2. k \in Vrf \X Src \X Prefix /\ k[1] = v
  OBVIOUS
<1>3. o1 = [hw |-> o1.hw, ret |-> o1.ret]
  BY Zenon DEF HwRoute, HwWrite
<1>4. op = "del" \/ paths # <<>> => Written(dp, K, h, o1.hw)
  <2> DEFINE id == n.nh_oid
  <2>1. op = "del" \/ paths # <<>> => (op = "add" => e \in HopsOf(dp, k[1]) /\ id = dp.nhop[e].nh_oid)
    BY <1>1, <1>2
  <2> HIDE DEF e, k, paths, id
  <2>2. op = "del" \/ paths # <<>> => Written(dp, K, h, HwRoute(h, k, id, e, op, f = "hw_route").hw)
    BY <1>2, <2>1, RouteWritten
  <2>3. QED
    BY <2>2 DEF id
<1>5. paths # <<>> => Written(dp, K, h, o2.hw)
  <2> SUFFICES ASSUME paths # <<>>
               PROVE  Written(dp, K, h, o2.hw)
    OBVIOUS
  <2> DEFINE g == o1.hw
  <2>1. Written(dp, K, h, g) /\ HwTables(g)
    BY <1>4 DEF Written
  <2>2. e \in HopsOf(dp, v) /\ n = dp.nhop[e]
    BY <1>1
  <2> HIDE DEF g, e, n
  <2>3. Written(dp, K, g, HwNhop(g, n, e, op, f = "hw_nhop").hw)
    BY <2>1, <2>2, NhopWritten
  <2>4. Written(dp, K, h, HwNhop(g, n, e, op, f = "hw_nhop").hw)
    BY <2>1, <2>3, WrittenOn
  <2>5. QED
    BY <2>4 DEF g
<1>6. CASE op = "add" /\ paths = <<>>
  <2>1. r.hw = h
    BY <1>6 DEF RouteLookup
  <2>2. QED
    BY <2>1, NothingWritten
<1>7. CASE ~(op = "add" /\ paths = <<>>) /\ o1.ret # OK
  <2>1. r = o1
    BY <1>7 DEF RouteLookup
  <2>2. QED
    BY <1>4, <1>7, <2>1
<1>8. CASE op = "del" /\ paths = <<>> /\ o1.ret = OK
  <2>1. r = [o1 EXCEPT !.ret = Crash]
    BY <1>8, Zenon DEF RouteLookup
  <2> HIDE DEF o1, r
  <2>2. r.hw = o1.hw
    BY <1>3, <2>1
  <2>3. QED
    BY <1>4, <1>8, <2>2 DEF r
<1>9. CASE paths # <<>> /\ o1.ret = OK
  <2>1. r = o2
    BY <1>9, Zenon DEF RouteLookup
  <2>2. QED
    BY <1>5, <1>9, <2>1
<1>10. QED
  BY <1>6, <1>7, <1>8, <1>9

LEMMA NeighLookupWrites ==
  ASSUME NEW K, NEW h, HwTables(h), NEW v, NEW g, NEW op, NEW f
  PROVE  Written(dp, K, h, NeighLookup(h, v, g, op, f).hw)
<1> DEFINE k == <<v, g>>
           r == NeighLookup(h, v, g, op, f)
<1>1. CASE k \notin DOMAIN dp.neigh \/ (k \in DOMAIN dp.neigh /\ ~dp.neigh[k].static)
  <2>1. r.hw = h
    BY <1>1 DEF NeighLookup
  <2>2. QED
    BY <2>1, NothingWritten
<1>2. CASE k \in DOMAIN dp.neigh /\ dp.neigh[k].static
  <2>1. r = HwNeigh(h, dp.neigh[k].neigh_oid, k, op, f = "hw_neigh")
    BY <1>2, Zenon DEF NeighLookup
  <2> HIDE DEF k, r
  <2>2. Written(dp, K, h, r.hw)
    BY <1>2, <2>1, NeighWritten
  <2>3. QED
    BY <2>2 DEF r
<1>3. QED
  BY <1>1, <1>2

LEMMA SwToHwWrites ==
  ASSUME RouteInv, NEW K, NEW h, HwTables(h), NEW v \in Vrf \cup {0}, NEW src \in Src,
         NEW p \in Prefix, NEW op \in {"add", "del"}, NEW f
  PROVE  Written(dp, K, h, SwToHw(v, h, src, p, op, f).hw)
<1> DEFINE r == RouteLookup(h, v, src, p, op, f)
           g == Gateway[Head(FibResult(v, p).mpath)]
           o == SwToHw(v, h, src, p, op, f)
<1>1. v # 0 => v \in Vrf /\ Written(dp, K, h, r.hw)
  BY RouteLookupWrites
<1>2. CASE v = 0
  <2>1. o.hw = h
    BY <1>2 DEF SwToHw
  <2>2. QED
    BY <2>1, NothingWritten
<1>3. CASE v # 0 /\ r.ret # OK
  <2>1. o = r
    BY <1>3 DEF SwToHw
  <2>2. QED
    BY <1>1, <1>3, <2>1
<1>4. CASE v # 0 /\ r.ret = OK
  <2>1. o = NeighLookup(r.hw, v, g, op, f)
    BY <1>4, Zenon DEF SwToHw
  <2> DEFINE x == r.hw
  <2>2. Written(dp, K, h, x) /\ HwTables(x) /\ o = NeighLookup(x, v, g, op, f)
    BY <1>1, <1>4, <2>1 DEF Written
  <2> HIDE DEF x, g, o
  <2>3. Written(dp, K, x, o.hw)
    BY <2>2, NeighLookupWrites
  <2>4. Written(dp, K, h, o.hw)
    BY <2>2, <2>3, WrittenOn
  <2>5. QED
    BY <2>4 DEF o
<1>5. QED
  BY <1>2, <1>3, <1>4

LEMMA TunnelLookupWrites ==
  ASSUME NEW h, HwTables(h), NEW k, NEW op, NEW f, NEW junk
  PROVE  LET t == TunnelLookup(h, k, op, f, junk)
         IN  Written(dp, DOMAIN tun, h, t.hw) /\ t.vrf \in Vrf \cup {0}
<1> DEFINE id == VrfIdOf(k, junk)
           o1 == HwTunnelAdd(h, k, id, f = "hw_tunnel")
           o2 == HwTunnelDel(h, k, f = "hw_tunnel")
           t == TunnelLookup(h, k, op, f, junk)
<1>1. CASE k \in DOMAIN tun
  <2>1. t.vrf = GetById(id) /\ (t.hw = o1.hw \/ t.hw = o2.hw)
    BY <1>1 DEF TunnelLookup
  <2>2. GetById(id) \in Vrf \cup {0}
    BY DEF GetById
  <2> DEFINE K == DOMAIN tun
  <2> HIDE DEF id, t, K
  <2>3. k \in K
    BY <1>1 DEF K
  <2>4. Written(dp, K, h, HwTunnelAdd(h, k, id, f = "hw_tunnel").hw)
    BY <2>3, TunnelWritten
  <2>5. Written(dp, K, h, HwTunnelDel(h, k, f = "hw_tunnel").hw)
    BY <2>3, TunnelWritten
  <2>6. Written(dp, K, h, t.hw)
    BY <2>1, <2>4, <2>5
  <2>7. QED
    BY <2>1, <2>2, <2>6 DEF t, K
<1>2. CASE k \notin DOMAIN tun
  <2>1. t.hw = h /\ t.vrf = 0
    BY <1>2 DEF TunnelLookup
  <2>2. QED
    BY <2>1, NothingWritten
<1>3. QED
  BY <1>1, <1>2

LEMMA RuleCallWrites ==
  ASSUME RouteInv, HwTables(hw), NEW vni, NEW src \in Src, NEW p \in Prefix,
         NEW op \in {"add", "del"}, NEW f, NEW junk, SwTohwRule(vni, src, p, op, f, junk)
  PROVE  Written(dp, DOMAIN tun, hw, hw')
<1> DEFINE k == KeyOf(vni)
           t == TunnelLookup(hw, k, op, f, junk)
           o == SwToHw(t.vrf, t.hw, src, p, op, f)
<1>1. hw' = o.hw
  BY DEF SwTohwRule
<1>2. Written(dp, DOMAIN tun, hw, t.hw) /\ t.vrf \in Vrf \cup {0}
  BY TunnelLookupWrites
<1> DEFINE h == t.hw
           v == t.vrf
<1>3. Written(dp, DOMAIN tun, hw, h) /\ HwTables(h) /\ v \in Vrf \cup {0}
      /\ hw' = SwToHw(v, h, src, p, op, f).hw
  BY <1>1, <1>2 DEF Written
<1> HIDE DEF h, v
<1>4. Written(dp, DOMAIN tun, h, hw')
  BY <1>3, SwToHwWrites
<1>5. QED
  BY <1>3, <1>4, WrittenOn

(* The calls that change the hardware. *)
LEMMA HwStep ==
  ASSUME RouteInv, HwTables(hw), [RuleNext]_cvars
  PROVE  Written(dp, DOMAIN tun, hw, hw')
<1>1. CASE hw' = hw
  BY <1>1, NothingWritten
<1>2. CASE UNCHANGED cvars
  BY <1>1, <1>2 DEF cvars, avars
<1>3. ASSUME NEW n, NEW pos, NEW k, NEW f, NEW junk, NEW x,
             \/ VrfIdLookup(n) \/ VrfAdd(n) \/ VrfDel(n, pos) \/ TunnelMapVrf(n, k, f, junk)
             \/ VrfIntipUnset(n) \/ VrfIntipSet(n, x) \/ VrfRmacSet(n, x) \/ VrfRmacUnset(n, x)
             \/ UnmapBak(k, junk) \/ RouteCalls
      PROVE  hw' = hw
  BY <1>3 DEF VrfIdLookup, VrfAdd, VrfDel, TunnelMapVrf, VrfIntipUnset, VrfIntipSet, VrfRmacSet,
              VrfRmacUnset, SetField, UnmapBak, RouteCalls
<1>4. ASSUME NEW k, NEW f, NEW junk, UnmapAgent(k, f, junk)
      PROVE  Written(dp, DOMAIN tun, hw, hw')
  <2>1. CASE k \in DOMAIN tun
    <3>1. hw' = HwTunnelDel(hw, k, f = "hw_tunnel").hw
      BY <1>4, <2>1 DEF UnmapAgent
    <3>2. Written(dp, DOMAIN tun, hw, HwTunnelDel(hw, k, f = "hw_tunnel").hw)
      BY <2>1, TunnelWritten
    <3>3. QED
      BY <3>1, <3>2
  <2>2. CASE k \notin DOMAIN tun
    BY <1>1, <1>4, <2>2 DEF UnmapAgent
  <2>3. QED
    BY <2>1, <2>2
<1>5. ASSUME NEW vni, NEW src \in Src, NEW p \in Prefix, NEW op \in {"add", "del"}, NEW f, NEW junk,
             SwTohwRule(vni, src, p, op, f, junk)
      PROVE  Written(dp, DOMAIN tun, hw, hw')
  BY <1>5, RuleCallWrites
<1>6. QED
  BY <1>1, <1>2, <1>3, <1>4, <1>5 DEF RuleNext, VrfNext

-----------------------------------------------------------------------------
(* Names.  An object id, in software or left over in a hardware entry,     *)
(* names one next hop or neighbour; ids above the last one are unused.     *)

Bounded(S, n) == \A x \in S : x[1] \in 1 .. n
Functional(S) == \A x, y \in S : x[1] = y[1] => x[2] = y[2]

LEMMA FewerNames ==
  ASSUME NEW S, NEW T, T \subseteq S, NEW n \in Nat, NEW m \in Nat, n <= m
  PROVE  /\ Bounded(S, n) => Bounded(T, m)
         /\ Functional(S) => Functional(T)
BY DEF Bounded, Functional

LEMMA OneNameMore ==
  ASSUME NEW S, NEW T, NEW a, NEW n \in Nat, T \subseteq S \cup {<<n + 1, a>>},
         Bounded(S, n), Functional(S)
  PROVE  Bounded(T, n + 1) /\ Functional(T)
<1>1. \A x \in T : x \in S \/ x = <<n + 1, a>>
  OBVIOUS
<1>2. \A x \in S : x[1] \in 1 .. n /\ x[1] # n + 1
  BY DEF Bounded
<1>3. Bounded(T, n + 1)
  BY <1>1, <1>2 DEF Bounded
<1>4. ASSUME NEW x \in T, NEW y \in T, x[1] = y[1]
      PROVE  x[2] = y[2]
  BY <1>1, <1>2, <1>4 DEF Functional
<1>5. QED
  BY <1>3, <1>4 DEF Functional

SoftHops(s) == {<<s.nhop[e].nh_oid, e>> : e \in DOMAIN s.nhop}
HardHops(h) == {<<h.route[r].nhop_id, h.route[r].path>> : r \in DOMAIN h.route}
                 \cup {<<i, h.nhop[i].encap>> : i \in DOMAIN h.nhop}
HopNames(s, h) == SoftHops(s) \cup HardHops(h)

(* A hardware next hop names the neighbour of the VRF that owns it. *)
Named(h) == {x \in (DOMAIN h.nhop) \X Vrf :
               h.nhop[x[1]].encap \in EncapOf[x[2]] /\ Gateway[h.nhop[x[1]].encap] # 0}
SoftNeighs(s) == {<<s.neigh[k].neigh_oid, k>> : k \in DOMAIN s.neigh}
HardNeighs(h) == {<<i, h.neigh[i]>> : i \in DOMAIN h.neigh}
                   \cup {<<h.nhop[x[1]].neigh_id, <<x[2], Gateway[h.nhop[x[1]].encap]>>>> :
                           x \in Named(h)}
AllNeighs(s, h) == SoftNeighs(s) \cup HardNeighs(h)

(* Id 0 is no name: neighbours created statically share it. *)
NeighNames(s, h) == {x \in AllNeighs(s, h) : x[1] # 0}

(* A next hop has the id of its neighbour, or 0 without a gateway. *)
Linked(s) ==
  /\ \A v \in Vrf : \A e \in HopsOf(s, v) :
       Gateway[e] # 0 => /\ <<v, Gateway[e]>> \in DOMAIN s.neigh
                         /\ s.neigh[<<v, Gateway[e]>>].neigh_oid = s.nhop[e].neigh_oid
  /\ \A e \in DOMAIN s.nhop : Gateway[e] = 0 => s.nhop[e].neigh_oid = 0

HardLinked(h) ==
  /\ \A r \in DOMAIN h.route : r[1] \in Vrf /\ h.route[r].path \in EncapOf[r[1]]
  /\ \A i \in DOMAIN h.nhop : Gateway[h.nhop[i].encap] = 0 => h.nhop[i].neigh_id = 0

Ids(s, h) ==
  /\ Bounded(HopNames(s, h), s.nh_oids) /\ Functional(HopNames(s, h))
  /\ Bounded(NeighNames(s, h), s.neigh_oids) /\ Functional(NeighNames(s, h))
  /\ Linked(s) /\ HardLinked(h)

(* The chain is sound when ids are names. *)
LEMMA IdsSound ==
  ASSUME NEW s, NEW h, Ids(s, h), s.neigh_oids \in Nat,
         NEW r \in DOMAIN h.route, h.route[r].nhop_id \in DOMAIN h.nhop
  PROVE  LET n == h.nhop[h.route[r].nhop_id]
         IN  /\ n.encap = h.route[r].path
             /\ n.neigh_id \in DOMAIN h.neigh \ {0} =>
                  h.neigh[n.neigh_id] = <<r[1], Gateway[n.encap]>>
<1> DEFINE i == h.route[r].nhop_id
           e == h.route[r].path
           n == h.nhop[i]
           j == n.neigh_id
           k == <<r[1], Gateway[e]>>
<1>1. <<i, e>> \in HopNames(s, h) /\ <<i, n.encap>> \in HopNames(s, h)
  BY DEF HopNames, HardHops
<1>2. n.encap = e
  <2> HIDE DEF i, e, n
  <2>1. <<i, e>>[2] = <<i, n.encap>>[2]
    BY <1>1 DEF Ids, Functional
  <2>2. QED
    BY <2>1
<1>3. r[1] \in Vrf /\ e \in EncapOf[r[1]]
  BY DEF Ids, HardLinked
<1>4. ASSUME j \in DOMAIN h.neigh \ {0}
      PROVE  h.neigh[j] = k
  <2>1. <<j, h.neigh[j]>> \in NeighNames(s, h)
    <3> HIDE DEF j
    <3>1. <<j, h.neigh[j]>> \in AllNeighs(s, h)
      BY <1>4 DEF AllNeighs, HardNeighs
    <3>2. QED
      BY <1>4, <3>1 DEF NeighNames
  <2>2. CASE Gateway[e] # 0
    <3>1. <<i, r[1]>> \in Named(h)
      BY <1>2, <1>3, <2>2 DEF Named
    <3>2. <<j, k>> \in NeighNames(s, h)
      <4>1. <<h.nhop[<<i, r[1]>>[1]].neigh_id, <<(<<i, r[1]>>)[2], Gateway[h.nhop[<<i, r[1]>>[1]].encap]>>>>
              \in HardNeighs(h)
        BY <3>1 DEF HardNeighs
      <4>2. <<j, k>> \in AllNeighs(s, h)
        BY <1>2, <4>1 DEF AllNeighs
      <4> HIDE DEF j, k
      <4>3. QED
        BY <1>4, <4>2 DEF NeighNames
    <3> HIDE DEF j, k
    <3>3. <<j, h.neigh[j]>>[2] = <<j, k>>[2]
      BY <2>1, <3>2 DEF Ids, Functional
    <3>4. QED
      BY <3>3
  <2>3. CASE Gateway[e] = 0
    <3>1. j = 0
      BY <1>2, <2>3 DEF Ids, HardLinked
    <3>2. QED
      BY <1>4, <3>1
  <2>4. QED
    BY <2>2, <2>3
<1>5. QED
  BY <1>2, <1>4

(* Writing entries makes no new names. *)
LEMMA WrittenIds ==
  ASSUME Disjoint, NEW s, NEW K, NEW h, NEW g, Ids(s, h), Written(s, K, h, g),
         s.nh_oids \in Nat, s.neigh_oids \in Nat
  PROVE  Ids(s, g)
<1>1. HopNames(s, g) \subseteq HopNames(s, h)
  <2>1. ASSUME NEW r \in DOMAIN g.route
        PROVE  <<g.route[r].nhop_id, g.route[r].path>> \in HopNames(s, h)
    BY DEF Written, HopNames, SoftHops, HardHops, HopsOf
  <2>2. ASSUME NEW i \in DOMAIN g.nhop
        PROVE  <<i, g.nhop[i].encap>> \in HopNames(s, h)
    <3>1. CASE i \in DOMAIN h.nhop /\ g.nhop[i] = h.nhop[i]
      BY <3>1 DEF HopNames, HardHops
    <3>2. CASE ~(i \in DOMAIN h.nhop /\ g.nhop[i] = h.nhop[i])
      <4> DEFINE e == g.nhop[i].encap
      <4>1. e \in DOMAIN s.nhop /\ i = s.nhop[e].nh_oid
        BY <3>2 DEF Written, HopsOf
      <4> HIDE DEF e
      <4>2. <<i, e>> \in SoftHops(s)
        BY <4>1 DEF SoftHops
      <4>3. QED
        BY <4>2 DEF HopNames, e
    <3>3. QED
      BY <3>1, <3>2
  <2>3. HardHops(g) \subseteq HopNames(s, h)
    BY <2>1, <2>2 DEF HardHops
  <2>4. QED
    BY <2>3 DEF HopNames
<1>0. AllNeighs(s, g) \subseteq AllNeighs(s, h)
  <2>1. ASSUME NEW i \in DOMAIN g.neigh
        PROVE  <<i, g.neigh[i]>> \in AllNeighs(s, h)
    BY DEF Written, AllNeighs, SoftNeighs, HardNeighs
  <2>2. ASSUME NEW i \in DOMAIN g.nhop, NEW v \in Vrf, g.nhop[i].encap \in EncapOf[v],
               Gateway[g.nhop[i].encap] # 0
        PROVE  <<g.nhop[i].neigh_id, <<v, Gateway[g.nhop[i].encap]>>>> \in AllNeighs(s, h)
    <3> DEFINE e == g.nhop[i].encap
               j == g.nhop[i].neigh_id
               k == <<v, Gateway[e]>>
    <3>1. CASE i \in DOMAIN h.nhop /\ g.nhop[i] = h.nhop[i]
      <4>1. <<i, v>> \in Named(h)
        BY <2>2, <3>1 DEF Named
      <4>2. <<h.nhop[<<i, v>>[1]].neigh_id, <<(<<i, v>>)[2], Gateway[h.nhop[<<i, v>>[1]].encap]>>>>
              \in HardNeighs(h)
        BY <4>1 DEF HardNeighs
      <4>3. QED
        BY <3>1, <4>2 DEF AllNeighs
    <3>2. CASE ~(i \in DOMAIN h.nhop /\ g.nhop[i] = h.nhop[i])
      <4>1. e \in DOMAIN s.nhop /\ j = s.nhop[e].neigh_oid
        BY <3>2 DEF Written, HopsOf
      <4>2. k \in DOMAIN s.neigh /\ s.neigh[k].neigh_oid = s.nhop[e].neigh_oid
        BY <2>2, <4>1 DEF Ids, Linked, HopsOf
      <4> HIDE DEF e, j, k
      <4>3. <<j, k>> \in SoftNeighs(s)
        BY <4>1, <4>2 DEF SoftNeighs
      <4>4. QED
        BY <4>3 DEF AllNeighs, e, j, k
    <3>3. QED
      BY <3>1, <3>2
  <2>3. HardNeighs(g) \subseteq AllNeighs(s, h)
    <3>1. ASSUME NEW x \in Named(g)
          PROVE  <<g.nhop[x[1]].neigh_id, <<x[2], Gateway[g.nhop[x[1]].encap]>>>> \in AllNeighs(s, h)
      BY <2>2 DEF Named
    <3>2. QED
      BY <2>1, <3>1 DEF HardNeighs
  <2>4. QED
    BY <2>3 DEF AllNeighs
<1>2. NeighNames(s, g) \subseteq NeighNames(s, h)
  BY <1>0 DEF NeighNames
<1>3. HardLinked(g)
  <2>1. \A r \in DOMAIN g.route : r[1] \in Vrf /\ g.route[r].path \in EncapOf[r[1]]
    BY DEF Written, Ids, HardLinked, HopsOf
  <2>2. \A i \in DOMAIN g.nhop : Gateway[g.nhop[i].encap] = 0 => g.nhop[i].neigh_id = 0
    BY DEF Written, Ids, HardLinked, Linked, HopsOf
  <2>3. QED
    BY <2>1, <2>2 DEF HardLinked
<1> DEFINE P == HopNames(s, h)
           Q == NeighNames(s, h)
           P1 == HopNames(s, g)
           Q1 == NeighNames(s, g)
<1>4. /\ Bounded(P, s.nh_oids) /\ Functional(P) /\ Bounded(Q, s.neigh_oids) /\ Functional(Q)
      /\ P1 \subseteq P /\ Q1 \subseteq Q /\ Linked(s)
  BY <1>1, <1>2 DEF Ids
<1> HIDE DEF P, Q, P1, Q1
<1>5. Bounded(P1, s.nh_oids) /\ Functional(P1)
  BY <1>4 DEF Bounded, Functional
<1>7. Bounded(Q1, s.neigh_oids) /\ Functional(Q1)
  BY <1>4 DEF Bounded, Functional
<1>6. QED
  BY <1>3, <1>4, <1>5, <1>7 DEF Ids, P1, Q1

(* Objects that go take their names with them; a new object has a new one. *)
LEMMA ShrinkIds ==
  ASSUME NEW s, NEW t, NEW h, Ids(s, h), Shaped(s), Shrinks(s, t), Linked(t)
  PROVE  Ids(t, h)
<1>1. HopNames(t, h) \subseteq HopNames(s, h)
  BY DEF HopNames, SoftHops, Shrinks, HopIdsStay
<1>2. NeighNames(t, h) \subseteq NeighNames(s, h)
  <2>1. AllNeighs(t, h) \subseteq AllNeighs(s, h)
    BY DEF AllNeighs, SoftNeighs, Shrinks, NeighIdsStay
  <2>2. QED
    BY <2>1 DEF NeighNames
<1>3. /\ s.nh_oids \in Nat /\ t.nh_oids \in Nat /\ s.nh_oids <= t.nh_oids
      /\ s.neigh_oids \in Nat /\ t.neigh_oids \in Nat /\ s.neigh_oids <= t.neigh_oids
  BY DEF Shrinks, Shaped, HopIdsStay, NeighIdsStay
<1> DEFINE P == HopNames(s, h)
           Q == NeighNames(s, h)
           P1 == HopNames(t, h)
           Q1 == NeighNames(t, h)
<1>4. /\ Bounded(P, s.nh_oids) /\ Functional(P) /\ Bounded(Q, s.neigh_oids) /\ Functional(Q)
      /\ P1 \subseteq P /\ Q1 \subseteq Q /\ HardLinked(h)
  BY <1>1, <1>2 DEF Ids
<1> HIDE DEF P, Q, P1, Q1
<1>5. Bounded(P1, t.nh_oids) /\ Functional(P1)
  BY <1>3, <1>4, FewerNames
<1>6. Bounded(Q1, t.neigh_oids) /\ Functional(Q1)
  BY <1>3, <1>4, FewerNames
<1>7. QED
  BY <1>4, <1>5, <1>6 DEF Ids, P1, Q1

LEMMA GrowIds ==
  ASSUME NEW s, NEW t, NEW h, Ids(s, h), Shaped(s), NEW v \in Vrf, NEW e, Grown(s, t, v, e),
         Linked(t)
  PROVE  Ids(t, h)
<1> DEFINE k == <<v, Gateway[e]>>
           n == s.nh_oids
           m == s.neigh_oids
           P == HopNames(s, h)
           Q == NeighNames(s, h)
           P1 == HopNames(t, h)
           Q1 == NeighNames(t, h)
           R == AllNeighs(s, h)
           R1 == AllNeighs(t, h)
<1>0. n \in Nat /\ m \in Nat /\ t.nh_oids = n + 1 /\ t.neigh_oids \in Nat
  BY DEF Shaped, Grown
<1>1. P1 \subseteq P \cup {<<n + 1, e>>}
  <2>1. ASSUME NEW x \in DOMAIN t.nhop
        PROVE  <<t.nhop[x].nh_oid, x>> \in SoftHops(s) \cup {<<n + 1, e>>}
    BY DEF Grown, SoftHops
  <2>2. QED
    BY <2>1 DEF HopNames, SoftHops
<1>5. \/ R1 \subseteq R /\ m <= t.neigh_oids
      \/ R1 \subseteq R \cup {<<m + 1, k>>} /\ t.neigh_oids = m + 1
  <2>1. CASE Gateway[e] = 0
    <3>1. NeighIdsStay(s, t)
      BY <2>1 DEF Grown
    <3>2. QED
      BY <3>1 DEF NeighIdsStay, AllNeighs, SoftNeighs
  <2>2. CASE Gateway[e] # 0
    <3>1. NeighGrown(s, t, k)
      BY <2>2 DEF Grown
    <3>2. CASE k \in DOMAIN s.neigh
      <4>1. \A x \in DOMAIN t.neigh : x \in DOMAIN s.neigh /\ t.neigh[x].neigh_oid = s.neigh[x].neigh_oid
        BY <3>1, <3>2 DEF NeighGrown
      <4>2. t.neigh_oids = m
        BY <3>1, <3>2 DEF NeighGrown
      <4>3. QED
        BY <1>0, <4>1, <4>2 DEF AllNeighs, SoftNeighs
    <3>3. CASE k \notin DOMAIN s.neigh
      <4>0. /\ DOMAIN t.neigh = DOMAIN s.neigh \cup {k}
            /\ \A x \in DOMAIN s.neigh : t.neigh[x].neigh_oid = s.neigh[x].neigh_oid
            /\ t.neigh_oids = m + 1 /\ t.neigh[k].neigh_oid = m + 1
        BY <3>1, <3>3, Zenon DEF NeighGrown
      <4> HIDE DEF k, m
      <4>1. /\ t.neigh_oids = m + 1
            /\ \A x \in DOMAIN t.neigh :
                 \/ x \in DOMAIN s.neigh /\ t.neigh[x].neigh_oid = s.neigh[x].neigh_oid
                 \/ x = k /\ t.neigh[x].neigh_oid = m + 1
        BY <4>0
      <4>2. SoftNeighs(t) \subseteq SoftNeighs(s) \cup {<<m + 1, k>>}
        BY <4>1 DEF SoftNeighs
      <4>3. QED
        BY <4>1, <4>2 DEF AllNeighs
    <3>4. QED
      BY <3>2, <3>3
  <2>3. QED
    BY <2>1, <2>2
<1>2. \/ Q1 \subseteq Q /\ m <= t.neigh_oids
      \/ Q1 \subseteq Q \cup {<<m + 1, k>>} /\ t.neigh_oids = m + 1
  <2> HIDE DEF R, R1, m, k
  <2>1. Q = {x \in R : x[1] # 0} /\ Q1 = {x \in R1 : x[1] # 0}
    BY DEF NeighNames, R, R1
  <2> HIDE DEF Q, Q1
  <2>2. QED
    BY <1>5, <2>1
<1>3. Bounded(P, n) /\ Functional(P) /\ Bounded(Q, m) /\ Functional(Q) /\ HardLinked(h)
  BY DEF Ids
<1> HIDE DEF P, Q, P1, Q1, n, m, k
<1>4. Bounded(P1, n + 1) /\ Functional(P1)
  BY <1>0, <1>1, <1>3, OneNameMore
<1>6. Bounded(Q1, t.neigh_oids) /\ Functional(Q1)
  <2>1. CASE Q1 \subseteq Q /\ m <= t.neigh_oids
    BY <1>0, <1>3, <2>1, FewerNames
  <2>2. CASE Q1 \subseteq Q \cup {<<m + 1, k>>} /\ t.neigh_oids = m + 1
    <3>1. Bounded(Q1, m + 1) /\ Functional(Q1)
      BY <1>0, <1>3, <2>2, OneNameMore
    <3>2. QED
      BY <2>2, <3>1
  <2>3. QED
    BY <1>2, <2>1, <2>2
<1>7. QED
  BY <1>0, <1>3, <1>4, <1>6 DEF Ids, P1, Q1

(* A neighbour that joins has no name. *)
LEMMA JoinIds ==
  ASSUME NEW s, NEW t, NEW h, NEW k, Ids(s, h), Joined(s, t, k), Linked(t)
  PROVE  Ids(t, h)
<1>1. HopNames(t, h) = HopNames(s, h)
  BY DEF Joined, SameHops, HopNames, SoftHops
<1>2. AllNeighs(t, h) \subseteq AllNeighs(s, h) \cup {<<0, k>>}
  <2>1. ASSUME NEW x \in DOMAIN t.neigh
        PROVE  <<t.neigh[x].neigh_oid, x>> \in SoftNeighs(s) \cup {<<0, k>>}
    BY DEF Joined, SoftNeighs
  <2>2. QED
    BY <2>1 DEF AllNeighs, SoftNeighs
<1>3. NeighNames(t, h) \subseteq NeighNames(s, h)
  BY <1>2 DEF NeighNames
<1> DEFINE Q == NeighNames(s, h)
           Q1 == NeighNames(t, h)
<1>4. Bounded(Q, s.neigh_oids) /\ Functional(Q) /\ Q1 \subseteq Q
  BY <1>3 DEF Ids
<1> HIDE DEF Q, Q1
<1>5. Bounded(Q1, s.neigh_oids) /\ Functional(Q1)
  BY <1>4 DEF Bounded, Functional
<1>6. t.neigh_oids = s.neigh_oids /\ t.nh_oids = s.nh_oids
  BY DEF Joined, SameHops
<1>7. QED
  BY <1>1, <1>5, <1>6 DEF Ids, Q1

(* While VRFs share no encapsulation, a next hop keeps its neighbour. *)
LEMMA NeighIsThere ==
  ASSUME Disjoint, NEW s, Consistent(s), NEW v \in Vrf, NEW e \in HopsOf(s, v), Gateway[e] # 0
  PROVE  <<v, Gateway[e]>> \in DOMAIN s.neigh
<1> DEFINE g == Gateway[e]
           U == Users(s, v, g)
           k == <<v, g>>
<1>1. e \in Encap /\ g \in Gateways
  BY RouteAssumption, GatewayOf DEF HopsOf
<1>2. e \in U /\ IsFiniteSet(U) /\ Cardinality(U) \in Nat
  <2>1. e \in U
    BY <1>1 DEF Users, HopsOf
  <2>2. IsFiniteSet(Users(s, v, g)) /\ Cardinality(Users(s, v, g)) \in Nat
    BY UsersIs
  <2>3. QED
    BY <2>1, <2>2
<1>3. NCount(s, k) = Cardinality(U) + NStatic(s, k)
  BY <1>1 DEF Consistent, Sound, NeighInv, NeighsCounted
<1>4. NStatic(s, k) \in Nat
  BY DEF NStatic
<1> HIDE DEF U, k
<1>5. Cardinality(U) # 0
  BY <1>2, FS_EmptySet
<1>6. NCount(s, k) # 0
  BY <1>2, <1>3, <1>4, <1>5
<1>7. QED
  BY <1>6 DEF NCount, k

LEMMA LinkedStays ==
  ASSUME Disjoint, NEW s, NEW t, Consistent(t), Linked(s),
         Shrinks(s, t) \/ \E v \in Vrf : \E e \in EncapOf[v] : Grown(s, t, v, e)
  PROVE  Linked(t)
<1>1. CASE Shrinks(s, t)
  <2>1. ASSUME NEW v \in Vrf, NEW e \in HopsOf(t, v), Gateway[e] # 0
        PROVE  /\ <<v, Gateway[e]>> \in DOMAIN t.neigh
               /\ t.neigh[<<v, Gateway[e]>>].neigh_oid = t.nhop[e].neigh_oid
    <3> DEFINE k == <<v, Gateway[e]>>
    <3>1. k \in DOMAIN t.neigh
      BY <2>1, NeighIsThere
    <3>2. /\ e \in HopsOf(s, v) /\ t.nhop[e].neigh_oid = s.nhop[e].neigh_oid
          /\ t.neigh[k].neigh_oid = s.neigh[k].neigh_oid
      BY <1>1, <3>1 DEF Shrinks, HopIdsStay, NeighIdsStay, HopsOf
    <3>3. s.neigh[k].neigh_oid = s.nhop[e].neigh_oid
      BY <2>1, <3>2 DEF Linked
    <3>4. QED
      BY <3>1, <3>2, <3>3
  <2>2. ASSUME NEW e \in DOMAIN t.nhop, Gateway[e] = 0
        PROVE  t.nhop[e].neigh_oid = 0
    BY <1>1, <2>2 DEF Shrinks, HopIdsStay, Linked
  <2>3. QED
    BY <2>1, <2>2 DEF Linked
<1>2. ASSUME NEW u \in Vrf, NEW x \in EncapOf[u], Grown(s, t, u, x)
      PROVE  Linked(t)
  <2>1. ASSUME NEW v \in Vrf, NEW e \in HopsOf(t, v), Gateway[e] # 0
        PROVE  /\ <<v, Gateway[e]>> \in DOMAIN t.neigh
               /\ t.neigh[<<v, Gateway[e]>>].neigh_oid = t.nhop[e].neigh_oid
    <3> DEFINE k == <<v, Gateway[e]>>
    <3>1. CASE e = x
      <4>1. v = u
        BY <3>1 DEF Disjoint, HopsOf
      <4>2. QED
        BY <1>2, <2>1, <3>1, <4>1 DEF Grown, NeighGrown
    <3>2. CASE e # x
      <4>1. e \in HopsOf(s, v) /\ t.nhop[e].neigh_oid = s.nhop[e].neigh_oid
        BY <1>2, <3>2 DEF Grown, HopsOf
      <4>2. k \in DOMAIN s.neigh /\ s.neigh[k].neigh_oid = s.nhop[e].neigh_oid
        BY <2>1, <4>1 DEF Linked
      <4>3. k \in DOMAIN t.neigh
        BY <2>1, NeighIsThere
      <4>4. t.neigh[k].neigh_oid = s.neigh[k].neigh_oid
        BY <1>2, <4>2, <4>3 DEF Grown, NeighGrown, NeighIdsStay
      <4>5. QED
        BY <4>1, <4>2, <4>3, <4>4
    <3>3. QED
      BY <3>1, <3>2
  <2>2. ASSUME NEW e \in DOMAIN t.nhop, Gateway[e] = 0
        PROVE  t.nhop[e].neigh_oid = 0
    BY <1>2, <2>2 DEF Grown, Linked
  <2>3. QED
    BY <2>1, <2>2 DEF Linked
<1>3. QED
  BY <1>1, <1>2

(* A neighbour that joins is not the one of a next hop that is there. *)
LEMMA LinkedJoins ==
  ASSUME NEW s, NEW t, NEW k, Linked(s), Joined(s, t, k)
  PROVE  Linked(t)
<1>1. \A v : HopsOf(t, v) = HopsOf(s, v)
  BY DEF Joined, SameHops, HopsOf
<1>2. QED
  BY <1>1 DEF Linked, Joined, SameHops

-----------------------------------------------------------------------------
(* The invariants of object ids and of the hardware.                       *)

LEMMA DpStep ==
  ASSUME RouteInv, [RuleNext]_cvars
  PROVE  \/ Shrinks(dp, dp')
         \/ \E v \in Vrf : \E e \in EncapOf[v] : Grown(dp, dp', v, e)
         \/ \E k : Joined(dp, dp', k)
<1>1. Consistent(dp) /\ Consistent(Fresh) /\ Shaped(dp) /\ Shaped(Fresh)
  BY FreshConsistent, ConsistentShaped DEF RouteInv
<1>2. SameHops(dp, Fresh) /\ SameNeigh(dp, Fresh)
  BY <1>1, FreshIs DEF Shaped
<1>3. Shrinks(dp, dp) /\ Shrinks(dp, Fresh)
  BY <1>1, <1>2, SameShrinks DEF Shaped, SameHops, SameNeigh
<1>4. Shrinks(Fresh, dp') => Shrinks(dp, dp')
  BY <1>1, <1>3, ShrinksOn
<1>5. \A v, e : Grown(Fresh, dp', v, e) => Grown(dp, dp', v, e)
  <2>1. NeighIdsStay(Fresh, dp') => NeighIdsStay(dp, dp')
    BY <1>2 DEF NeighIdsStay, SameNeigh
  <2>2. \A k : NeighGrown(Fresh, dp', k) => NeighGrown(dp, dp', k)
    BY <1>2 DEF NeighGrown, SameNeigh
  <2>3. QED
    BY <1>2, <2>1, <2>2 DEF Grown, SameHops
<1>6. ASSUME NEW v \in Vrf, DpCtors(v)
      PROVE  Shrinks(dp, dp')
  <2>1. /\ Consistent(dp') /\ SameHops(Fresh, dp')
        /\ dp'.neigh = Fresh.neigh /\ dp'.neigh_oids = Fresh.neigh_oids
    BY <1>1, <1>6, CtorKeeps DEF DpCtors
  <2>2. Shaped(dp')
    BY <2>1, ConsistentShaped
  <2>3. Shrinks(Fresh, dp')
    BY <1>1, <2>1, <2>2 DEF Shrinks, Shaped, HopIdsStay, NeighIdsStay, SameHops
  <2>4. QED
    BY <1>4, <2>3
<1>7. ASSUME NEW v \in Vrf, DpDtors(v)
      PROVE  Shrinks(dp, dp')
  BY <1>1, <1>4, <1>7, CleanupShrinks DEF DpDtors
<1>8. CASE RouteCalls
  <2>1. PICK v \in Vrf :
           \/ \E p \in Prefix, e \in EncapOf[v] : \E t, pos :
                \/ dp' = Insert(Fresh, v, p, e, t, "none", pos).dp
                \/ dp' = DeleteNhop(Fresh, v, p, e, t, "none", pos).dp
           \/ \E g \in Static[v] : dp' = StaticAdd(Fresh, v, g, "none").dp
    BY <1>8, RouteCallsAre
  <2>2. ASSUME NEW p \in Prefix, NEW e \in EncapOf[v], NEW t, NEW pos,
               dp' = Insert(Fresh, v, p, e, t, "none", pos).dp
        PROVE  Shrinks(dp, dp') \/ Grown(dp, dp', v, e)
    <3>1. Shrinks(Fresh, dp') \/ Grown(Fresh, dp', v, e)
      BY <1>1, <2>2, InsertIds
    <3>2. QED
      BY <1>4, <1>5, <3>1
  <2>3. ASSUME NEW p \in Prefix, NEW e \in EncapOf[v], NEW t, NEW pos,
               dp' = DeleteNhop(Fresh, v, p, e, t, "none", pos).dp
        PROVE  Shrinks(dp, dp')
    BY <1>1, <1>4, <2>3, DeleteNhopShrinks
  <2>4. ASSUME NEW g \in Static[v], <<v, g>> \in DOMAIN dp.neigh,
               dp' = StaticAdd(Fresh, v, g, "none").dp
        PROVE  Shrinks(dp, dp')
    <3>1. <<v, g>> \in DOMAIN Fresh.neigh
      BY <1>2, <2>4 DEF SameNeigh
    <3>2. QED
      BY <1>1, <1>4, <2>4, <3>1, StaticAddShrinks
  <2>5. ASSUME NEW g \in Static[v], <<v, g>> \notin DOMAIN dp.neigh,
               dp' = StaticAdd(Fresh, v, g, "none").dp
        PROVE  Joined(dp, dp', <<v, g>>)
    <3>1. <<v, g>> \notin DOMAIN Fresh.neigh
      BY <1>2, <2>5 DEF SameNeigh
    <3>2. Joined(Fresh, dp', <<v, g>>)
      BY <1>1, <2>5, <3>1, StaticAddJoins
    <3>3. QED
      BY <1>2, <3>2 DEF Joined, SameHops, SameNeigh
  <2>6. QED
    BY <2>1, <2>2, <2>3, <2>4, <2>5
<1>9. QED
  BY <1>3, <1>6, <1>7, <1>8, StepDp

HwInit == /\ HwTables(hw) /\ DOMAIN hw.tunnel = {} /\ DOMAIN hw.route = {}
          /\ DOMAIN hw.nhop = {} /\ DOMAIN hw.neigh = {}

LEMMA HwInitOK ==
  RuleInit => HwInit
BY DEF RuleInit, VrfInit, HwInit, HwTables, Empty

LEMMA IdsInit ==
  RuleInit => Ids(dp, hw)
<1> SUFFICES ASSUME RuleInit
             PROVE  Ids(dp, hw)
  OBVIOUS
<1>1. HwInit /\ DOMAIN dp.nhop = {} /\ DOMAIN dp.neigh = {}
  BY HwInitOK DEF RuleInit, VrfInit, RouteInit
<1>2. HopNames(dp, hw) = {} /\ NeighNames(dp, hw) = {}
  BY <1>1 DEF HwInit, HopNames, SoftHops, HardHops, NeighNames, AllNeighs, SoftNeighs, HardNeighs, Named
<1>3. Linked(dp) /\ HardLinked(hw)
  BY <1>1 DEF HwInit, Linked, HardLinked, HopsOf
<1>4. QED
  BY <1>2, <1>3 DEF Ids, Bounded, Functional

LEMMA IdsStep ==
  Disjoint =>
    (RouteInv /\ RouteInv' /\ HwTables(hw) /\ Ids(dp, hw) /\ [RuleNext]_cvars
       => HwTables(hw') /\ Ids(dp', hw'))
<1> SUFFICES ASSUME Disjoint, RouteInv, RouteInv', HwTables(hw), Ids(dp, hw), [RuleNext]_cvars
             PROVE  HwTables(hw') /\ Ids(dp', hw')
  OBVIOUS
<1> DEFINE h == hw
           g == hw'
           s == dp
           t == dp'
           K == DOMAIN tun
<1>1. Consistent(t) /\ Shaped(s) /\ s.nh_oids \in Nat /\ s.neigh_oids \in Nat
  BY ConsistentShaped DEF RouteInv, Shaped
<1>2. Written(s, K, h, g) /\ HwTables(g)
  BY HwStep DEF Written
<1>3. \/ Shrinks(s, t) \/ \E v \in Vrf : \E e \in EncapOf[v] : Grown(s, t, v, e)
      \/ \E k : Joined(s, t, k)
  BY DpStep
<1>4. Ids(s, h)
  OBVIOUS
<1> HIDE DEF h, g, s, t, K
<1>5. Ids(s, g)
  BY <1>1, <1>2, <1>4, WrittenIds
<1>6. Linked(t)
  BY <1>1, <1>3, <1>5, LinkedStays, LinkedJoins DEF Ids
<1>7. Ids(t, g)
  BY <1>1, <1>3, <1>5, <1>6, ShrinkIds, GrowIds, JoinIds
<1>8. QED
  BY <1>2, <1>7 DEF g, t

(* Ids name next hops and neighbours throughout. *)
LEMMA IdsInvariant ==
  ASSUME Disjoint
  PROVE  RuleSpec => [](RouteInv /\ HwTables(hw) /\ Ids(dp, hw))
<1> DEFINE I == HwTables(hw) /\ Ids(dp, hw)
<1>1. RuleInit => I
  BY HwInitOK, IdsInit DEF HwInit
<1>2. RouteInv /\ RouteInv' /\ I /\ [RuleNext]_cvars => I'
  BY IdsStep
<1> HIDE DEF I
<1>3. RuleSpec => [](RouteInv /\ I)
  BY <1>1, <1>2, RuleRouteInvariant, PTL DEF RuleSpec
<1>4. QED
  BY <1>3 DEF I

(* Hardware entries are written one by one, outlive their objects and may  *)
(* be left by calls that fail half way, yet a route entry never leads to   *)
(* another next hop than its own, nor that one to another VRF's neighbour: *)
(* hal_nhop_alloc_oid and hal_neigh_alloc_oid give no id out twice.  A     *)
(* neighbour created statically gets none (neigh.c:177): nothing is said   *)
(* of id 0, which all of them have.                                        *)
THEOREM HwChainAlwaysSound ==
  ASSUME Disjoint
  PROVE  RuleSpec => []HwChainSound
<1>1. RouteInv /\ HwTables(hw) /\ Ids(dp, hw) => HwChainSound
  <2> SUFFICES ASSUME RouteInv, Ids(dp, hw), NEW r \in DOMAIN hw.route,
                      hw.route[r].nhop_id \in DOMAIN hw.nhop
               PROVE  LET n == hw.nhop[hw.route[r].nhop_id]
                      IN  /\ n.encap = hw.route[r].path
                          /\ n.neigh_id \in DOMAIN hw.neigh \ {0} =>
                               hw.neigh[n.neigh_id] = <<r[1], Gateway[n.encap]>>
    BY Zenon DEF HwChainSound
  <2>1. dp.neigh_oids \in Nat
    BY ConsistentShaped DEF RouteInv, Shaped
  <2>2. QED
    BY <2>1, IdsSound
<1>2. QED
  BY <1>1, IdsInvariant, PTL

-----------------------------------------------------------------------------
(* A rule call that succeeds.                                              *)

(* The chain of a flow is in the hardware. *)
Resolved(s, h, v, src, p) ==
  LET r == <<v, src, p>>
      path == Head(s.res[s.fib[<<v, p>>]].mpath)
  IN /\ r \in DOMAIN h.route /\ h.route[r].nhop_id \in DOMAIN h.nhop
     /\ h.nhop[h.route[r].nhop_id].encap = path
     /\ h.nhop[h.route[r].nhop_id].neigh_id \in DOMAIN h.neigh

(* What a successful write of one table has put there. *)
RouteIn(g, k, n, e) ==
  HwTables(g) /\ k \in DOMAIN g.route /\ g.route[k].nhop_id = n /\ g.route[k].path = e

NhopIn(h, g, n, e) ==
  /\ HwTables(g) /\ g.route = h.route /\ n.nh_oid \in DOMAIN g.nhop
  /\ g.nhop[n.nh_oid].encap = e /\ g.nhop[n.nh_oid].neigh_id = n.neigh_oid

NeighIn(h, g, k) ==
  /\ k \in DOMAIN dp.neigh /\ g.route = h.route /\ g.nhop = h.nhop
  /\ dp.neigh[k].neigh_oid \in DOMAIN g.neigh

LookupIn(g, v, src, p) ==
  LET e == Head(FibResult(v, p).mpath)
      r == <<v, src, p>>
      n == dp.nhop[e]
  IN  /\ HwTables(g) /\ FibResult(v, p).mpath # <<>>
      /\ r \in DOMAIN g.route /\ g.route[r].nhop_id = n.nh_oid
      /\ n.nh_oid \in DOMAIN g.nhop /\ g.nhop[n.nh_oid].encap = e
      /\ g.nhop[n.nh_oid].neigh_id = n.neigh_oid

LEMMA RouteAdded ==
  ASSUME NEW h, HwTables(h), NEW k, NEW n, NEW e, NEW f,
         HwRoute(h, k, n, e, "add", f = "hw_route").ret = OK
  PROVE  RouteIn(HwRoute(h, k, n, e, "add", f = "hw_route").hw, k, n, e)
<1> DEFINE x == [nhop_id |-> n, path |-> e]
           a == Put(h.route, k, x)
           o == HwRoute(h, k, n, e, "add", f = "hw_route")
           g == o.hw
<1>1. g = [h EXCEPT !.route = a]
  BY DEF HwRoute, HwWrite, OK
<1>2. x.nhop_id = n /\ x.path = e
  OBVIOUS
<1> HIDE DEF x
<1>3. k \in DOMAIN a /\ a[k] = x
  BY DEF Put
<1> HIDE DEF a, g
<1>4. HwTables(g) /\ g.route = a
  BY <1>1 DEF HwTables
<1>5. RouteIn(g, k, n, e)
  BY <1>2, <1>3, <1>4 DEF RouteIn
<1>6. QED
  BY <1>5 DEF g

LEMMA NhopAdded ==
  ASSUME NEW h, HwTables(h), NEW n, NEW e, NEW f,
         HwNhop(h, n, e, "add", f = "hw_nhop").ret = OK
  PROVE  NhopIn(h, HwNhop(h, n, e, "add", f = "hw_nhop").hw, n, e)
<1> DEFINE x == [encap |-> e, neigh_id |-> n.neigh_oid]
           a == Put(h.nhop, n.nh_oid, x)
           o == HwNhop(h, n, e, "add", f = "hw_nhop")
           g == o.hw
<1>1. g = [h EXCEPT !.nhop = a]
  BY DEF HwNhop, HwWrite, OK
<1>2. x.encap = e /\ x.neigh_id = n.neigh_oid
  OBVIOUS
<1> HIDE DEF x
<1>3. n.nh_oid \in DOMAIN a /\ a[n.nh_oid] = x
  BY DEF Put
<1> HIDE DEF a, g
<1>4. HwTables(g) /\ g.nhop = a /\ g.route = h.route
  BY <1>1 DEF HwTables
<1>5. NhopIn(h, g, n, e)
  BY <1>2, <1>3, <1>4 DEF NhopIn
<1>6. QED
  BY <1>5 DEF g

LEMMA NeighAdded ==
  ASSUME NEW h, HwTables(h), NEW v, NEW gw, NEW f, NeighLookup(h, v, gw, "add", f).ret = OK
  PROVE  NeighIn(h, NeighLookup(h, v, gw, "add", f).hw, <<v, gw>>)
<1> DEFINE k == <<v, gw>>
           id == dp.neigh[k].neigh_oid
           a == Put(h.neigh, id, k)
           o == NeighLookup(h, v, gw, "add", f)
           w == HwNeigh(h, id, k, "add", f = "hw_neigh")
           g == o.hw
<1>1. k \in DOMAIN dp.neigh /\ o = w
  <2>1. CASE k \notin DOMAIN dp.neigh
    BY <2>1 DEF NeighLookup, OK
  <2>2. CASE k \in DOMAIN dp.neigh /\ ~dp.neigh[k].static
    BY <2>2 DEF NeighLookup, OK
  <2>3. CASE k \in DOMAIN dp.neigh /\ dp.neigh[k].static
    BY <2>3, Zenon DEF NeighLookup
  <2>4. QED
    BY <2>1, <2>2, <2>3
<1>2. w.ret = OK => w.hw = [h EXCEPT !.neigh = a]
  BY DEF HwNeigh, HwWrite, OK
<1>3. g = [h EXCEPT !.neigh = a]
  BY <1>1, <1>2
<1>4. id \in DOMAIN a
  BY DEF Put
<1> HIDE DEF a, g, o, w, id
<1>5. g.neigh = a /\ g.route = h.route /\ g.nhop = h.nhop
  BY <1>3 DEF HwTables
<1>6. NeighIn(h, g, k)
  BY <1>1, <1>4, <1>5 DEF NeighIn, id
<1>7. QED
  BY <1>6 DEF g, o

LEMMA RouteLookupAdds ==
  ASSUME RouteInv, NEW h, HwTables(h), NEW v \in Vrf, NEW src \in Src, NEW p \in Prefix, NEW f,
         RouteLookup(h, v, src, p, "add", f).ret = OK
  PROVE  LookupIn(RouteLookup(h, v, src, p, "add", f).hw, v, src, p)
<1> DEFINE paths == FibResult(v, p).mpath
           e == Head(paths)
           n == dp.nhop[e]
           k == <<v, src, p>>
           o1 == HwRoute(h, k, n.nh_oid, e, "add", f = "hw_route")
           o2 == HwNhop(o1.hw, n, e, "add", f = "hw_nhop")
           o == RouteLookup(h, v, src, p, "add", f)
<1>1. paths # <<>> /\ o1.ret = OK /\ o = o2
  <2>1. CASE paths = <<>>
    BY <2>1 DEF RouteLookup, OK, Crash
  <2>2. CASE paths # <<>> /\ o1.ret # OK
    <3>1. o = o1
      BY <2>2, Zenon DEF RouteLookup
    <3>2. QED
      BY <2>2, <3>1
  <2>3. CASE paths # <<>> /\ o1.ret = OK
    BY <2>3, Zenon DEF RouteLookup
  <2>4. QED
    BY <2>1, <2>2, <2>3
<1> DEFINE g1 == o1.hw
           g == o.hw
           id == n.nh_oid
<1>3. o.ret = OK /\ o = HwNhop(g1, n, e, "add", f = "hw_nhop")
  BY <1>1
<1> HIDE DEF n, e, k, paths, o, id
<1>2. RouteIn(g1, k, id, e)
  <2>1. HwRoute(h, k, id, e, "add", f = "hw_route").ret = OK
    BY <1>1 DEF id
  <2>2. RouteIn(HwRoute(h, k, id, e, "add", f = "hw_route").hw, k, id, e)
    BY <2>1, RouteAdded
  <2>3. QED
    BY <2>2 DEF id
<1> HIDE DEF o1, o2, g1
<1>4. NhopIn(g1, HwNhop(g1, n, e, "add", f = "hw_nhop").hw, n, e)
  <2>1. HwTables(g1) /\ HwNhop(g1, n, e, "add", f = "hw_nhop").ret = OK
    BY <1>2, <1>3 DEF RouteIn
  <2>2. QED
    BY <2>1, NhopAdded
<1>5. NhopIn(g1, g, n, e)
  BY <1>3, <1>4
<1> HIDE DEF g
<1>6. LookupIn(g, v, src, p)
  BY <1>1, <1>2, <1>5 DEF LookupIn, RouteIn, NhopIn, id, n, e, k, paths
<1>7. QED
  BY <1>6 DEF g, o

LEMMA SwToHwResolves ==
  ASSUME RouteInv, Linked(dp), NEW h, HwTables(h), NEW v \in Vrf \cup {0}, NEW src \in Src,
         NEW p \in Prefix, NEW f, SwToHw(v, h, src, p, "add", f).ret = OK
  PROVE  Resolved(dp, SwToHw(v, h, src, p, "add", f).hw, v, src, p)
<1> DEFINE r == RouteLookup(h, v, src, p, "add", f)
           e == Head(FibResult(v, p).mpath)
           g == Gateway[e]
           o == SwToHw(v, h, src, p, "add", f)
           x == r.hw
           n == dp.nhop[e]
           w == <<v, src, p>>
<1>1. v # 0 /\ r.ret = OK /\ o = NeighLookup(x, v, g, "add", f)
  <2>1. CASE v = 0
    BY <2>1 DEF SwToHw, OK, Crash
  <2>2. CASE v # 0 /\ r.ret # OK
    <3>1. o = r
      BY <2>2, Zenon DEF SwToHw
    <3>2. QED
      BY <2>2, <3>1
  <2>3. CASE v # 0 /\ r.ret = OK
    BY <2>3, Zenon DEF SwToHw
  <2>4. QED
    BY <2>1, <2>2, <2>3
<1>2. v \in Vrf
  BY <1>1
<1>3. /\ HwTables(x) /\ FibResult(v, p).mpath # <<>>
      /\ w \in DOMAIN x.route /\ x.route[w].nhop_id = n.nh_oid
      /\ n.nh_oid \in DOMAIN x.nhop /\ x.nhop[n.nh_oid].encap = e
      /\ x.nhop[n.nh_oid].neigh_id = n.neigh_oid
  <2>1. LookupIn(RouteLookup(h, v, src, p, "add", f).hw, v, src, p)
    BY <1>1, <1>2, RouteLookupAdds
  <2>2. QED
    BY <2>1 DEF LookupIn
<1>4. e \in HopsOf(dp, v) /\ e = Head(dp.res[dp.fib[<<v, p>>]].mpath)
  <2>1. FibResult(v, p).mpath = dp.res[dp.fib[<<v, p>>]].mpath /\ Head(FibResult(v, p).mpath) \in HopsOf(dp, v)
    BY <1>2, <1>3, FibHop
  <2>2. QED
    BY <2>1
<1> HIDE DEF x, r, e, n, o, w
<1> DEFINE y == o.hw
           k == <<v, g>>
<1>5. /\ k \in DOMAIN dp.neigh /\ y.route = x.route /\ y.nhop = x.nhop
      /\ dp.neigh[k].neigh_oid \in DOMAIN y.neigh
  <2> HIDE DEF g
  <2>1. NeighLookup(x, v, g, "add", f).ret = OK
    BY <1>1 DEF o
  <2>2. NeighIn(x, NeighLookup(x, v, g, "add", f).hw, <<v, g>>)
    BY <1>3, <2>1, NeighAdded
  <2>3. QED
    BY <1>1, <2>2 DEF NeighIn, o
<1>6. g # 0
  <2>1. DOMAIN dp.neigh \subseteq Vrf \X Gateways
    BY DEF RouteInv, Consistent, Sound, NeighInv, NeighOK
  <2>2. g \in Gateways
    BY <1>5, <2>1
  <2>3. QED
    BY <2>2 DEF Gateways
<1>7. dp.neigh[k].neigh_oid = n.neigh_oid
  BY <1>2, <1>4, <1>6 DEF Linked, n
<1>8. Resolved(dp, y, v, src, p)
  BY <1>3, <1>4, <1>5, <1>7 DEF Resolved, w
<1>9. QED
  BY <1>8 DEF o

(* The lookups of routes and neighbours leave the tunnels alone. *)
LEMMA OtherWrite ==
  ASSUME NEW h, HwTables(h), NEW t \in {"route", "nhop", "neigh"}, NEW k, NEW x, NEW op,
         NEW fails
  PROVE  LET g == HwWrite(h, t, k, x, op, fails).hw IN HwTables(g) /\ g.tunnel = h.tunnel
<1> DEFINE g == HwWrite(h, t, k, x, op, fails).hw
<1>1. \/ g = h \/ \E a : g = [h EXCEPT ![t] = a]
  BY Zenon DEF HwWrite
<1> HIDE DEF g
<1>2. HwTables(g) /\ g.tunnel = h.tunnel
  BY <1>1 DEF HwTables
<1>3. QED
  BY <1>2 DEF g

LEMMA TunnelKept ==
  ASSUME NEW h, HwTables(h), NEW v, NEW src, NEW p, NEW op, NEW f
  PROVE  SwToHw(v, h, src, p, op, f).hw.tunnel = h.tunnel
<1> DEFINE r == RouteLookup(h, v, src, p, op, f)
<1>1. HwTables(r.hw) /\ r.hw.tunnel = h.tunnel
  <2> DEFINE paths == FibResult(v, p).mpath
             n == dp.nhop[Head(paths)]
             o1 == HwRoute(h, <<v, src, p>>, n.nh_oid, Head(paths), op, f = "hw_route")
             o2 == HwNhop(o1.hw, n, Head(paths), op, f = "hw_nhop")
  <2>1. HwTables(o1.hw) /\ o1.hw.tunnel = h.tunnel
    BY OtherWrite DEF HwRoute
  <2>2. HwTables(o2.hw) /\ o2.hw.tunnel = o1.hw.tunnel
    <3> DEFINE x == [encap |-> Head(paths), neigh_id |-> n.neigh_oid]
    <3>1. o2 = HwWrite(o1.hw, "nhop", n.nh_oid, x, op, f = "hw_nhop")
      BY DEF HwNhop
    <3> HIDE DEF x, o1, o2, n
    <3>2. QED
      BY <2>1, <3>1, OtherWrite
  <2>3. r.hw \in {h, o1.hw, [o1 EXCEPT !.ret = Crash].hw, o2.hw}
    BY Zenon DEF RouteLookup
  <2>4. [o1 EXCEPT !.ret = Crash].hw = o1.hw
    BY DEF HwRoute, HwWrite
  <2> HIDE DEF r, o1, o2
  <2>5. QED
    BY <2>1, <2>2, <2>3, <2>4
<1>2. ASSUME NEW k
      PROVE  NeighLookup(r.hw, v, k, op, f).hw.tunnel = r.hw.tunnel
  <2> DEFINE w == HwNeigh(r.hw, dp.neigh[<<v, k>>].neigh_oid, <<v, k>>, op, f = "hw_neigh")
             o == NeighLookup(r.hw, v, k, op, f)
  <2>1. w.hw.tunnel = r.hw.tunnel
    BY <1>1, OtherWrite DEF HwNeigh
  <2> HIDE DEF r
  <2>2. o.hw = r.hw \/ o = w
    BY Zenon DEF NeighLookup
  <2>3. QED
    BY <2>1, <2>2
<1> HIDE DEF r
<1>3. SwToHw(v, h, src, p, op, f).hw = h \/ SwToHw(v, h, src, p, op, f) = r
        \/ SwToHw(v, h, src, p, op, f)
              = NeighLookup(r.hw, v, Gateway[Head(FibResult(v, p).mpath)], op, f)
  BY Zenon DEF SwToHw, r
<1>4. QED
  BY <1>1, <1>2, <1>3

(* Line 239 is recorded when the tunnel's entry has been written. *)
LEMMA TunnelPresent ==
  ASSUME HwTables(hw), NEW k, NEW op, NEW f, NEW junk,
         239 \in TunnelLookup(hw, k, op, f, junk).failed
  PROVE  k \in DOMAIN TunnelLookup(hw, k, op, f, junk).hw.tunnel
<1> DEFINE id == VrfIdOf(k, junk)
           o == IF op = "add" THEN HwTunnelAdd(hw, k, id, f = "hw_tunnel")
                ELSE HwTunnelDel(hw, k, f = "hw_tunnel")
           x == IF k[1] = "VXLAN" THEN id ELSE k[2]
           a == Put(hw.tunnel, k, x)
           c == HwTunnelAdd(hw, k, id, f = "hw_tunnel")
<1>1. /\ k \in DOMAIN tun /\ op = "add" /\ o.ret = OK
      /\ TunnelLookup(hw, k, op, f, junk).hw = o.hw
  BY DEF TunnelLookup
<1>2. c.ret = OK => c.hw = [hw EXCEPT !.tunnel = a]
  BY DEF HwTunnelAdd, HwWrite, OK
<1>3. o.hw = [hw EXCEPT !.tunnel = a]
  BY <1>1, <1>2
<1>4. k \in DOMAIN a
  BY DEF Put
<1> HIDE DEF a, o
<1>5. o.hw.tunnel = a
  BY <1>3 DEF HwTables
<1>6. QED
  BY <1>1, <1>4, <1>5

LEMMA RuleCallResolves ==
  ASSUME RouteInv, Linked(dp), HwTables(hw), [RuleNext]_cvars,
         rule'.op = "add", ret' = OK
  PROVE  \/ /\ Resolved(dp', hw', rule'.vrf, rule'.src, rule'.dst)
            /\ 239 \in rule'.failed => KeyOf(rule'.vni) \in DOMAIN hw'.tunnel
         \/ UNCHANGED cvars
<1> SUFFICES ASSUME RuleNext
             PROVE  /\ Resolved(dp', hw', rule'.vrf, rule'.src, rule'.dst)
                    /\ 239 \in rule'.failed => KeyOf(rule'.vni) \in DOMAIN hw'.tunnel
  OBVIOUS
<1>1. rule' # NoRule
  BY DEF NoRule
<1>2. PICK vni \in Vni, src \in Src, p \in Prefix, op \in {"add", "del"} :
         \E f, junk : SwTohwRule(vni, src, p, op, f, junk)
  BY <1>1 DEF RuleNext
<1> PICK f, junk : SwTohwRule(vni, src, p, op, f, junk)
  BY <1>2
<1> DEFINE k == KeyOf(vni)
           t == TunnelLookup(hw, k, op, f, junk)
           h == t.hw
           v == t.vrf
<1>3. /\ hw' = SwToHw(v, h, src, p, op, f).hw /\ ret' = SwToHw(v, h, src, p, op, f).ret
      /\ dp' = Fresh /\ rule' = [op |-> op, vni |-> vni, vrf |-> v, src |-> src, dst |-> p,
                                  failed |-> t.failed]
  BY DEF SwTohwRule
<1>4. Written(dp, DOMAIN tun, hw, h) /\ v \in Vrf \cup {0}
  BY TunnelLookupWrites
<1>9. 239 \in t.failed => k \in DOMAIN h.tunnel
  BY TunnelPresent
<1> HIDE DEF t, h, v
<1>10. rule'.failed = t.failed /\ rule'.vni = vni
  BY <1>3
<1>11. hw'.tunnel = h.tunnel
  BY <1>3, <1>4, TunnelKept DEF Written
<1>5. op = "add" /\ rule'.vrf = v /\ rule'.src = src /\ rule'.dst = p /\ HwTables(h)
  BY <1>3, <1>4 DEF Written
<1>6. Resolved(dp, hw', v, src, p)
  BY <1>3, <1>4, <1>5, SwToHwResolves
<1>7. dp'.res = dp.res /\ dp'.fib = dp.fib
  BY <1>3, FreshIs DEF RouteInv, Consistent, Sound, SameRoutes
<1>8. Resolved(dp', hw', rule'.vrf, rule'.src, rule'.dst)
  BY <1>5, <1>6, <1>7 DEF Resolved
<1>12. QED
  BY <1>8, <1>9, <1>10, <1>11

(* shc_swTohw_rule returns 0 only when the flow's route, next-hop and      *)
(* neighbour entries are there and lead to the next hop that               *)
(* ntb_fib_lookup gives the flow, whatever entries earlier calls have left *)
(* and however neighbours were created.  The tunnel's entry, whose status  *)
(* the call drops, is there too when its write succeeded.                  *)
THEOREM RulesResolve ==
  ASSUME Disjoint
  PROVE  RuleSpec => RuleResolves
<1> DEFINE A == rule'.op = "add" /\ ret' = OK =>
                  /\ Resolved(dp', hw', rule'.vrf, rule'.src, rule'.dst)
                  /\ 239 \in rule'.failed => KeyOf(rule'.vni) \in DOMAIN hw'.tunnel
<1>1. RouteInv /\ HwTables(hw) /\ Ids(dp, hw) /\ [RuleNext]_cvars => [A]_cvars
  BY RuleCallResolves DEF Ids
<1>2. A => (rule'.op = "add" /\ ret' = OK =>
       LET r == <<rule'.vrf, rule'.src, rule'.dst>>
           path == Head(dp'.res[dp'.fib[<<rule'.vrf, rule'.dst>>]].mpath)
       IN /\ r \in DOMAIN hw'.route /\ hw'.route[r].nhop_id \in DOMAIN hw'.nhop
          /\ hw'.nhop[hw'.route[r].nhop_id].encap = path
          /\ hw'.nhop[hw'.route[r].nhop_id].neigh_id \in DOMAIN hw'.neigh
          /\ 239 \in rule'.failed => KeyOf(rule'.vni) \in DOMAIN hw'.tunnel)
  BY DEF Resolved
<1> HIDE DEF A
<1>3. QED
  BY <1>1, <1>2, IdsInvariant, PTL DEF RuleSpec, RuleResolves

-----------------------------------------------------------------------------
(* Types.                                                                  *)

(* The keys of the hardware tables, where rte_zmalloc and the oid calls    *)
(* bound them.                                                             *)
HwKeys(h) ==
  /\ DOMAIN h.tunnel \subseteq TunnelKey /\ DOMAIN h.route \subseteq Vrf \X Src \X Prefix
  /\ DOMAIN h.nhop \subseteq 1 .. OidMax /\ DOMAIN h.neigh \subseteq 0 .. OidMax

LEMMA HwKeysStep ==
  TunInv /\ RouteInv /\ HwTables(hw) /\ HwKeys(hw) /\ [RuleNext]_cvars
    => HwTables(hw') /\ HwKeys(hw')
<1> SUFFICES ASSUME TunInv, RouteInv, HwTables(hw), HwKeys(hw), [RuleNext]_cvars
             PROVE  HwTables(hw') /\ HwKeys(hw')
  OBVIOUS
<1>1. Written(dp, DOMAIN tun, hw, hw')
  BY HwStep
<1>2. DOMAIN tun \subseteq TunnelKey
  BY DEF TunInv, MapOK
<1>3. \A e \in DOMAIN dp.nhop : dp.nhop[e].nh_oid \in 1 .. OidMax
  BY DEF RouteInv, Consistent, Sound, NeighInv, HopEntries
<1>4. \A k \in DOMAIN dp.neigh : dp.neigh[k].neigh_oid \in 0 .. OidMax
  BY DEF RouteInv, Consistent, Sound, NeighInv, NeighOK, NeighRecord
<1> DEFINE g == hw'
           I == 1 .. OidMax
           J == 0 .. OidMax
<1>5. HwTables(g) /\ DOMAIN g.tunnel \subseteq TunnelKey
  BY <1>1, <1>2 DEF Written, HwKeys
<1> HIDE DEF g, I, J
<1>6. Written(dp, DOMAIN tun, hw, g)
  BY <1>1 DEF g
<1>7. DOMAIN g.route \subseteq Vrf \X Src \X Prefix
  BY <1>6 DEF Written, HwKeys
<1>8. DOMAIN g.nhop \subseteq I
  <2>1. DOMAIN hw.nhop \subseteq I /\ \A e \in DOMAIN dp.nhop : dp.nhop[e].nh_oid \in I
    BY <1>3 DEF HwKeys, I
  <2>2. QED
    BY <1>6, <2>1 DEF Written, HopsOf
<1>9. DOMAIN g.neigh \subseteq J
  <2>1. DOMAIN hw.neigh \subseteq J /\ \A k \in DOMAIN dp.neigh : dp.neigh[k].neigh_oid \in J
    BY <1>4 DEF HwKeys, J
  <2>2. QED
    BY <1>6, <2>1 DEF Written
<1>10. QED
  BY <1>5, <1>7, <1>8, <1>9 DEF HwKeys, g, I, J

(* A slot of the right type. *)
SlotTyped(v) ==
  /\ vrfs[v].name \in Names /\ vrfs[v].valid \in BOOLEAN
  /\ vrfs[v].internal_ip \in IntIps /\ vrfs[v].route_mac \in Macs
  /\ vrfs[v].tunnel_cnt \in 0 .. Cardinality(Addr)
  /\ ToSet(vrfs[v].tunnel_rmap) \subseteq Addr

LEMMA SlotsTyped ==
  TunInv => (\A v \in Vrf : SlotTyped(v)) /\ vrf_n \in 0 .. Cardinality(Vrf)
<1> SUFFICES ASSUME TunInv
             PROVE  (\A v \in Vrf : SlotTyped(v)) /\ vrf_n \in 0 .. Cardinality(Vrf)
  OBVIOUS
<1>1. ASSUME NEW v \in Vrf
      PROVE  SlotTyped(v)
  <2>1. vrfs[v] \in VrfRecord
    BY DEF TunInv, SlotsOK
  <2>2. /\ vrfs[v].name \in Names /\ vrfs[v].valid \in BOOLEAN
        /\ vrfs[v].internal_ip \in IntIps /\ vrfs[v].route_mac \in Macs
    BY <2>1, RecordHas
  <2> DEFINE S == ToSet(vrfs[v].tunnel_rmap)
             n == vrfs[v].tunnel_cnt
  <2>3. S \subseteq Addr
    BY DEF TunInv, ListsOK, MapOK, List
  <2>4. n = Cardinality(S)
    BY InvImpliesAgree DEF TunnelsAgree
  <2> HIDE DEF S, n
  <2>5. IsFiniteSet(S) /\ Cardinality(S) <= Cardinality(Addr)
    BY <2>3, VrfAssumption, FS_Subset
  <2>6. Cardinality(S) \in Nat /\ Cardinality(Addr) \in Nat
    BY <2>5, VrfAssumption, FS_CardinalityType
  <2>7. n \in 0 .. Cardinality(Addr)
    BY <2>4, <2>5, <2>6
  <2>8. QED
    BY <2>2, <2>3, <2>7, Zenon DEF SlotTyped, S, n
<1>2. vrf_n \in 0 .. Cardinality(Vrf)
  <2>1. vrf_n = Cardinality(Valid) /\ Valid \subseteq Vrf
    BY DEF TunInv, SlotsOK, Valid
  <2>2. IsFiniteSet(Valid) /\ Cardinality(Valid) <= Cardinality(Vrf)
    BY <2>1, VrfAssumption, FS_Subset
  <2>3. Cardinality(Valid) \in Nat /\ Cardinality(Vrf) \in Nat
    BY <2>2, VrfAssumption, FS_CardinalityType
  <2>4. QED
    BY <2>1, <2>2, <2>3
<1>3. QED
  BY <1>1, <1>2

(* The slots, the tunnel map and the hardware tables keep their types: no  *)
(* counter of vrf.c or tunnel_map.c passes the size of what it counts, and *)
(* the hardware is written under keys and ids that exist.                  *)
THEOREM RuleTypeCorrect ==
  ASSUME ReuseKeys = FALSE
  PROVE  RuleSpec => []RuleTypeOK
<1> DEFINE I == TunInv /\ HwTables(hw) /\ HwKeys(hw)
<1>1. RuleInit => I
  BY TunInvInit, HwInitOK DEF HwInit, HwKeys
<1>2. RouteInv /\ I /\ [RuleNext]_cvars => I'
  BY TunInvNext, HwKeysStep
<1>3. I => RuleTypeOK
  <2> SUFFICES ASSUME TunInv, HwKeys(hw)
               PROVE  RuleTypeOK
    OBVIOUS
  <2>1. \A v \in Vrf : /\ vrfs[v].name \in Name \cup {""} /\ vrfs[v].valid \in BOOLEAN
                       /\ vrfs[v].internal_ip \in IntIp \cup {0}
                       /\ vrfs[v].route_mac \in Mac \cup {FakeMac, 0}
                       /\ vrfs[v].tunnel_cnt \in 0 .. Cardinality(Addr)
                       /\ ToSet(vrfs[v].tunnel_rmap) \subseteq Addr
    BY SlotsTyped, Zenon DEF SlotTyped, Names, IntIps, Macs
  <2>2. vrf_n \in 0 .. Cardinality(Vrf)
    BY SlotsTyped
  <2>3. DOMAIN tun \subseteq TunnelKey /\ DOMAIN heap \subseteq Addr
    BY DEF TunInv, MapOK
  <2>4. QED
    BY <2>1, <2>2, <2>3, Zenon DEF RuleTypeOK, HwKeys
<1> HIDE DEF I
<1>4. QED
  BY <1>1, <1>2, <1>3, RuleRouteInvariant, PTL DEF RuleSpec

-----------------------------------------------------------------------------
(* Where the disagreement about unmapped tunnels does not bite.            *)

(* What a step of agent-bak/ frees, and what it does to the hash then. *)
FreesWithKey ==
  \E k \in DOMAIN tun : /\ tun[k] \in DOMAIN heap /\ heap[tun[k]].key = k
                        /\ heap' = Del(heap, tun[k]) /\ tun' = Del(tun, k)

LEMMA BakStep ==
  ASSUME TunInv, ReuseKeys = FALSE, tree = "agent-bak", [RuleNext]_cvars
  PROVE  \/ DOMAIN heap \subseteq DOMAIN heap' \/ (\E v \in Vrf : Removes(v)) \/ FreesWithKey
<1>1. CASE heap' = heap
  BY <1>1
<1>2. CASE UNCHANGED cvars
  BY <1>1, <1>2 DEF cvars, avars
<1>3. tree \in Trees /\ TunnelKeyOf[tree] \subseteq TunnelKey
  BY DEF TunInv, SlotsOK, TunnelKey
<1>4. ASSUME NEW n, NEW pos, VrfDel(n, pos)
      PROVE  heap' = heap \/ \E v \in Vrf : Removes(v)
  BY <1>4, VrfDelKind DEF Keeps
<1>5. ASSUME NEW n, NEW k \in TunnelKeyOf[tree], NEW f, NEW junk, TunnelMapVrf(n, k, f, junk)
      PROVE  DOMAIN heap \subseteq DOMAIN heap'
  <2>1. CASE heap' = heap
    BY <2>1
  <2>2. CASE heap' # heap
    <3>1. PICK v \in Vrf, a \in Addr : Maps(v, k, a)
      BY <1>3, <1>5, <2>2, TunnelMapKind DEF Keeps
    <3>2. QED
      BY <3>1 DEF Maps, Put
  <2>3. QED
    BY <2>1, <2>2
<1>6. ASSUME NEW k \in TunnelKeyOf[tree], NEW junk, UnmapBak(k, junk)
      PROVE  heap' = heap \/ FreesWithKey
  <2>1. CASE k \notin DOMAIN tun
    BY <1>6, <2>1 DEF UnmapBak
  <2>2. CASE k \in DOMAIN tun
    <3>1. /\ Usable(k) /\ k \in TunnelKey /\ UNCHANGED <<tree, vrf_n>>
          /\ Release(k, GetById(VrfIdOf(k, junk)), Del(tun, k))
      BY <1>3, <1>6, <2>2 DEF UnmapBak
    <3>2. ret' = OK
      BY <2>2, <3>1, ReleaseKind
    <3>3. heap' = Del(heap, tun[k]) /\ tun' = Del(tun, k)
      BY <3>1, <3>2 DEF Release, OK, Crash
    <3>4. tun[k] \in DOMAIN heap /\ heap[tun[k]].key = k
      BY <2>2, <3>1 DEF Usable, Dangling
    <3>5. QED
      BY <2>2, <3>3, <3>4 DEF FreesWithKey
  <2>3. QED
    BY <2>1, <2>2
<1>7. ASSUME NEW n, NEW k, NEW f, NEW junk, NEW x, NEW src, NEW q, NEW op,
             \/ VrfIdLookup(n) \/ VrfAdd(n) \/ VrfIntipUnset(n) \/ VrfIntipSet(n, x)
             \/ VrfRmacSet(n, x) \/ VrfRmacUnset(n, x) \/ UnmapAgent(k, f, junk)
             \/ RouteCalls \/ SwTohwRule(x, src, q, op, f, junk)
      PROVE  heap' = heap
  BY <1>7 DEF VrfIdLookup, VrfAdd, VrfIntipUnset, VrfIntipSet, VrfRmacSet, VrfRmacUnset,
              SetField, UnmapAgent, RouteCalls, SwTohwRule
<1>8. QED
  BY <1>1, <1>2, <1>4, <1>5, <1>6, <1>7 DEF RuleNext, VrfNext

(* In agent-bak/ __tunnel_unmap is called before tunnel_i is freed: the    *)
(* key of an unmapped tunnel is gone, whatever calls came before.  (In     *)
(* agent/ the call is commented out, and the claim is refuted there.)      *)
THEOREM BakUnmapDeletes ==
  ASSUME Trees = {"agent-bak"}, ReuseKeys = FALSE
  PROVE  RuleSpec => UnmapDeletesEntry
<1> DEFINE A == \A a \in DOMAIN heap \ DOMAIN heap' :
                  vrfs'[heap[a].vrf_id].valid => heap[a].key \notin DOMAIN tun'
<1>1. TunInv /\ [RuleNext]_cvars => A
  <2> SUFFICES ASSUME TunInv, [RuleNext]_cvars, NEW a \in DOMAIN heap, a \notin DOMAIN heap',
                      vrfs'[heap[a].vrf_id].valid
               PROVE  heap[a].key \notin DOMAIN tun'
    OBVIOUS
  <2>1. tree = "agent-bak"
    BY DEF TunInv, SlotsOK
  <2>2. ASSUME NEW v \in Vrf, Removes(v)
        PROVE  FALSE
    <3>1. a \in ToSet(List(v))
      BY <2>2 DEF Removes, MapCleanup, List
    <3>2. heap[a].vrf_id = v
      BY <3>1 DEF TunInv, ListsOK
    <3>3. vrfs \in [Vrf -> VrfRecord] /\ vrfs[v] \in VrfRecord
      BY DEF TunInv, SlotsOK
    <3>4. ~vrfs'[v].valid
      <4>1. vrfs'[v] = DpDtor(vrfs[v])
        BY <2>2, <3>3 DEF Removes
      <4>2. DpDtor(vrfs[v]).valid = FALSE
        BY <3>3 DEF DpDtor, VrfRecord
      <4>3. QED
        BY <4>1, <4>2
    <3>5. QED
      BY <3>2, <3>4
  <2>3. CASE FreesWithKey
    <3>1. PICK k \in DOMAIN tun : heap[tun[k]].key = k /\ heap' = Del(heap, tun[k]) /\ tun' = Del(tun, k)
      BY <2>3 DEF FreesWithKey
    <3>2. a = tun[k]
      BY <3>1 DEF Del
    <3>3. QED
      BY <3>1, <3>2 DEF Del
  <2>4. QED
    BY <2>1, <2>2, <2>3, BakStep
<1>2. TunInv /\ [RuleNext]_cvars => TunInv'
  BY TunInvNext
<1> HIDE DEF A
<1>3. RuleSpec => [][A]_cvars
  BY <1>1, <1>2, TunInvInit, PTL DEF RuleSpec
<1>4. QED
  BY <1>3, PTL DEF A, UnmapDeletesEntry
=============================================================================
