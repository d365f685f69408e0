------------------------------ MODULE RouteFib ------------------------------
(***************************************************************************)
(* The agent's software route tables: agent/route.c with the overlay       *)
(* neighbours of agent/neigh.c that next hops hold references to.          *)
(*                                                                         *)
(* Every call runs alone (callers hold dp_locker for writing), so a call   *)
(* is one action.  Inside it the code updates six linked tables and undoes *)
(* its updates when a later one fails; the operators below pass the tables *)
(* (a record s) along in the order of the code, and an input f names the   *)
(* library call that fails, if any.  RTE_ASSERT is compiled out unless     *)
(* RTE_ENABLE_ASSERT is set: a false one changes nothing and its line is   *)
(* recorded in s.failed.                                                   *)
(***************************************************************************)
EXTENDS Integers, Sequences, FiniteSets, FiniteSetsExt, SequencesExt

CONSTANTS
  Vrf, Prefix, Encap,
  EncapOf,          \* EncapOf[v]: the encapsulations routes of v are given
  Gateway,          \* Gateway[e]: e's gateway, 0 when it has none
  Tgre,             \* the encapsulations of type NTB_ENCAP_TGRE
  Tunnel,           \* Tunnel[e]: e's tunnel_info
  ROUTE_MAX_ECMP, MROUTE_MAX_ECMP,
  NrFibRes,         \* NTB_NR_FIB_RES_ALL: results besides the blackhole
  OidMax,           \* object ids the HAL can hand out, per kind
  U32,              \* range of the uint32_t counters
  RibTypes,         \* the rib types callers use
  Static,           \* Static[v]: gateways given a static neighbour in v
  Faults,           \* library calls that may fail; "none" for no failure
  HashPos           \* ways the rib and the next-hop hash may place their keys

ASSUME RouteAssumption ==
  /\ IsFiniteSet(Vrf) /\ IsFiniteSet(Prefix) /\ IsFiniteSet(Encap)
  /\ \A v \in Vrf : EncapOf[v] \subseteq Encap
  /\ NrFibRes \in Nat /\ OidMax \in Nat /\ U32 \in Nat
  /\ NrFibRes + 1 < U32            \* ref_count counts results
  /\ ROUTE_MAX_ECMP \in Nat /\ MROUTE_MAX_ECMP \in Nat
  /\ RibTypes \subseteq {"RT_DEFAULT", "RT_MROUTE"}

VARIABLES dp,       \* the tables, a record
          ret       \* what the last call returned

vars == <<dp, ret>>

Key == Vrf \X Prefix
Gateways == {Gateway[e] : e \in Encap} \ {0}

(* Static neighbours are known gateways, and the counters are wide enough: *)
(* neigh_count for all neighbours, refcnt for all next hops of a neighbour.*)
ASSUME NeighAssumption ==
  /\ \A v \in Vrf : Static[v] \subseteq Gateways
  /\ Cardinality(Vrf \X Gateways) < U32
  /\ Cardinality(Encap) + 1 < U32

(* rte_hash gives every key a position of its own, from 0 on, and reports  *)
(* it when the key is deleted; a key may sit anywhere in its hash.         *)
ASSUME PositionAssumption ==
  \A pos \in HashPos :
    /\ \A k \in Key : pos.rib[k] \in Nat /\ \A l \in Key \ {k} : pos.rib[l] # pos.rib[k]
    /\ \A e \in Encap : pos.nhop[e] \in Nat /\ \A d \in Encap \ {e} : pos.nhop[d] # pos.nhop[e]

Blackhole == 0      \* f_res_blackhole: the first index of the result array

OK == "OK"
Outcome(s, r) == [dp |-> s, ret |-> r]
Fails(s, line, holds) == IF holds THEN s ELSE [s EXCEPT !.failed = @ \cup {line}]

(* What rte_hash_del_key returns: the key's position, or -ENOENT. *)
DelKey(tbl, k, at) == IF k \in DOMAIN tbl THEN at[k] ELSE -2

Put(f, k, x) == [y \in DOMAIN f \cup {k} |-> IF y = k THEN x ELSE f[y]]
Del(f, k) == [y \in DOMAIN f \ {k} |-> f[y]]
Dec(n) == (n - 1) % U32

RouteInit ==
  /\ dp = [nhop |-> [e \in {} |-> 0], neigh |-> [k \in {} |-> 0],
           neigh_cnt |-> [v \in Vrf |-> 0], neigh_count |-> 0,
           res |-> [i \in {Blackhole} |->
                      [flags |-> {"REJECT"}, mpath |-> <<>>, mpath_max |-> 0]],
           rib |-> [k \in {} |-> 0], fib |-> [k \in {} |-> 0],
           rib_cnt |-> [v \in Vrf |-> 0],
           nh_oids |-> 0, neigh_oids |-> 0, failed |-> {}]
  /\ ret = OK

-----------------------------------------------------------------------------
(* Neighbours: neigh.c.                                                    *)

(* Mutation: a neighbour that exists gets no further reference. *)
NeighNoRef(s, v, g, f) ==
  LET k == <<v, g>> IN
  IF k \in DOMAIN s.neigh \/ s.neigh_oids = OidMax
  THEN Outcome(s, IF k \in DOMAIN s.neigh THEN OK ELSE "NO_OID")
  ELSE Outcome([s EXCEPT !.neigh = Put(@, k, [refcnt |-> 1, static |-> FALSE,
                                              neigh_oid |-> s.neigh_oids + 1]),
                         !.neigh_oids = @ + 1], OK)

NeighAdd(s, v, g, f) ==
  LET k == <<v, g>> IN
  CASE k \in DOMAIN s.neigh -> Outcome([s EXCEPT !.neigh[k].refcnt = @ + 1], OK)
    [] k \notin DOMAIN s.neigh /\ f = "neigh_mem"  -> Outcome(s, "ENOMEM")
    [] k \notin DOMAIN s.neigh /\ f = "neigh_hash" -> Outcome(s, "EFAULT")
    [] /\ k \notin DOMAIN s.neigh /\ f \notin {"neigh_mem", "neigh_hash"}
       /\ f = "neigh_oid" \/ s.neigh_oids = OidMax -> Outcome(s, "NO_OID")
    [] OTHER ->
         Outcome([s EXCEPT !.neigh = Put(@, k, [refcnt |-> 1, static |-> FALSE,
                                                neigh_oid |-> s.neigh_oids + 1]),
                           !.neigh_cnt[v] = (@ + 1) % U32,
                           !.neigh_count = (@ + 1) % U32,
                           !.neigh_oids = @ + 1], OK)

(* The entry goes with its last reference; its oid is not given back. *)
NeighDel(s, v, g) ==
  LET k == <<v, g>> IN
  CASE k \notin DOMAIN s.neigh -> Outcome(s, "NOT_FOUND")
    [] k \in DOMAIN s.neigh /\ s.neigh[k].refcnt > 1 ->
         Outcome([s EXCEPT !.neigh[k].refcnt = @ - 1], OK)
    [] OTHER -> Outcome([s EXCEPT !.neigh = Del(@, k),
                                  !.neigh_cnt[v] = Dec(@),
                                  !.neigh_count = Dec(@)], OK)

(* A static entry holds one reference of its own, taken once.  It is      *)
(* created without an oid (zeroed memory) and without counting for the vrf.*)
StaticAdd(s, v, g, f) ==
  LET k == <<v, g>>
      new == k \notin DOMAIN s.neigh
      s1 == IF new THEN [s EXCEPT !.neigh = Put(@, k, [refcnt |-> 0, static |-> FALSE,
                                                       neigh_oid |-> 0]),
                                  !.neigh_count = (@ + 1) % U32]
            ELSE s
      n == s1.neigh[k]
  IN CASE new /\ f = "neigh_mem"  -> Outcome(s, "NOMEM")
       [] new /\ f = "neigh_hash" -> Outcome(s, "EFAULT")
       [] OTHER -> Outcome([s1 EXCEPT !.neigh[k].static = TRUE,
                                      !.neigh[k].refcnt = IF n.static THEN @ ELSE @ + 1], OK)

-----------------------------------------------------------------------------
(* Next hops: one object per encapsulation, shared by every route.         *)

NeighOf(s, v, e, f) ==
  IF Gateway[e] = 0 THEN Outcome(s, OK) ELSE NeighAdd(s, v, Gateway[e], f)

NhopNoRef(s, v, e, f) ==            \* mutation: a shared next hop is not counted
  LET n == NeighOf(s, v, e, f) IN
  IF e \in DOMAIN s.nhop \/ n.ret # OK \/ f \in {"nh_oid", "nhop_hash"} \/ s.nh_oids = OidMax
  THEN Outcome(s, IF e \in DOMAIN s.nhop THEN OK ELSE "EFAULT")
  ELSE Outcome([n.dp EXCEPT !.nhop = Put(@, e, [ref_count |-> 1, nh_oid |-> s.nh_oids + 1,
                                                neigh_oid |-> 0]),
                            !.nh_oids = @ + 1], OK)

NhopCreate(s, v, e, f) ==
  LET s1 == [s EXCEPT !.nhop = Put(@, e, [ref_count |-> 0, nh_oid |-> 0,
                                             neigh_oid |-> 0])]
      created == e \notin DOMAIN s.nhop /\ f \notin {"nhop_mem", "nhop_hash"}
      n == NeighOf(s1, v, e, f)
      undone == IF Gateway[e] = 0 THEN n.dp ELSE NeighDel(n.dp, v, Gateway[e]).dp
      Rollback(s2, r) == Outcome([s2 EXCEPT !.nhop = Del(@, e)], r)
  IN CASE e \in DOMAIN s.nhop -> Outcome([s EXCEPT !.nhop[e].ref_count = @ + 1], OK)
       [] e \notin DOMAIN s.nhop /\ f = "nhop_mem"  -> Outcome(s, "NOMEM")
       [] e \notin DOMAIN s.nhop /\ f = "nhop_hash" -> Outcome(s, "EFAULT")
       [] created /\ n.ret # OK -> Rollback(n.dp, n.ret)
       [] created /\ n.ret = OK /\ (f = "nh_oid" \/ s.nh_oids = OidMax)
            -> Rollback(undone, "NH_ALLOC_OID_FAIL")
       [] OTHER -> Outcome([n.dp EXCEPT !.nhop[e] =
                              [ref_count |-> 1, nh_oid |-> s.nh_oids + 1,
                               neigh_oid |-> IF Gateway[e] = 0 THEN 0
                                             ELSE n.dp.neigh[<<v, Gateway[e]>>].neigh_oid],
                                        !.nh_oids = @ + 1], OK)

NhopKeepsNeigh(s, v, e, pos) ==     \* mutation: the neighbour is not released
  LET s1 == [s EXCEPT !.nhop[e].ref_count = Dec(@)] IN
  IF s1.nhop[e].ref_count > 0 THEN s1 ELSE [s1 EXCEPT !.nhop = Del(@, e)]

NhopKeepsZero(s, v, e, pos) ==      \* mutation: freed one reference too late
  LET s1 == [s EXCEPT !.nhop[e].ref_count = Dec(@)] IN
  IF s.nhop[e].ref_count > 0 THEN s1
  ELSE NeighDel([s1 EXCEPT !.nhop = Del(@, e)], v, Gateway[e]).dp

NhopGivesOidBack(s, v, e, pos) ==   \* mutation: the oid is reused, the HAL entry stays
  LET s1 == [s EXCEPT !.nhop[e].ref_count = Dec(@)] IN
  IF s1.nhop[e].ref_count > 0 THEN s1
  ELSE NeighDel([s1 EXCEPT !.nhop = Del(@, e), !.nh_oids = @ - 1], v, Gateway[e]).dp

(* ret carries over from call to call: at the last assertion it is what    *)
(* ntb_neigh_del returned or, without a gateway, the position of the key.  *)
NhopDelete(s, v, e, pos) ==
  LET s1 == [s EXCEPT !.nhop[e].ref_count = Dec(@)]
      at == DelKey(s1.nhop, e, pos.nhop)
      s2 == Fails([s1 EXCEPT !.nhop = Del(@, e)], 522, 0 <= at)
      n == NeighDel(s2, v, Gateway[e])
  IN CASE s1.nhop[e].ref_count > 0 -> s1
       [] s1.nhop[e].ref_count = 0 /\ Gateway[e] # 0 ->
            Fails(Fails(n.dp, 527, n.ret = OK), 536, n.ret = OK)
       [] OTHER -> Fails(s2, 536, at = 0)

-----------------------------------------------------------------------------
(* Results: the lowest free index of the shared array.                     *)

FreeRes(s) == (0 .. NrFibRes) \ DOMAIN s.res

RType(r) == IF "MROUTE" \in r.flags THEN "RT_MROUTE" ELSE "RT_DEFAULT"

NewRes(paths, flags, t) ==
  IF t = "RT_MROUTE"
  THEN [flags |-> flags \cup {"MROUTE"}, mpath |-> paths, mpath_max |-> MROUTE_MAX_ECMP]
  ELSE [flags |-> flags \ {"MROUTE"}, mpath |-> paths, mpath_max |-> ROUTE_MAX_ECMP]

ResDelete(s, id) == [s EXCEPT !.res = Del(@, id)]

-----------------------------------------------------------------------------
(* Prefixes: the shared rib hash, then the vrf's fib.  old = -1: no route. *)

(* Mutation: the rib keeps the new result although the fib refused it. *)
UpdateKeepsRib(s, v, p, old, new, f) ==
  CASE f = "rib" -> Outcome(s, "PREFIX_NOSPACE")
    [] f = "fib" -> Outcome([s EXCEPT !.rib = Put(@, <<v, p>>, new)], "PREFIX_NOSPACE")
    [] OTHER -> Outcome([s EXCEPT !.rib = Put(@, <<v, p>>, new),
                                  !.fib = Put(@, <<v, p>>, new),
                                  !.rib_cnt[v] = IF old < 0 THEN @ + 1 ELSE @], OK)

PrefixUpdate(s, v, p, old, new, f) ==
  LET k == <<v, p>>
      s1 == [s EXCEPT !.rib = Put(@, k, new)]
      undone == [s1 EXCEPT !.rib = IF old < 0 THEN Del(@, k) ELSE Put(@, k, old)]
  IN CASE f = "rib" -> Outcome(s, "PREFIX_NOSPACE")
       [] f = "fib" -> Outcome(undone, "PREFIX_NOSPACE")
       [] OTHER -> Outcome([s1 EXCEPT !.fib = Put(@, k, new),
                                      !.rib_cnt[v] = IF old < 0 THEN @ + 1 ELSE @], OK)

(* The function returns the position of the key in the rib hash, which it  *)
(* asserts not to be negative and its callers, at line, to be 0.           *)
PrefixDelete(s, v, p, line, pos) ==
  LET k == <<v, p>>
      at == DelKey(s.rib, k, pos.rib)
      s1 == [s EXCEPT !.fib = Del(@, k), !.rib = Del(@, k), !.rib_cnt[v] = @ - 1]
      s2 == Fails(Fails(s1, 667, k \in DOMAIN s.fib), 669, 0 <= at)
  IN Fails(Fails(s2, 671, s1.rib_cnt[v] >= 0), line, at = 0)
-----------------------------------------------------------------------------
(* The calls.  s is the state of the tables at the call.                   *)

NeverSame(x, e) == FALSE            \* mutation
SameNhop(x, e) == /\ Tunnel[x] = Tunnel[e] /\ (x \in Tgre <=> e \in Tgre)
                  /\ x \in Tgre \/ Gateway[x] = Gateway[e]

(* A result that holds the new next hop too replaces the old one: first    *)
(* create, then switch rib and fib over, then delete.                      *)
InsertInto(s, v, p, e, t, f, pos) ==
  LET k == <<v, p>>
      exists == k \in DOMAIN s.rib
      old == IF exists THEN s.rib[k] ELSE -1
      c == NhopCreate(s, v, e, f)
      paths == IF exists THEN Append(s.res[old].mpath, e) ELSE <<e>>
      new == Min(FreeRes(c.dp))
      s2 == [c.dp EXCEPT !.res = Put(@, new, NewRes(paths, IF exists THEN s.res[old].flags
                                                           ELSE {}, t))]
      u == PrefixUpdate(s2, v, p, old, new, f)
  IN CASE c.ret # OK -> c
       [] c.ret = OK /\ FreeRes(c.dp) = {} ->
            Outcome(NhopDelete(c.dp, v, e, pos), "RESULT_NOSPACE")
       [] c.ret = OK /\ FreeRes(c.dp) # {} /\ u.ret # OK ->
            Outcome(NhopDelete(ResDelete(u.dp, new), v, e, pos), u.ret)
       [] OTHER -> Outcome(IF exists THEN ResDelete(u.dp, old) ELSE u.dp, OK)

Insert(s, v, p, e, t, f, pos) ==
  LET k == <<v, p>>
      exists == k \in DOMAIN s.rib
      r == s.res[s.rib[k]]
  IN CASE exists /\ RType(r) # t -> Outcome(s, "ROUTETYPE_NO_SAME")
       [] exists /\ RType(r) = t /\ Len(r.mpath) >= r.mpath_max ->
            Outcome(s, "ECMP_NOSPACE")
       [] exists /\ RType(r) = t /\ Len(r.mpath) < r.mpath_max
            /\ \E x \in ToSet(r.mpath) : SameNhop(x, e) -> Outcome(s, OK)
       [] OTHER -> InsertInto(s, v, p, e, t, f, pos)

(* The last next hop takes the prefix with it; another one is removed by   *)
(* switching to a smaller result, which needs a free index.                *)
DeleteNhop(s, v, p, e, t, f, pos) ==
  LET k == <<v, p>>
      id == s.rib[k]
      r == s.res[id]
      gone == NhopDelete(ResDelete(PrefixDelete(s, v, p, 723, pos), id), v, e, pos)
      new == Min(FreeRes(s))
      found == e \in DOMAIN s.nhop /\ e \in ToSet(r.mpath)
      rest == RemoveFirst(r.mpath, e)
      u == PrefixUpdate([s EXCEPT !.res = Put(@, new, NewRes(rest, r.flags, t))],
                        v, p, id, new, f)
  IN CASE k \notin DOMAIN s.rib -> Outcome(s, OK)
       [] k \in DOMAIN s.rib /\ RType(r) # t -> Outcome(s, "ROUTETYPE_NO_SAME")
       [] k \in DOMAIN s.rib /\ RType(r) = t /\ ~found -> Outcome(s, OK)
       [] k \in DOMAIN s.rib /\ RType(r) = t /\ found /\ Len(r.mpath) = 1 ->
            Outcome(gone, OK)
       [] k \in DOMAIN s.rib /\ RType(r) = t /\ found /\ Len(r.mpath) > 1
            /\ FreeRes(s) = {} -> Outcome(s, "RESULT_NOSPACE")
       [] OTHER -> IF u.ret # OK THEN Outcome(ResDelete(u.dp, new), u.ret)
                   ELSE Outcome(NhopDelete(ResDelete(u.dp, id), v, e, pos), OK)

(* The tables after n of the next hops have been released. *)
ReleaseAll(s, v, paths, pos) ==
  LET after[n \in 0 .. Len(paths)] ==
        IF n = 0 THEN s ELSE NhopDelete(after[n - 1], v, paths[n], pos)
  IN after[Len(paths)]

DeleteRoute(s, v, p, pos) ==
  LET id == s.rib[<<v, p>>]
      s1 == ResDelete(PrefixDelete(s, v, p, 788, pos), id)
  IN IF <<v, p>> \notin DOMAIN s.rib THEN Outcome(s, "PREFIX_NOT_FOUND")
     ELSE Outcome(ReleaseAll(s1, v, s.res[id].mpath, pos), OK)

(* Mutation: the vrf id is compared with the slot's index, one less. *)
CleanupOffByOne(s, v, pos) ==
  FoldSet(LAMBDA p, x : DeleteRoute(x, v - 1, p, pos).dp, s,
          {p \in Prefix : <<v - 1, p>> \in DOMAIN s.rib})

(* The rib hash is shared: only the keys of v are deleted, one after the   *)
(* other.                                                                  *)
Cleanup(s, v, pos) ==
  LET keys == SetToSeq({p \in Prefix : <<v, p>> \in DOMAIN s.rib})
      after[n \in 0 .. Len(keys)] ==
        IF n = 0 THEN s ELSE DeleteRoute(after[n - 1], v, keys[n], pos).dp
  IN after[Len(keys)]

-----------------------------------------------------------------------------
Fresh == [dp EXCEPT !.failed = {}]

RouteNhopInsert(v, p, e, t, f, pos) ==
  LET o == Insert(Fresh, v, p, e, t, f, pos) IN dp' = o.dp /\ ret' = o.ret

RouteNhopDelete(v, p, e, t, f, pos) ==
  LET o == DeleteNhop(Fresh, v, p, e, t, f, pos) IN dp' = o.dp /\ ret' = o.ret

RouteDelete(v, p, pos) ==
  LET o == DeleteRoute(Fresh, v, p, pos) IN dp' = o.dp /\ ret' = o.ret

RouteCleanup(v, pos) == dp' = Cleanup(Fresh, v, pos) /\ ret' = OK

OlNeighAddStatic(v, g, f) ==
  LET o == StaticAdd(Fresh, v, g, f) IN dp' = o.dp /\ ret' = o.ret

RouteNext ==
  \E v \in Vrf :
    \/ \E p \in Prefix, e \in EncapOf[v], t \in RibTypes :
         \/ \E f \in Faults, pos \in HashPos : RouteNhopInsert(v, p, e, t, f, pos)
         \/ \E f \in Faults \cap {"none", "rib", "fib"}, pos \in HashPos :
              RouteNhopDelete(v, p, e, t, f, pos)
    \/ \E p \in Prefix, pos \in HashPos : RouteDelete(v, p, pos)
    \/ \E pos \in HashPos : RouteCleanup(v, pos)
    \/ \E g \in Static[v], f \in Faults \cap {"none", "neigh_mem", "neigh_hash"} :
         OlNeighAddStatic(v, g, f)

RouteSpec == RouteInit /\ [][RouteNext]_vars

-----------------------------------------------------------------------------
(* Type correctness of the six tables and their counters. *)
RouteTypeOK ==
  /\ DOMAIN dp.nhop \subseteq Encap /\ DOMAIN dp.neigh \subseteq Vrf \X Gateways
  /\ \A e \in DOMAIN dp.nhop :
       /\ dp.nhop[e].ref_count \in 1 .. U32 - 1
       /\ dp.nhop[e].nh_oid \in 1 .. OidMax /\ dp.nhop[e].neigh_oid \in 0 .. OidMax
  /\ \A k \in DOMAIN dp.neigh : dp.neigh[k].refcnt \in 1 .. U32 - 1
  /\ dp.neigh_cnt \in [Vrf -> 0 .. U32 - 1] /\ dp.neigh_count \in 0 .. U32 - 1
  /\ DOMAIN dp.res \subseteq 0 .. NrFibRes /\ DOMAIN dp.rib \subseteq Key
  /\ \A k \in DOMAIN dp.rib : dp.rib[k] \in DOMAIN dp.res \ {Blackhole}
  /\ dp.rib_cnt \in [Vrf -> 0 .. Cardinality(Prefix)]
  /\ dp.nh_oids \in 0 .. OidMax /\ dp.neigh_oids \in 0 .. OidMax

(* nhop_obj_create and nhop_obj_delete count references by hand, on every  *)
(* success and rollback path: a next hop's ref_count is exactly the number *)
(* of result slots that point to it, so none is freed while a route uses   *)
(* it and none outlives its last route.                                    *)
RefCountExact ==
  LET Slots(e) == {x \in (DOMAIN dp.res) \X (1 .. Cardinality(Encap)) :
                     x[2] \in DOMAIN dp.res[x[1]].mpath /\ dp.res[x[1]].mpath[x[2]] = e}
  IN /\ \A i \in DOMAIN dp.res : ToSet(dp.res[i].mpath) \subseteq DOMAIN dp.nhop
     /\ \A e \in DOMAIN dp.nhop : dp.nhop[e].ref_count = Cardinality(Slots(e))

(* While no two vrfs share an encapsulation, a neighbour has one reference *)
(* per next hop of its vrf that goes through it and one if it is static,   *)
(* and the global count is the number of entries.                          *)
NeighExact ==
  /\ \A v \in Vrf, g \in Gateways :
       LET users == {e \in DOMAIN dp.nhop \cap EncapOf[v] : Gateway[e] = g}
           static == <<v, g>> \in DOMAIN dp.neigh /\ dp.neigh[<<v, g>>].static
           refs == Cardinality(users) + (IF static THEN 1 ELSE 0)
       IN IF refs = 0 THEN <<v, g>> \notin DOMAIN dp.neigh
          ELSE <<v, g>> \in DOMAIN dp.neigh /\ dp.neigh[<<v, g>>].refcnt = refs
  /\ dp.neigh_count = Cardinality(DOMAIN dp.neigh)

(* The rib and the fib of route.c are updated one after the other and the  *)
(* result array by a third call: they name the same result for the same    *)
(* prefixes, every result but the blackhole belongs to exactly one prefix, *)
(* and rib_cnt counts the prefixes of the vrf.                             *)
TablesAgree ==
  /\ dp.rib = dp.fib
  /\ {dp.rib[k] : k \in DOMAIN dp.rib} = DOMAIN dp.res \ {Blackhole}
  /\ \A k, l \in DOMAIN dp.rib : dp.rib[k] = dp.rib[l] => k = l
  /\ \A v \in Vrf : dp.rib_cnt[v] = Cardinality({p \in Prefix : <<v, p>> \in DOMAIN dp.rib})

(* A call that returns an error has undone whatever it did before the      *)
(* failing step; only object ids, which are never given back, may be lost. *)
Tables(s) == [s EXCEPT !.nh_oids = 0, !.neigh_oids = 0, !.failed = {}]
FailedCallUndone == [][ret' # OK => Tables(dp') = Tables(dp)]_vars

(* What the forwarding threads see through the fib is the route table the  *)
(* API promises.                                                           *)
Routes == [k \in DOMAIN dp.fib |-> [type |-> RType(dp.res[dp.fib[k]]),
                                    paths |-> dp.res[dp.fib[k]].mpath]]
RT == INSTANCE RouteTable WITH
        RibType <- RibTypes, routes <- Routes,
        MaxPaths <- [t \in RibTypes |-> IF t = "RT_MROUTE" THEN MROUTE_MAX_ECMP
                                        ELSE ROUTE_MAX_ECMP]
RefinesRouteTable == RT!RTSpec

(* route.c:723 and :788 assert that rt_prefix_obj_delete returned 0, and   *)
(* :536 that deleting a next hop did, which without a gateway is again the *)
(* position of a key.                                                      *)
PositionAsserts == {536, 723, 788}

(* The other RTE_ASSERTs of the deletes hold: whatever a delete releases   *)
(* (the keys in both hashes, the fib entry, the neighbour, a place in      *)
(* rib_cnt) was there to release.                                          *)
AssertsHold == dp.failed \subseteq PositionAsserts
=============================================================================
