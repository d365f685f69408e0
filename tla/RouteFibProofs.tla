--------------------------- MODULE RouteFibProofs ---------------------------
(***************************************************************************)
(* Proofs about the route tables of the agent, for any VRFs, prefixes and  *)
(* encapsulations, any size of the result array and any failing library    *)
(* call.                                                                   *)
(***************************************************************************)
EXTENDS RouteFib, ListTheorems

-----------------------------------------------------------------------------
(* Hash tables as functions.                                               *)

IsFcn(f) == f = [y \in DOMAIN f |-> f[y]]
PerVrf(f) == IsFcn(f) /\ DOMAIN f = Vrf

LEMMA PutIs ==
  ASSUME NEW f, NEW k, NEW x
  PROVE  /\ DOMAIN Put(f, k, x) = DOMAIN f \cup {k} /\ IsFcn(Put(f, k, x))
         /\ Put(f, k, x)[k] = x
         /\ \A y \in DOMAIN f : y # k => Put(f, k, x)[y] = f[y]
BY DEF Put, IsFcn

LEMMA DelIs ==
  ASSUME NEW f, NEW k
  PROVE  /\ DOMAIN Del(f, k) = DOMAIN f \ {k} /\ IsFcn(Del(f, k))
         /\ \A y \in DOMAIN f : y # k => Del(f, k)[y] = f[y]
BY DEF Del, IsFcn

(* The two ways an update is undone. *)
LEMMA PutUndone ==
  ASSUME NEW f, IsFcn(f), NEW k, NEW x
  PROVE  /\ k \notin DOMAIN f => Del(Put(f, k, x), k) = f
         /\ k \in DOMAIN f => Put(Put(f, k, x), k, f[k]) = f
<1>1. ASSUME k \notin DOMAIN f
      PROVE  Del(Put(f, k, x), k) = f
  <2>1. DOMAIN Put(f, k, x) \ {k} = DOMAIN f
    BY <1>1 DEF Put
  <2>2. \A y \in DOMAIN f : Put(f, k, x)[y] = f[y]
    BY <1>1 DEF Put
  <2>3. Del(Put(f, k, x), k) = [y \in DOMAIN f |-> f[y]]
    BY <2>1, <2>2 DEF Del
  <2>4. QED
    BY <2>3 DEF IsFcn
<1>2. ASSUME k \in DOMAIN f
      PROVE  Put(Put(f, k, x), k, f[k]) = f
  <2>1. DOMAIN Put(f, k, x) \cup {k} = DOMAIN f
    BY <1>2 DEF Put
  <2>2. \A y \in DOMAIN f : (IF y = k THEN f[k] ELSE Put(f, k, x)[y]) = f[y]
    BY <1>2 DEF Put
  <2>3. Put(Put(f, k, x), k, f[k]) = [y \in DOMAIN f |-> f[y]]
    BY <2>1, <2>2 DEF Put
  <2>4. QED
    BY <2>3 DEF IsFcn
<1>3. QED
  BY <1>1, <1>2

-----------------------------------------------------------------------------
(* What the helpers change.                                                *)

IsTables(s) ==
  s = [nhop |-> s.nhop, neigh |-> s.neigh, neigh_cnt |-> s.neigh_cnt,
       neigh_count |-> s.neigh_count, res |-> s.res, rib |-> s.rib, fib |-> s.fib,
       rib_cnt |-> s.rib_cnt, nh_oids |-> s.nh_oids, neigh_oids |-> s.neigh_oids,
       failed |-> s.failed]

SameRoutes(s, t) ==
  t.res = s.res /\ t.rib = s.rib /\ t.fib = s.fib /\ t.rib_cnt = s.rib_cnt
SameHops(s, t) == t.nhop = s.nhop /\ t.nh_oids = s.nh_oids
SameNeigh(s, t) == /\ t.neigh = s.neigh /\ t.neigh_cnt = s.neigh_cnt
                   /\ t.neigh_count = s.neigh_count /\ t.neigh_oids = s.neigh_oids

LEMMA NeighAddKeeps ==
  ASSUME NEW s, IsTables(s), NEW v, NEW g, NEW f
  PROVE  LET t == NeighAdd(s, v, g, f).dp
         IN  IsTables(t) /\ SameRoutes(s, t) /\ SameHops(s, t) /\ t.failed = s.failed
BY DEF NeighAdd, Outcome, IsTables, SameRoutes, SameHops

LEMMA NeighDelKeeps ==
  ASSUME NEW s, IsTables(s), NEW v, NEW g
  PROVE  LET t == NeighDel(s, v, g).dp
         IN  IsTables(t) /\ SameRoutes(s, t) /\ SameHops(s, t) /\ t.failed = s.failed
BY DEF NeighDel, Outcome, IsTables, SameRoutes, SameHops

(* A failed assertion is recorded; the tables stay as they are. *)
Failed(s, line) == [s EXCEPT !.failed = @ \cup {line}]

LEMMA FailedKeeps ==
  ASSUME NEW s, IsTables(s), NEW line
  PROVE  LET t == Failed(s, line)
         IN  /\ IsTables(t) /\ SameRoutes(s, t) /\ SameHops(s, t) /\ SameNeigh(s, t)
             /\ t.failed = s.failed \cup {line}
BY DEF Failed, IsTables, SameRoutes, SameHops, SameNeigh

-----------------------------------------------------------------------------
(* Neighbours.                                                             *)

NeighRecord(n) == /\ n = [refcnt |-> n.refcnt, static |-> n.static, neigh_oid |-> n.neigh_oid]
                  /\ n.refcnt \in Nat \ {0} /\ n.neigh_oid \in 0 .. OidMax
NeighOK(s) ==
  /\ IsFcn(s.neigh) /\ DOMAIN s.neigh \subseteq Vrf \X Gateways
  /\ \A k \in DOMAIN s.neigh : NeighRecord(s.neigh[k])
  /\ s.neigh_cnt \in [Vrf -> 0 .. U32 - 1]
  /\ s.neigh_count = Cardinality(DOMAIN s.neigh) /\ s.neigh_oids \in 0 .. OidMax

(* The references to a neighbour and the one a static entry holds itself. *)
NCount(s, k) == IF k \in DOMAIN s.neigh THEN s.neigh[k].refcnt ELSE 0
NStatic(s, k) == IF k \in DOMAIN s.neigh /\ s.neigh[k].static THEN 1 ELSE 0

LEMMA GatewaysFinite ==
  IsFiniteSet(Vrf \X Gateways)
<1> DEFINE G == {Gateway[e] : e \in Encap}
           f == [e \in Encap |-> Gateway[e]]
<1>1. f \in Surjection(Encap, G)
  BY DEF Surjection
<1>2. IsFiniteSet(G)
  BY <1>1, FS_Surjection, RouteAssumption
<1>3. IsFiniteSet(Gateways)
  <2>1. Gateways \subseteq G
    BY DEF Gateways
  <2>2. QED
    BY <1>2, <2>1, FS_Subset
<1>4. QED
  BY <1>3, FS_Product, RouteAssumption

(* The number of neighbours fits its counter. *)
LEMMA NeighFits ==
  ASSUME NEW S, S \subseteq Vrf \X Gateways
  PROVE  IsFiniteSet(S) /\ Cardinality(S) \in Nat /\ Cardinality(S) < U32
<1>1. /\ IsFiniteSet(S) /\ Cardinality(S) \in Nat /\ Cardinality(S) <= Cardinality(Vrf \X Gateways)
      /\ Cardinality(Vrf \X Gateways) \in Nat
  BY GatewaysFinite, FS_Subset, FS_CardinalityType
<1>2. QED
  BY <1>1, RouteAssumption, NeighAssumption

LEMMA ModIs ==
  ASSUME NEW n \in 0 .. U32 - 1
  PROVE  n % U32 = n
BY RouteAssumption

LEMMA ModRange ==
  ASSUME NEW n \in Int
  PROVE  n % U32 \in 0 .. U32 - 1
BY RouteAssumption

(* A counter that was incremented and decremented is what it was, also at  *)
(* the end of its range.                                                   *)
LEMMA ModUndone ==
  ASSUME NEW n \in 0 .. U32 - 1
  PROVE  Dec((n + 1) % U32) = n
<1>0. U32 \in Nat /\ U32 > 0
  BY RouteAssumption
<1>1. CASE n + 1 < U32
  <2>1. (n + 1) % U32 = n + 1
    BY <1>0, <1>1
  <2>2. (n + 1) - 1 = n /\ n % U32 = n
    BY <1>0
  <2>3. QED
    BY <2>1, <2>2 DEF Dec
<1>2. CASE n + 1 = U32
  <2>1. (n + 1) % U32 = 0
    BY <1>0, <1>2
  <2>2. (0 - 1) % U32 = U32 - 1
    BY <1>0
  <2>3. QED
    BY <1>2, <2>1, <2>2 DEF Dec
<1>3. QED
  BY <1>0, <1>1, <1>2

(* A table with one neighbour more. *)
LEMMA NeighPut ==
  ASSUME NEW s, NeighOK(s), NEW k \in Vrf \X Gateways, k \notin DOMAIN s.neigh,
         NEW t, NEW r, NeighRecord(r), t.neigh = Put(s.neigh, k, r),
         t.neigh_cnt \in [Vrf -> 0 .. U32 - 1], t.neigh_count = (s.neigh_count + 1) % U32,
         t.neigh_oids \in 0 .. OidMax
  PROVE  /\ NeighOK(t) /\ t.neigh[k] = r /\ DOMAIN t.neigh = DOMAIN s.neigh \cup {k}
         /\ \A x \in DOMAIN s.neigh : t.neigh[x] = s.neigh[x]
<1>1. /\ DOMAIN t.neigh = DOMAIN s.neigh \cup {k} /\ IsFcn(t.neigh) /\ t.neigh[k] = r
      /\ \A x \in DOMAIN s.neigh : t.neigh[x] = s.neigh[x]
  BY DEF Put, IsFcn
<1>2. t.neigh_count = Cardinality(DOMAIN t.neigh)
  <2>1. /\ IsFiniteSet(DOMAIN s.neigh) /\ Cardinality(DOMAIN t.neigh) < U32
        /\ Cardinality(DOMAIN t.neigh) \in Nat
    <3>1. DOMAIN s.neigh \subseteq Vrf \X Gateways /\ DOMAIN t.neigh \subseteq Vrf \X Gateways
      BY <1>1 DEF NeighOK
    <3>2. QED
      BY <3>1, NeighFits
  <2>2. Cardinality(DOMAIN t.neigh) = Cardinality(DOMAIN s.neigh) + 1
    BY <1>1, <2>1, FS_AddElement
  <2>3. s.neigh_count + 1 = Cardinality(DOMAIN t.neigh)
    BY <2>2 DEF NeighOK
  <2>4. Cardinality(DOMAIN t.neigh) % U32 = Cardinality(DOMAIN t.neigh)
    BY <2>1, ModIs, RouteAssumption
  <2>5. QED
    BY <2>3, <2>4
<1>3. QED
  BY <1>1, <1>2 DEF NeighOK

LEMMA NeighAddIs ==
  ASSUME NEW s, IsTables(s), NeighOK(s), NEW v \in Vrf, NEW g \in Gateways, NEW f
  PROVE  LET n == NeighAdd(s, v, g, f)
             k == <<v, g>>
         IN  /\ n.ret # OK => n.dp = s
             /\ n.ret = OK => /\ NeighOK(n.dp) /\ k \in DOMAIN n.dp.neigh
                              /\ \A x : NCount(n.dp, x) = NCount(s, x) + IF x = k THEN 1 ELSE 0
                              /\ \A x : NStatic(n.dp, x) = NStatic(s, x)
<1> DEFINE n == NeighAdd(s, v, g, f)
           k == <<v, g>>
<1>0. k \in Vrf \X Gateways
  OBVIOUS
<1>1. CASE k \in DOMAIN s.neigh
  <2>1. n = Outcome([s EXCEPT !.neigh[k].refcnt = @ + 1], OK)
    BY <1>1, Zenon DEF NeighAdd
  <2>2. n.dp = [s EXCEPT !.neigh[k].refcnt = @ + 1] /\ n.ret = OK
    BY <2>1 DEF Outcome
  <2> HIDE DEF n, k
  <2>3. /\ n.dp.neigh = [s.neigh EXCEPT ![k].refcnt = @ + 1] /\ n.dp.neigh_oids = s.neigh_oids
        /\ n.dp.neigh_cnt = s.neigh_cnt /\ n.dp.neigh_count = s.neigh_count
    BY <2>2 DEF IsTables
  <2>4. /\ DOMAIN n.dp.neigh = DOMAIN s.neigh /\ IsFcn(n.dp.neigh)
        /\ \A x \in DOMAIN s.neigh : x # k => n.dp.neigh[x] = s.neigh[x]
        /\ n.dp.neigh[k] = [s.neigh[k] EXCEPT !.refcnt = s.neigh[k].refcnt + 1]
    BY <1>1, <2>3 DEF IsFcn
  <2>5. NeighRecord(s.neigh[k])
    BY <1>1 DEF NeighOK
  <2>6. /\ n.dp.neigh[k] = [refcnt |-> s.neigh[k].refcnt + 1, static |-> s.neigh[k].static,
                            neigh_oid |-> s.neigh[k].neigh_oid]
    <3>1. s.neigh[k] = [refcnt |-> s.neigh[k].refcnt, static |-> s.neigh[k].static,
                        neigh_oid |-> s.neigh[k].neigh_oid]
      BY <2>5 DEF NeighRecord
    <3>2. QED
      BY <2>4, <3>1
  <2>7. s.neigh[k].refcnt \in Nat \ {0} /\ s.neigh[k].neigh_oid \in 0 .. OidMax
    BY <2>5 DEF NeighRecord
  <2>8. /\ n.dp.neigh[k].refcnt = s.neigh[k].refcnt + 1 /\ n.dp.neigh[k].static = s.neigh[k].static
        /\ n.dp.neigh[k].neigh_oid = s.neigh[k].neigh_oid
    BY <2>6
  <2>9. NeighRecord(n.dp.neigh[k])
    BY <2>6, <2>7, <2>8 DEF NeighRecord
  <2>10. NeighOK(n.dp)
    BY <2>3, <2>4, <2>9 DEF NeighOK
  <2>11. \A x : NCount(n.dp, x) = NCount(s, x) + IF x = k THEN 1 ELSE 0
    <3>1. \A x \in DOMAIN s.neigh : s.neigh[x].refcnt \in Nat
      BY DEF NeighOK, NeighRecord
    <3>2. ASSUME NEW x
          PROVE  NCount(n.dp, x) = NCount(s, x) + IF x = k THEN 1 ELSE 0
      <4>1. CASE x = k
        BY <1>1, <2>4, <2>8, <4>1 DEF NCount
      <4>2. CASE x # k /\ x \in DOMAIN s.neigh
        BY <2>4, <3>1, <4>2 DEF NCount
      <4>3. CASE x # k /\ x \notin DOMAIN s.neigh
        BY <2>4, <4>3 DEF NCount
      <4>4. QED
        BY <4>1, <4>2, <4>3
    <3>3. QED
      BY <3>2
  <2>12. \A x : NStatic(n.dp, x) = NStatic(s, x)
    BY <1>1, <2>4, <2>8 DEF NStatic
  <2>13. QED
    BY <1>1, <2>2, <2>4, <2>10, <2>11, <2>12 DEF n, k
<1>2. CASE k \notin DOMAIN s.neigh /\ f \in {"neigh_mem", "neigh_hash"}
  <2>1. n = Outcome(s, "ENOMEM") \/ n = Outcome(s, "EFAULT")
    <3>1. CASE f = "neigh_mem"
      BY <1>2, <3>1 DEF NeighAdd
    <3>2. CASE f = "neigh_hash"
      BY <1>2, <3>2 DEF NeighAdd
    <3>3. QED
      BY <1>2, <3>1, <3>2
  <2>2. n.dp = s /\ n.ret # OK
    BY <2>1 DEF Outcome, OK
  <2>3. QED
    BY <2>2
<1>3. CASE /\ k \notin DOMAIN s.neigh /\ f \notin {"neigh_mem", "neigh_hash"}
           /\ f = "neigh_oid" \/ s.neigh_oids = OidMax
  <2>1. n = Outcome(s, "NO_OID")
    BY <1>3 DEF NeighAdd
  <2>2. n.dp = s /\ n.ret # OK
    BY <2>1 DEF Outcome, OK
  <2>3. QED
    BY <2>2
<1>4. CASE /\ k \notin DOMAIN s.neigh /\ f \notin {"neigh_mem", "neigh_hash"}
           /\ ~(f = "neigh_oid" \/ s.neigh_oids = OidMax)
  <2> DEFINE r == [refcnt |-> 1, static |-> FALSE, neigh_oid |-> s.neigh_oids + 1]
             a == Put(s.neigh, k, r)
             b == [s.neigh_cnt EXCEPT ![v] = (@ + 1) % U32]
             c == (s.neigh_count + 1) % U32
  <2>1. n = Outcome([s EXCEPT !.neigh = Put(@, k, r), !.neigh_cnt[v] = (@ + 1) % U32,
                              !.neigh_count = (@ + 1) % U32, !.neigh_oids = @ + 1], OK)
    BY <1>4 DEF NeighAdd
  <2>2. n = Outcome([s EXCEPT !.neigh = a, !.neigh_cnt = b, !.neigh_count = c,
                              !.neigh_oids = @ + 1], OK)
    BY <2>1
  <2>3. NeighRecord(r) /\ r.refcnt = 1 /\ ~r.static /\ s.neigh_oids + 1 \in 0 .. OidMax
    <3>1. s.neigh_oids + 1 \in 0 .. OidMax
      BY <1>4, RouteAssumption DEF NeighOK
    <3>2. QED
      BY <3>1 DEF NeighRecord
  <2>4. b \in [Vrf -> 0 .. U32 - 1]
    <3>1. s.neigh_cnt[v] \in Int /\ s.neigh_cnt \in [Vrf -> 0 .. U32 - 1]
      BY DEF NeighOK
    <3>2. (s.neigh_cnt[v] + 1) % U32 \in 0 .. U32 - 1
      BY <3>1, ModRange
    <3>3. QED
      BY <3>1, <3>2
  <2> HIDE DEF n, k, r, a, b, c
  <2>5. /\ n.dp.neigh = a /\ n.dp.neigh_cnt = b /\ n.dp.neigh_count = c /\ n.ret = OK
        /\ n.dp.neigh_oids = s.neigh_oids + 1
    BY <2>2 DEF IsTables, Outcome
  <2>6. /\ NeighOK(n.dp) /\ n.dp.neigh[k] = r /\ DOMAIN n.dp.neigh = DOMAIN s.neigh \cup {k}
        /\ \A x \in DOMAIN s.neigh : n.dp.neigh[x] = s.neigh[x]
    <3> DEFINE d == n.dp
    <3>1. /\ d.neigh = Put(s.neigh, k, r) /\ d.neigh_cnt \in [Vrf -> 0 .. U32 - 1]
          /\ d.neigh_count = (s.neigh_count + 1) % U32 /\ d.neigh_oids \in 0 .. OidMax
      BY <2>3, <2>4, <2>5 DEF a, c
    <3> HIDE DEF d
    <3>2. k \in Vrf \X Gateways /\ k \notin DOMAIN s.neigh /\ NeighRecord(r)
      BY <1>0, <1>4, <2>3
    <3>3. /\ NeighOK(d) /\ d.neigh[k] = r /\ DOMAIN d.neigh = DOMAIN s.neigh \cup {k}
          /\ \A x \in DOMAIN s.neigh : d.neigh[x] = s.neigh[x]
      BY <3>1, <3>2, NeighPut
    <3>4. QED
      BY <3>3 DEF d
  <2>7. \A x : NCount(n.dp, x) = NCount(s, x) + IF x = k THEN 1 ELSE 0
    <3>1. \A x \in DOMAIN s.neigh : s.neigh[x].refcnt \in Nat
      BY DEF NeighOK, NeighRecord
    <3>2. QED
      BY <1>4, <2>3, <2>6, <3>1 DEF NCount
  <2>8. \A x : NStatic(n.dp, x) = NStatic(s, x)
    BY <1>4, <2>3, <2>6 DEF NStatic
  <2>9. QED
    BY <2>5, <2>6, <2>7, <2>8 DEF n, k
<1>5. QED
  BY <1>1, <1>2, <1>3, <1>4

LEMMA NeighDelIs ==
  ASSUME NEW s, IsTables(s), NeighOK(s), NEW v \in Vrf, NEW g
  PROVE  LET n == NeighDel(s, v, g)
             t == n.dp
             k == <<v, g>>
         IN  /\ k \notin DOMAIN s.neigh => t = s
             /\ k \in DOMAIN s.neigh => /\ n.ret = OK
                                        /\ \A x : NCount(t, x) = NCount(s, x) - IF x = k THEN 1 ELSE 0
             /\ NeighOK(t)
             /\ NCount(s, k) > NStatic(s, k) => \A x : NStatic(t, x) = NStatic(s, x)
<1> DEFINE n == NeighDel(s, v, g)
           t == n.dp
           k == <<v, g>>
<1>0. \A x \in DOMAIN s.neigh : s.neigh[x].refcnt \in Nat /\ s.neigh[x].refcnt # 0
  BY DEF NeighOK, NeighRecord
<1>1. CASE k \notin DOMAIN s.neigh
  <2>1. n = Outcome(s, "NOT_FOUND")
    BY <1>1 DEF NeighDel
  <2>2. t = s
    BY <2>1 DEF Outcome
  <2>3. QED
    BY <1>1, <2>2
<1>2. CASE k \in DOMAIN s.neigh /\ s.neigh[k].refcnt > 1
  <2>1. n = Outcome([s EXCEPT !.neigh[k].refcnt = @ - 1], OK)
    BY <1>2 DEF NeighDel
  <2>2. t = [s EXCEPT !.neigh[k].refcnt = @ - 1] /\ n.ret = OK
    BY <2>1 DEF Outcome
  <2> HIDE DEF n, k
  <2>3. /\ t.neigh = [s.neigh EXCEPT ![k].refcnt = @ - 1] /\ t.neigh_oids = s.neigh_oids
        /\ t.neigh_cnt = s.neigh_cnt /\ t.neigh_count = s.neigh_count
    BY <2>2 DEF IsTables
  <2>4. /\ DOMAIN t.neigh = DOMAIN s.neigh /\ IsFcn(t.neigh)
        /\ \A x \in DOMAIN s.neigh : x # k => t.neigh[x] = s.neigh[x]
        /\ t.neigh[k] = [s.neigh[k] EXCEPT !.refcnt = s.neigh[k].refcnt - 1]
    BY <1>2, <2>3 DEF IsFcn
  <2>5. s.neigh[k] = [refcnt |-> s.neigh[k].refcnt, static |-> s.neigh[k].static,
                      neigh_oid |-> s.neigh[k].neigh_oid]
        /\ s.neigh[k].neigh_oid \in 0 .. OidMax
    BY <1>2 DEF NeighOK, NeighRecord
  <2>6. t.neigh[k] = [refcnt |-> s.neigh[k].refcnt - 1, static |-> s.neigh[k].static,
                      neigh_oid |-> s.neigh[k].neigh_oid]
    BY <2>4, <2>5
  <2>7. /\ t.neigh[k].refcnt = s.neigh[k].refcnt - 1 /\ t.neigh[k].static = s.neigh[k].static
        /\ t.neigh[k].neigh_oid = s.neigh[k].neigh_oid
    BY <2>6
  <2>8. s.neigh[k].refcnt - 1 \in Nat \ {0}
    BY <1>0, <1>2
  <2>9. NeighRecord(t.neigh[k])
    BY <2>5, <2>6, <2>7, <2>8 DEF NeighRecord
  <2>10. NeighOK(t)
    BY <2>3, <2>4, <2>9 DEF NeighOK
  <2>11. \A x : NCount(t, x) = NCount(s, x) - IF x = k THEN 1 ELSE 0
    <3>1. ASSUME NEW x
          PROVE  NCount(t, x) = NCount(s, x) - IF x = k THEN 1 ELSE 0
      <4>1. CASE x = k
        BY <1>2, <2>4, <2>7, <4>1 DEF NCount
      <4>2. CASE x # k /\ x \in DOMAIN s.neigh
        BY <1>0, <2>4, <4>2 DEF NCount
      <4>3. CASE x # k /\ x \notin DOMAIN s.neigh
        BY <2>4, <4>3 DEF NCount
      <4>4. QED
        BY <4>1, <4>2, <4>3
    <3>2. QED
      BY <3>1
  <2>12. \A x : NStatic(t, x) = NStatic(s, x)
    BY <1>2, <2>4, <2>7 DEF NStatic
  <2>13. QED
    BY <1>2, <2>2, <2>10, <2>11, <2>12 DEF n, k
<1>3. CASE k \in DOMAIN s.neigh /\ s.neigh[k].refcnt = 1
  <2> DEFINE a == Del(s.neigh, k)
             b == [s.neigh_cnt EXCEPT ![v] = Dec(@)]
             c == Dec(s.neigh_count)
  <2>1. n = Outcome([s EXCEPT !.neigh = Del(@, k), !.neigh_cnt[v] = Dec(@),
                              !.neigh_count = Dec(@)], OK)
    BY <1>3 DEF NeighDel
  <2>2. n = Outcome([s EXCEPT !.neigh = a, !.neigh_cnt = b, !.neigh_count = c], OK)
    BY <2>1
  <2>3. b \in [Vrf -> 0 .. U32 - 1]
    <3>1. s.neigh_cnt[v] \in Int /\ s.neigh_cnt \in [Vrf -> 0 .. U32 - 1]
      BY DEF NeighOK
    <3>2. Dec(s.neigh_cnt[v]) \in 0 .. U32 - 1
      BY <3>1, ModRange DEF Dec
    <3>3. QED
      BY <3>1, <3>2
  <2>4. c = Cardinality(DOMAIN s.neigh \ {k})
    <3>1. /\ IsFiniteSet(DOMAIN s.neigh) /\ Cardinality(DOMAIN s.neigh) \in Nat
          /\ Cardinality(DOMAIN s.neigh) < U32 /\ DOMAIN s.neigh # {}
      BY <1>3, NeighFits DEF NeighOK
    <3>2. Cardinality(DOMAIN s.neigh) # 0
      BY <3>1, FS_EmptySet
    <3>3. Cardinality(DOMAIN s.neigh \ {k}) = Cardinality(DOMAIN s.neigh) - 1
      BY <1>3, <3>1, FS_RemoveElement
    <3>4. (Cardinality(DOMAIN s.neigh) - 1) % U32 = Cardinality(DOMAIN s.neigh) - 1
      BY <3>1, <3>2, ModIs, RouteAssumption
    <3>5. s.neigh_count = Cardinality(DOMAIN s.neigh)
      BY DEF NeighOK
    <3>6. QED
      BY <3>3, <3>4, <3>5 DEF Dec
  <2> HIDE DEF n, k, b, c
  <2>5. /\ t.neigh = a /\ t.neigh_cnt = b /\ t.neigh_count = c /\ n.ret = OK
        /\ t.neigh_oids = s.neigh_oids
    BY <2>2 DEF IsTables, Outcome
  <2>6. /\ DOMAIN t.neigh = DOMAIN s.neigh \ {k} /\ IsFcn(t.neigh)
        /\ \A x \in DOMAIN t.neigh : t.neigh[x] = s.neigh[x]
    BY <2>5 DEF Del, IsFcn
  <2>7. NeighOK(t)
    BY <2>3, <2>4, <2>5, <2>6 DEF NeighOK
  <2>8. \A x : NCount(t, x) = NCount(s, x) - IF x = k THEN 1 ELSE 0
    BY <1>0, <1>3, <2>6 DEF NCount
  <2>9. ASSUME NCount(s, k) > NStatic(s, k)
        PROVE  \A x : NStatic(t, x) = NStatic(s, x)
    <3>1. NStatic(s, k) = 0
      BY <1>3, <2>9 DEF NCount, NStatic
    <3>2. QED
      BY <2>6, <3>1 DEF NStatic
  <2>10. QED
    BY <1>3, <2>5, <2>7, <2>8, <2>9 DEF n, k
<1>4. QED
  BY <1>0, <1>1, <1>2, <1>3

(* The reference taken by ntb_neigh_add and given back by ntb_neigh_del    *)
(* leaves neighbours and counters as they were.                            *)
NeighBack(s, t) == /\ t.neigh = s.neigh /\ t.neigh_cnt = s.neigh_cnt
                   /\ t.neigh_count = s.neigh_count

LEMMA NeighUndone ==
  ASSUME NEW s, IsTables(s), NeighOK(s), NEW v \in Vrf, NEW g \in Gateways, NEW f,
         NeighAdd(s, v, g, f).ret = OK,
         NEW d, IsTables(d), NeighBack(NeighAdd(s, v, g, f).dp, d)
  PROVE  NeighBack(s, NeighDel(d, v, g).dp)
<1> DEFINE n == NeighAdd(s, v, g, f)
           k == <<v, g>>
           m == NeighDel(d, v, g)
           t == m.dp
<1>1. CASE k \in DOMAIN s.neigh
  <2> DEFINE c == s.neigh[k].refcnt
  <2>1. n = Outcome([s EXCEPT !.neigh[k].refcnt = @ + 1], OK)
    BY <1>1, Zenon DEF NeighAdd
  <2>2. /\ n.dp.neigh = [s.neigh EXCEPT ![k].refcnt = @ + 1]
        /\ n.dp.neigh_cnt = s.neigh_cnt /\ n.dp.neigh_count = s.neigh_count
    BY <2>1 DEF Outcome, IsTables
  <2>3. /\ d.neigh = [s.neigh EXCEPT ![k].refcnt = @ + 1]
        /\ d.neigh_cnt = s.neigh_cnt /\ d.neigh_count = s.neigh_count
    BY <2>2 DEF NeighBack
  <2>4. /\ s.neigh[k] = [refcnt |-> c, static |-> s.neigh[k].static, neigh_oid |-> s.neigh[k].neigh_oid]
        /\ c \in Nat \ {0}
    BY <1>1 DEF NeighOK, NeighRecord
  <2>5. /\ k \in DOMAIN d.neigh /\ DOMAIN d.neigh = DOMAIN s.neigh
        /\ d.neigh[k] = [s.neigh[k] EXCEPT !.refcnt = c + 1]
        /\ \A x \in DOMAIN s.neigh : x # k => d.neigh[x] = s.neigh[x]
    BY <1>1, <2>3
  <2>6. /\ d.neigh[k] = [refcnt |-> c + 1, static |-> s.neigh[k].static,
                         neigh_oid |-> s.neigh[k].neigh_oid]
    BY <2>4, <2>5
  <2>7. d.neigh[k].refcnt = c + 1
    BY <2>6
  <2> HIDE DEF k
  <2>8. m = Outcome([d EXCEPT !.neigh[k].refcnt = @ - 1], OK)
    <3>1. d.neigh[k].refcnt > 1
      BY <2>4, <2>7
    <3>2. QED
      BY <2>5, <3>1 DEF NeighDel, k
  <2> HIDE DEF m
  <2>9. /\ t.neigh = [d.neigh EXCEPT ![k].refcnt = @ - 1]
        /\ t.neigh_cnt = d.neigh_cnt /\ t.neigh_count = d.neigh_count
    BY <2>8 DEF Outcome, IsTables
  <2>10. /\ t.neigh = [x \in DOMAIN s.neigh |-> t.neigh[x]]
         /\ t.neigh[k] = [d.neigh[k] EXCEPT !.refcnt = d.neigh[k].refcnt - 1]
         /\ \A x \in DOMAIN s.neigh : x # k => t.neigh[x] = s.neigh[x]
    BY <1>1, <2>5, <2>9
  <2>11. t.neigh[k] = s.neigh[k]
    <3> DEFINE a == s.neigh[k].static
               b == s.neigh[k].neigh_oid
               x == d.neigh[k]
               y == t.neigh[k]
    <3>1. c \in Nat
      BY <2>4
    <3>2. /\ x = [refcnt |-> c + 1, static |-> a, neigh_oid |-> b] /\ x.refcnt = c + 1
          /\ y = [x EXCEPT !.refcnt = x.refcnt - 1]
          /\ s.neigh[k] = [refcnt |-> c, static |-> a, neigh_oid |-> b]
      BY <2>4, <2>6, <2>7, <2>10
    <3> HIDE DEF a, b, c, x, y
    <3>3. y = [x EXCEPT !.refcnt = c]
      <4>1. x.refcnt = c + 1
        BY <3>2, Zenon
      <4>2. x.refcnt - 1 = c
        BY <3>1, <4>1
      <4>3. y = [x EXCEPT !.refcnt = x.refcnt - 1]
        BY <3>2, Zenon
      <4>4. QED
        BY <4>2, <4>3, Zenon
    <3>4. y = [refcnt |-> c, static |-> a, neigh_oid |-> b]
      BY <3>2, <3>3
    <3>5. QED
      BY <3>2, <3>4 DEF y
  <2>12. t.neigh = s.neigh
    BY <2>10, <2>11 DEF NeighOK, IsFcn
  <2>13. QED
    BY <2>3, <2>9, <2>12 DEF NeighBack, m
<1>2. CASE k \notin DOMAIN s.neigh
  <2>0. n = Outcome([s EXCEPT !.neigh = Put(@, k, [refcnt |-> 1, static |-> FALSE,
                                                   neigh_oid |-> s.neigh_oids + 1]),
                              !.neigh_cnt[v] = (@ + 1) % U32,
                              !.neigh_count = (@ + 1) % U32, !.neigh_oids = @ + 1], OK)
    <3>1. CASE f = "neigh_mem"
      <4>1. n = Outcome(s, "ENOMEM")
        BY <1>2, <3>1 DEF NeighAdd
      <4>2. QED
        BY <4>1 DEF Outcome, OK
    <3>2. CASE f = "neigh_hash"
      <4>1. n = Outcome(s, "EFAULT")
        BY <1>2, <3>2 DEF NeighAdd
      <4>2. QED
        BY <4>1 DEF Outcome, OK
    <3>3. CASE f \notin {"neigh_mem", "neigh_hash"} /\ (f = "neigh_oid" \/ s.neigh_oids = OidMax)
      <4>1. n = Outcome(s, "NO_OID")
        BY <1>2, <3>3 DEF NeighAdd
      <4>2. QED
        BY <4>1 DEF Outcome, OK
    <3>4. CASE f \notin {"neigh_mem", "neigh_hash"} /\ ~(f = "neigh_oid" \/ s.neigh_oids = OidMax)
      BY <1>2, <3>4 DEF NeighAdd
    <3>5. QED
      BY <3>1, <3>2, <3>3, <3>4
  <2> DEFINE r == [refcnt |-> 1, static |-> FALSE, neigh_oid |-> s.neigh_oids + 1]
             a == Put(s.neigh, k, r)
             b == [s.neigh_cnt EXCEPT ![v] = (@ + 1) % U32]
             c == (s.neigh_count + 1) % U32
  <2>2. n = Outcome([s EXCEPT !.neigh = a, !.neigh_cnt = b, !.neigh_count = c,
                              !.neigh_oids = @ + 1], OK)
    BY <2>0
  <2>3. r.refcnt = 1
    OBVIOUS
  <2> HIDE DEF n, k, r, a, b, c
  <2>4. n.dp.neigh = a /\ n.dp.neigh_cnt = b /\ n.dp.neigh_count = c
    BY <2>2 DEF IsTables, Outcome
  <2>5. d.neigh = a /\ d.neigh_cnt = b /\ d.neigh_count = c
    BY <2>4 DEF NeighBack, n
  <2>6. k \in DOMAIN d.neigh /\ d.neigh[k].refcnt = 1
    BY <2>3, <2>5 DEF Put, a
  <2>7. m = Outcome([d EXCEPT !.neigh = Del(@, k), !.neigh_cnt[v] = Dec(@),
                              !.neigh_count = Dec(@)], OK)
    <3>1. ~(d.neigh[k].refcnt > 1)
      BY <2>6
    <3>2. QED
      BY <2>6, <3>1 DEF NeighDel, k
  <2> DEFINE a2 == Del(d.neigh, k)
             b2 == [d.neigh_cnt EXCEPT ![v] = Dec(@)]
             c2 == Dec(d.neigh_count)
  <2>8. m = Outcome([d EXCEPT !.neigh = a2, !.neigh_cnt = b2, !.neigh_count = c2], OK)
    BY <2>7
  <2> HIDE DEF m, a2, b2, c2
  <2>9. t.neigh = a2 /\ t.neigh_cnt = b2 /\ t.neigh_count = c2
    BY <2>8 DEF IsTables, Outcome
  <2>10. a2 = s.neigh
    BY <1>2, <2>5, PutUndone DEF NeighOK, a, a2
  <2>11. b2 = s.neigh_cnt
    <3>1. s.neigh_cnt \in [Vrf -> 0 .. U32 - 1]
      BY DEF NeighOK
    <3>2. Dec((s.neigh_cnt[v] + 1) % U32) = s.neigh_cnt[v]
      BY <3>1, ModUndone
    <3>3. b2 = [x \in Vrf |-> IF x = v THEN Dec((s.neigh_cnt[v] + 1) % U32) ELSE s.neigh_cnt[x]]
      BY <2>5, <3>1 DEF b, b2
    <3>4. QED
      BY <3>1, <3>2, <3>3
  <2>12. c2 = s.neigh_count
    <3>1. s.neigh_count \in 0 .. U32 - 1
      BY NeighFits, RouteAssumption DEF NeighOK
    <3>2. QED
      BY <2>5, <3>1, ModUndone DEF c, c2
  <2>13. QED
    BY <2>9, <2>10, <2>11, <2>12 DEF NeighBack, m
<1>3. QED
  BY <1>1, <1>2

(* No two vrfs share an encapsulation.  route.c finds a next hop by its    *)
(* gateway and tunnel alone (line 225), so that with a shared one the      *)
(* reference to the neighbour would be taken in one vrf and given back in  *)
(* another.  Users are the next hops of v that go through the gateway g;   *)
(* the references to a neighbour are theirs and the static one.            *)
Disjoint == \A v, w \in Vrf : v # w => EncapOf[v] \cap EncapOf[w] = {}
Users(s, v, g) == {e \in DOMAIN s.nhop \cap EncapOf[v] : Gateway[e] = g}
NeighsCounted(s) ==
  \A v \in Vrf, g \in Gateways :
    NCount(s, <<v, g>>) = Cardinality(Users(s, v, g)) + NStatic(s, <<v, g>>)

HopEntries(s) ==
  /\ s.nh_oids \in 0 .. OidMax
  /\ \A e \in DOMAIN s.nhop : /\ IsFcn(s.nhop[e]) /\ s.nhop[e].nh_oid \in 1 .. OidMax
                              /\ s.nhop[e].neigh_oid \in 0 .. OidMax
NeighInv(s) == NeighOK(s) /\ HopEntries(s) /\ (Disjoint => NeighsCounted(s))

LEMMA UsersIs ==
  ASSUME NEW s, NEW v \in Vrf, NEW g
  PROVE  /\ IsFiniteSet(Users(s, v, g)) /\ Cardinality(Users(s, v, g)) \in Nat
         /\ Cardinality(Users(s, v, g)) <= Cardinality(Encap) /\ Cardinality(Encap) \in Nat
<1>1. Users(s, v, g) \subseteq Encap
  BY RouteAssumption DEF Users
<1>2. QED
  BY <1>1, RouteAssumption, FS_Subset, FS_CardinalityType

LEMMA NCountIs ==
  ASSUME NEW s, NeighOK(s), NEW x
  PROVE  /\ NCount(s, x) \in Nat /\ NStatic(s, x) \in {0, 1}
         /\ x \in DOMAIN s.neigh <=> NCount(s, x) > 0
<1>1. x \in DOMAIN s.neigh => s.neigh[x].refcnt \in Nat \ {0}
  BY DEF NeighOK, NeighRecord
<1>2. QED
  BY <1>1 DEF NCount, NStatic

LEMMA NeighOKSame ==
  ASSUME NEW s, NEW t, NeighOK(s), SameNeigh(s, t)
  PROVE  /\ NeighOK(t)
         /\ \A x : NCount(t, x) = NCount(s, x) /\ NStatic(t, x) = NStatic(s, x)
BY DEF NeighOK, SameNeigh, NCount, NStatic

(* References taken and given back leave the neighbours counted; only the  *)
(* oids may have been used up.                                             *)
LEMMA NeighSame ==
  ASSUME NEW s, NEW t, NeighInv(s), NeighBack(s, t), t.neigh_oids \in 0 .. OidMax,
         DOMAIN t.nhop = DOMAIN s.nhop, HopEntries(t)
  PROVE  NeighInv(t)
<1>1. NeighOK(t)
  BY DEF NeighInv, NeighOK, NeighBack
<1>2. ASSUME NeighsCounted(s)
      PROVE  NeighsCounted(t)
  <2>1. \A v, g : Users(t, v, g) = Users(s, v, g)
    BY DEF Users
  <2>2. \A x : NCount(t, x) = NCount(s, x) /\ NStatic(t, x) = NStatic(s, x)
    BY DEF NeighBack, NCount, NStatic
  <2>3. QED
    BY <1>2, <2>1, <2>2 DEF NeighsCounted
<1>3. QED
  BY <1>1, <1>2 DEF NeighInv

LEMMA UserNew ==
  ASSUME NEW s, NEW t, Disjoint, NeighOK(s), NeighsCounted(s), NEW v \in Vrf, NEW e \in EncapOf[v],
         e \notin DOMAIN s.nhop, DOMAIN t.nhop = DOMAIN s.nhop \cup {e},
         NEW g, g = Gateway[e], g \in Gateways,
         NCount(t, <<v, g>>) = NCount(s, <<v, g>>) + 1,
         \A x : x # <<v, g>> => NCount(t, x) = NCount(s, x),
         \A x : NStatic(t, x) = NStatic(s, x)
  PROVE  NeighsCounted(t)
<1> SUFFICES ASSUME NEW w \in Vrf, NEW h \in Gateways
             PROVE  NCount(t, <<w, h>>) = Cardinality(Users(t, w, h)) + NStatic(t, <<w, h>>)
  BY DEF NeighsCounted
<1>1. NCount(s, <<w, h>>) = Cardinality(Users(s, w, h)) + NStatic(s, <<w, h>>)
  BY DEF NeighsCounted
<1>2. CASE w = v /\ h = g
  <2>1. Users(t, v, g) = Users(s, v, g) \cup {e} /\ e \notin Users(s, v, g)
    BY DEF Users
  <2>2. Cardinality(Users(t, v, g)) = Cardinality(Users(s, v, g)) + 1
    <3> DEFINE A == Users(s, v, g)
               B == Users(t, v, g)
    <3>1. IsFiniteSet(A) /\ B = A \cup {e} /\ e \notin A
      BY <2>1, UsersIs
    <3> HIDE DEF A, B
    <3>2. Cardinality(A \cup {e}) = Cardinality(A) + 1
      BY <3>1, FS_AddElement
    <3>3. Cardinality(B) = Cardinality(A) + 1
      BY <3>1, <3>2
    <3>4. QED
      BY <3>3 DEF A, B
  <2>3. Cardinality(Users(s, v, g)) \in Nat /\ NStatic(s, <<v, g>>) \in {0, 1}
    BY UsersIs, NCountIs
  <2>4. /\ NCount(t, <<v, g>>) = Cardinality(Users(s, v, g)) + NStatic(s, <<v, g>>) + 1
        /\ NStatic(t, <<v, g>>) = NStatic(s, <<v, g>>)
    BY <1>1, <1>2
  <2>5. QED
    BY <1>2, <2>2, <2>3, <2>4
<1>3. CASE ~(w = v /\ h = g)
  <2>1. Users(t, w, h) = Users(s, w, h)
    BY <1>3 DEF Users, Disjoint
  <2>2. <<w, h>> # <<v, g>>
    BY <1>3
  <2>3. QED
    BY <1>1, <2>1, <2>2
<1>4. QED
  BY <1>2, <1>3

LEMMA UserGone ==
  ASSUME NEW s, NEW t, Disjoint, NeighOK(s), NeighsCounted(s), NEW v \in Vrf, NEW e \in EncapOf[v],
         e \in DOMAIN s.nhop, DOMAIN t.nhop = DOMAIN s.nhop \ {e},
         NEW g, g = Gateway[e], g \in Gateways,
         NCount(t, <<v, g>>) = NCount(s, <<v, g>>) - 1,
         \A x : x # <<v, g>> => NCount(t, x) = NCount(s, x),
         \A x : NStatic(t, x) = NStatic(s, x)
  PROVE  NeighsCounted(t)
<1> SUFFICES ASSUME NEW w \in Vrf, NEW h \in Gateways
             PROVE  NCount(t, <<w, h>>) = Cardinality(Users(t, w, h)) + NStatic(t, <<w, h>>)
  BY DEF NeighsCounted
<1>1. NCount(s, <<w, h>>) = Cardinality(Users(s, w, h)) + NStatic(s, <<w, h>>)
  BY DEF NeighsCounted
<1>2. CASE w = v /\ h = g
  <2>1. Users(t, v, g) = Users(s, v, g) \ {e} /\ e \in Users(s, v, g)
    BY DEF Users
  <2>2. Cardinality(Users(t, v, g)) = Cardinality(Users(s, v, g)) - 1
    <3>1. IsFiniteSet(Users(s, v, g))
      BY UsersIs
    <3>2. QED
      BY <2>1, <3>1, FS_RemoveElement
  <2>3. Cardinality(Users(s, v, g)) \in Nat /\ NStatic(s, <<v, g>>) \in {0, 1}
    BY UsersIs, NCountIs
  <2>4. /\ NCount(t, <<v, g>>) = NCount(s, <<v, g>>) - 1
        /\ NCount(s, <<v, g>>) = Cardinality(Users(s, v, g)) + NStatic(s, <<v, g>>)
        /\ NStatic(t, <<v, g>>) = NStatic(s, <<v, g>>)
    BY <1>1, <1>2
  <2>5. QED
    BY <1>2, <2>2, <2>3, <2>4
<1>3. CASE ~(w = v /\ h = g)
  <2>1. Users(t, w, h) = Users(s, w, h)
    BY <1>3 DEF Users, Disjoint
  <2>2. <<w, h>> # <<v, g>>
    BY <1>3
  <2>3. QED
    BY <1>1, <2>1, <2>2
<1>4. QED
  BY <1>2, <1>3

(* A next hop without a gateway uses no neighbour. *)
LEMMA NoUser ==
  ASSUME NEW s, NEW t, NeighInv(s), SameNeigh(s, t), NEW e, Gateway[e] = 0,
         DOMAIN t.nhop \cup {e} = DOMAIN s.nhop \cup {e}, HopEntries(t)
  PROVE  NeighInv(t)
<1>1. /\ NeighOK(t)
      /\ \A x : NCount(t, x) = NCount(s, x) /\ NStatic(t, x) = NStatic(s, x)
  BY NeighOKSame DEF NeighInv
<1>2. ASSUME NeighsCounted(s)
      PROVE  NeighsCounted(t)
  <2>1. \A v \in Vrf, g \in Gateways : Users(t, v, g) = Users(s, v, g)
    <3>1. \A x : x # e => (x \in DOMAIN t.nhop <=> x \in DOMAIN s.nhop)
      OBVIOUS
    <3>2. 0 \notin Gateways
      BY DEF Gateways
    <3>3. QED
      BY <3>1, <3>2 DEF Users
  <2>2. QED
    BY <1>1, <1>2, <2>1 DEF NeighsCounted
<1>3. QED
  BY <1>1, <1>2 DEF NeighInv

LEMMA GatewayOf ==
  ASSUME NEW e \in Encap, Gateway[e] # 0
  PROVE  Gateway[e] \in Gateways
BY DEF Gateways
-----------------------------------------------------------------------------
(* Next hops.                                                              *)

HopRecord == {"ref_count", "nh_oid", "neigh_oid"}
HopsOK(s) ==
  /\ DOMAIN s.nhop \subseteq Encap /\ IsFcn(s.nhop)
  /\ \A e \in DOMAIN s.nhop : /\ DOMAIN s.nhop[e] = HopRecord
                              /\ s.nhop[e].ref_count \in Nat \ {0}

(* The references to a next hop; one that is freed has none. *)
Count(s, e) == IF e \in DOMAIN s.nhop THEN s.nhop[e].ref_count ELSE 0

(* A next hop that exists gets one more reference; a new one takes a       *)
(* reference to its neighbour.                                             *)
Shared(s, t, e) == /\ e \in DOMAIN s.nhop /\ SameNeigh(s, t)
                   /\ t.nhop = [s.nhop EXCEPT ![e].ref_count = @ + 1]
Taken(s, t, v, e, f) ==
  /\ e \notin DOMAIN s.nhop /\ DOMAIN t.nhop = DOMAIN s.nhop \cup {e}
  /\ t.nhop[e].ref_count = 1 /\ \A x \in DOMAIN s.nhop : t.nhop[x] = s.nhop[x]
  /\ \E d : /\ IsTables(d) /\ SameNeigh(s, d) /\ NeighOK(d)
            /\ Gateway[e] = 0 => SameNeigh(d, t)
            /\ Gateway[e] # 0 => /\ NeighAdd(d, v, Gateway[e], f).ret = OK
                                 /\ SameNeigh(NeighAdd(d, v, Gateway[e], f).dp, t)

(* What the creation of a next hop comes down to for the other tables. *)
LEMMA NhopCreateKeeps ==
  ASSUME NEW s, IsTables(s), HopsOK(s), NeighInv(s), NEW v \in Vrf, NEW e \in EncapOf[v], NEW f
  PROVE  LET c == NhopCreate(s, v, e, f)
         IN  /\ IsTables(c.dp) /\ SameRoutes(s, c.dp) /\ c.dp.failed = s.failed
             /\ NeighInv(c.dp)
             /\ c.ret # OK => c.dp.nhop = s.nhop /\ NeighBack(s, c.dp)
             /\ c.ret = OK => /\ HopsOK(c.dp) /\ e \in DOMAIN c.dp.nhop
                              /\ \A x \in Encap : Count(c.dp, x) = Count(s, x) + IF x = e THEN 1 ELSE 0
                              /\ \/ Shared(s, c.dp, e) \/ Taken(s, c.dp, v, e, f)
<1> DEFINE r0 == [ref_count |-> 0, nh_oid |-> 0, neigh_oid |-> 0]
           s1 == [s EXCEPT !.nhop = Put(@, e, r0)]
           n == NeighOf(s1, v, e, f)
           undone == IF Gateway[e] = 0 THEN n.dp ELSE NeighDel(n.dp, v, Gateway[e]).dp
           c == NhopCreate(s, v, e, f)
<1>0. e \in Encap /\ NeighOK(s) /\ HopEntries(s)
  BY RouteAssumption DEF NeighInv
<1>1. /\ IsTables(s1) /\ SameRoutes(s, s1) /\ s1.failed = s.failed /\ s1.nhop = Put(s.nhop, e, r0)
      /\ SameNeigh(s, s1) /\ s1.nh_oids = s.nh_oids
  BY DEF IsTables, SameRoutes, SameNeigh
<1> HIDE DEF s1
<1>7. /\ NeighOK(s1)
      /\ \A x : NCount(s1, x) = NCount(s, x) /\ NStatic(s1, x) = NStatic(s, x)
  BY <1>0, <1>1, NeighOKSame
<1>2. IsTables(n.dp) /\ SameRoutes(s1, n.dp) /\ SameHops(s1, n.dp) /\ n.dp.failed = s1.failed
  <2>1. CASE Gateway[e] = 0
    <3>1. n.dp = s1
      BY <2>1 DEF NeighOf, Outcome
    <3>2. QED
      BY <1>1, <3>1 DEF SameRoutes, SameHops
  <2>2. CASE Gateway[e] # 0
    <3>1. n = NeighAdd(s1, v, Gateway[e], f)
      BY <2>2 DEF NeighOf
    <3>2. QED
      BY <1>1, <3>1, NeighAddKeeps
  <2>3. QED
    BY <2>1, <2>2
<1>8. /\ NeighOK(n.dp)
      /\ n.ret # OK => SameNeigh(s, n.dp)
      /\ n.ret = OK /\ Gateway[e] = 0 => SameNeigh(s, n.dp)
      /\ n.ret = OK /\ Gateway[e] # 0 =>
           /\ n = NeighAdd(s1, v, Gateway[e], f) /\ <<v, Gateway[e]>> \in DOMAIN n.dp.neigh
           /\ NCount(n.dp, <<v, Gateway[e]>>) = NCount(s, <<v, Gateway[e]>>) + 1
           /\ \A x : x # <<v, Gateway[e]>> => NCount(n.dp, x) = NCount(s, x)
           /\ \A x : NStatic(n.dp, x) = NStatic(s, x)
  <2>1. CASE Gateway[e] = 0
    <3>1. n.dp = s1
      BY <2>1 DEF NeighOf, Outcome
    <3>2. QED
      BY <1>1, <1>7, <2>1, <3>1
  <2>2. CASE Gateway[e] # 0
    <3>1. n = NeighAdd(s1, v, Gateway[e], f)
      BY <2>2 DEF NeighOf
    <3>2. Gateway[e] \in Gateways
      BY <1>0, <2>2, GatewayOf
    <3> HIDE DEF n
    <3>3. /\ n.ret # OK => n.dp = s1
          /\ n.ret = OK => /\ NeighOK(n.dp) /\ <<v, Gateway[e]>> \in DOMAIN n.dp.neigh
                           /\ \A x : NCount(n.dp, x) = NCount(s1, x) + IF x = <<v, Gateway[e]>> THEN 1 ELSE 0
                           /\ \A x : NStatic(n.dp, x) = NStatic(s1, x)
      BY <1>1, <1>7, <3>1, <3>2, NeighAddIs
    <3>4. \A x : NCount(s1, x) \in Nat
      BY <1>7, NCountIs
    <3>5. \A x : x # <<v, Gateway[e]>> => NCount(s1, x) + 0 = NCount(s, x)
      BY <1>7, <3>4
    <3>6. QED
      BY <1>1, <1>7, <2>2, <3>1, <3>3, <3>5
  <2>3. QED
    BY <2>1, <2>2
<1> HIDE DEF n
<1>3. /\ IsTables(undone) /\ SameRoutes(s1, undone) /\ SameHops(s1, undone)
      /\ undone.failed = s1.failed
  <2>1. CASE Gateway[e] = 0
    BY <1>2, <2>1
  <2>2. CASE Gateway[e] # 0
    <3>1. undone = NeighDel(n.dp, v, Gateway[e]).dp
      BY <2>2
    <3>2. LET t == NeighDel(n.dp, v, Gateway[e]).dp
          IN  IsTables(t) /\ SameRoutes(n.dp, t) /\ SameHops(n.dp, t) /\ t.failed = n.dp.failed
      BY <1>2, NeighDelKeeps
    <3>3. QED
      BY <1>2, <3>1, <3>2 DEF SameRoutes, SameHops
  <2>3. QED
    BY <2>1, <2>2
<1>9. /\ NeighOK(undone)
      /\ n.ret = OK => NeighBack(s, undone)
  <2>1. CASE Gateway[e] = 0
    BY <1>8, <2>1 DEF NeighBack, SameNeigh
  <2>2. CASE Gateway[e] # 0
    <3>1. undone = NeighDel(n.dp, v, Gateway[e]).dp /\ Gateway[e] \in Gateways
      BY <1>0, <2>2, GatewayOf
    <3>2. NeighOK(undone)
      BY <1>2, <1>8, <3>1, NeighDelIs
    <3>3. ASSUME n.ret = OK
          PROVE  NeighBack(s1, NeighDel(n.dp, v, Gateway[e]).dp)
      <4> DEFINE d == n.dp
      <4>1. /\ NeighAdd(s1, v, Gateway[e], f).ret = OK /\ IsTables(d)
            /\ NeighBack(NeighAdd(s1, v, Gateway[e], f).dp, d)
        BY <1>2, <1>8, <2>2, <3>3 DEF NeighBack
      <4> HIDE DEF d
      <4>2. NeighBack(s1, NeighDel(d, v, Gateway[e]).dp)
        BY <1>1, <1>7, <3>1, <4>1, NeighUndone
      <4>3. QED
        BY <4>2 DEF d
    <3>4. QED
      BY <1>1, <3>1, <3>2, <3>3 DEF NeighBack, SameNeigh
  <2>3. QED
    BY <2>1, <2>2
<1>4. CASE e \in DOMAIN s.nhop
  <2>1. c = Outcome([s EXCEPT !.nhop[e].ref_count = @ + 1], OK)
    BY <1>4, Zenon DEF NhopCreate
  <2>2. c.dp = [s EXCEPT !.nhop[e].ref_count = @ + 1] /\ c.ret = OK
    BY <2>1 DEF Outcome
  <2> HIDE DEF c
  <2>3. /\ IsTables(c.dp) /\ SameRoutes(s, c.dp) /\ c.dp.failed = s.failed
        /\ c.dp.nhop = [s.nhop EXCEPT ![e].ref_count = @ + 1]
        /\ SameNeigh(s, c.dp) /\ c.dp.nh_oids = s.nh_oids
    BY <2>2 DEF IsTables, SameRoutes, SameNeigh
  <2>4. HopsOK(c.dp) /\ e \in DOMAIN c.dp.nhop
    BY <1>4, <2>3 DEF HopsOK, IsFcn, HopRecord
  <2>5. ASSUME NEW x \in Encap
        PROVE  Count(c.dp, x) = Count(s, x) + IF x = e THEN 1 ELSE 0
    BY <1>4, <2>3 DEF HopsOK, Count, HopRecord
  <2>6. Shared(s, c.dp, e)
    BY <1>4, <2>3 DEF Shared
  <2>7. NeighInv(c.dp)
    <3>1. HopEntries(c.dp)
      <4> DEFINE h == s.nhop[e]
                 h1 == [h EXCEPT !.ref_count = h.ref_count + 1]
      <4>1. /\ DOMAIN c.dp.nhop = DOMAIN s.nhop /\ c.dp.nhop[e] = h1
            /\ \A x \in DOMAIN s.nhop : x # e => c.dp.nhop[x] = s.nhop[x]
        BY <1>4, <2>3
      <4>2. IsFcn(h1) /\ DOMAIN h1 = DOMAIN h /\ h1.nh_oid = h.nh_oid /\ h1.neigh_oid = h.neigh_oid
        <5>1. DOMAIN h = {"ref_count", "nh_oid", "neigh_oid"}
          BY <1>4 DEF HopsOK, HopRecord
        <5> HIDE DEF h
        <5>2. QED
          BY <5>1 DEF IsFcn
      <4> HIDE DEF h1
      <4>3. h1.nh_oid \in 1 .. OidMax /\ h1.neigh_oid \in 0 .. OidMax
        BY <1>0, <1>4, <4>2 DEF HopEntries
      <4>4. QED
        BY <1>0, <2>3, <4>1, <4>2, <4>3 DEF HopEntries
    <3>2. DOMAIN c.dp.nhop = DOMAIN s.nhop /\ NeighBack(s, c.dp) /\ c.dp.neigh_oids \in 0 .. OidMax
      BY <1>0, <2>3 DEF NeighBack, SameNeigh, NeighOK
    <3>3. QED
      BY <3>1, <3>2, NeighSame
  <2>8. QED
    BY <2>2, <2>3, <2>4, <2>5, <2>6, <2>7 DEF c
<1>5. CASE e \notin DOMAIN s.nhop
  <2>0. Del(s1.nhop, e) = s.nhop
    BY <1>1, <1>5, PutUndone DEF HopsOK
  <2>1. CASE f \in {"nhop_mem", "nhop_hash"}
    <3>0. c = Outcome(s, "NOMEM") \/ c = Outcome(s, "EFAULT")
      <4>1. CASE f = "nhop_mem"
        BY <1>5, <4>1 DEF NhopCreate
      <4>2. CASE f = "nhop_hash"
        BY <1>5, <4>2 DEF NhopCreate
      <4>3. QED
        BY <2>1, <4>1, <4>2
    <3>1. c.dp = s /\ c.ret # OK
      BY <3>0 DEF Outcome, OK
    <3>2. QED
      BY <3>1 DEF SameRoutes, NeighBack
  <2>2. CASE f \notin {"nhop_mem", "nhop_hash"} /\ n.ret # OK
    <3>1. c = Outcome([n.dp EXCEPT !.nhop = Del(@, e)], n.ret)
      BY <1>5, <2>2 DEF NhopCreate, n, s1
    <3>2. c.dp = [n.dp EXCEPT !.nhop = Del(@, e)] /\ c.ret = n.ret
      BY <3>1 DEF Outcome
    <3> HIDE DEF c
    <3>3. IsTables(c.dp) /\ SameRoutes(s, c.dp) /\ c.dp.failed = s.failed /\ c.dp.nhop = s.nhop
      BY <1>1, <1>2, <2>0, <3>2 DEF IsTables, SameRoutes, SameHops
    <3>4. NeighBack(s, c.dp) /\ c.dp.neigh_oids \in 0 .. OidMax /\ c.dp.nh_oids = s.nh_oids
      BY <1>1, <1>2, <1>8, <2>2, <3>2 DEF NeighBack, SameNeigh, IsTables, SameHops, NeighOK
    <3>5. NeighInv(c.dp)
      BY <1>0, <3>3, <3>4, NeighSame DEF HopEntries
    <3>6. QED
      BY <2>2, <3>2, <3>3, <3>4, <3>5 DEF c
  <2>3. CASE /\ f \notin {"nhop_mem", "nhop_hash"} /\ n.ret = OK
             /\ f = "nh_oid" \/ s.nh_oids = OidMax
    <3>1. c = Outcome([undone EXCEPT !.nhop = Del(@, e)], "NH_ALLOC_OID_FAIL")
      BY <1>5, <2>3 DEF NhopCreate, n, s1
    <3> HIDE DEF undone
    <3>2. c.dp = [undone EXCEPT !.nhop = Del(@, e)] /\ c.ret # OK
      BY <3>1 DEF Outcome, OK
    <3> HIDE DEF c
    <3>3. IsTables(c.dp) /\ SameRoutes(s, c.dp) /\ c.dp.failed = s.failed /\ c.dp.nhop = s.nhop
      BY <1>1, <1>3, <2>0, <3>2 DEF IsTables, SameRoutes, SameHops
    <3>4. NeighBack(s, c.dp) /\ c.dp.neigh_oids \in 0 .. OidMax /\ c.dp.nh_oids = s.nh_oids
      BY <1>1, <1>3, <1>9, <2>3, <3>2 DEF NeighBack, IsTables, SameHops, NeighOK
    <3>5. NeighInv(c.dp)
      BY <1>0, <3>3, <3>4, NeighSame DEF HopEntries
    <3>6. QED
      BY <3>2, <3>3, <3>4, <3>5 DEF c
  <2>4. CASE /\ f \notin {"nhop_mem", "nhop_hash"} /\ n.ret = OK
             /\ ~(f = "nh_oid" \/ s.nh_oids = OidMax)
    <3> DEFINE r == [ref_count |-> 1, nh_oid |-> s.nh_oids + 1,
                     neigh_oid |-> IF Gateway[e] = 0 THEN 0
                                   ELSE n.dp.neigh[<<v, Gateway[e]>>].neigh_oid]
    <3>1. c = Outcome([n.dp EXCEPT !.nhop[e] = r, !.nh_oids = @ + 1], OK)
      BY <1>5, <2>4 DEF NhopCreate, n, s1
    <3>0. DOMAIN r = HopRecord /\ r.ref_count = 1
      BY DEF HopRecord
    <3>8. IsFcn(r) /\ r.nh_oid \in 1 .. OidMax /\ r.neigh_oid \in 0 .. OidMax
      <4>1. s.nh_oids + 1 \in 1 .. OidMax
        BY <1>0, <2>4, RouteAssumption DEF HopEntries
      <4>2. (IF Gateway[e] = 0 THEN 0 ELSE n.dp.neigh[<<v, Gateway[e]>>].neigh_oid) \in 0 .. OidMax
        <5>1. CASE Gateway[e] = 0
          BY <5>1, RouteAssumption
        <5>2. CASE Gateway[e] # 0
          <6>1. NeighRecord(n.dp.neigh[<<v, Gateway[e]>>])
            BY <1>8, <2>4, <5>2 DEF NeighOK
          <6>2. QED
            BY <5>2, <6>1 DEF NeighRecord
        <5>3. QED
          BY <5>1, <5>2
      <4>3. QED
        BY <4>1, <4>2 DEF IsFcn
    <3> HIDE DEF r
    <3>2. c.dp = [n.dp EXCEPT !.nhop[e] = r, !.nh_oids = @ + 1] /\ c.ret = OK
      BY <3>1 DEF Outcome
    <3> HIDE DEF c
    <3>3. /\ IsTables(c.dp) /\ SameRoutes(s, c.dp) /\ c.dp.failed = s.failed
          /\ c.dp.nhop = [s1.nhop EXCEPT ![e] = r]
          /\ SameNeigh(n.dp, c.dp) /\ c.dp.nh_oids = s.nh_oids + 1
      <4>1. /\ IsTables(c.dp) /\ SameRoutes(n.dp, c.dp) /\ c.dp.failed = n.dp.failed
            /\ c.dp.nhop = [n.dp.nhop EXCEPT ![e] = r]
            /\ SameNeigh(n.dp, c.dp) /\ c.dp.nh_oids = n.dp.nh_oids + 1
        BY <1>2, <3>2 DEF IsTables, SameRoutes, SameNeigh
      <4>2. QED
        BY <1>1, <1>2, <4>1 DEF SameRoutes, SameHops
    <3>4. /\ DOMAIN c.dp.nhop = DOMAIN s.nhop \cup {e} /\ c.dp.nhop[e] = r /\ IsFcn(c.dp.nhop)
          /\ \A x \in DOMAIN s.nhop : c.dp.nhop[x] = s.nhop[x]
      BY <1>1, <1>5, <3>3 DEF Put, IsFcn
    <3>5. HopsOK(c.dp) /\ e \in DOMAIN c.dp.nhop
      BY <1>0, <3>0, <3>4 DEF HopsOK
    <3>6. ASSUME NEW x \in Encap
          PROVE  Count(c.dp, x) = Count(s, x) + IF x = e THEN 1 ELSE 0
      BY <1>5, <3>0, <3>4 DEF HopsOK, Count
    <3>9. HopEntries(c.dp)
      BY <1>0, <2>4, <3>3, <3>4, <3>8, RouteAssumption DEF HopEntries
    <3>10. Taken(s, c.dp, v, e, f)
      <4>1. Gateway[e] = 0 => SameNeigh(s1, c.dp)
        BY <1>1, <1>8, <2>4, <3>3 DEF SameNeigh
      <4>2. Gateway[e] # 0 => /\ NeighAdd(s1, v, Gateway[e], f).ret = OK
                             /\ SameNeigh(NeighAdd(s1, v, Gateway[e], f).dp, c.dp)
        BY <1>8, <2>4, <3>3
      <4>3. QED
        BY <1>1, <1>5, <1>7, <3>0, <3>4, <4>1, <4>2 DEF Taken
    <3>11. NeighInv(c.dp)
      <4>1. CASE Gateway[e] = 0
        <5>1. SameNeigh(s, c.dp) /\ DOMAIN c.dp.nhop \cup {e} = DOMAIN s.nhop \cup {e}
          BY <1>8, <2>4, <3>3, <3>4, <4>1 DEF SameNeigh
        <5>2. QED
          BY <3>9, <4>1, <5>1, NoUser
      <4>2. CASE Gateway[e] # 0
        <5> DEFINE g == Gateway[e]
                   t == c.dp
        <5>1. /\ NeighOK(t)
              /\ \A x : NCount(t, x) = NCount(n.dp, x) /\ NStatic(t, x) = NStatic(n.dp, x)
          BY <1>8, <3>3, NeighOKSame
        <5>2. /\ NCount(t, <<v, g>>) = NCount(s, <<v, g>>) + 1
              /\ \A x : x # <<v, g>> => NCount(t, x) = NCount(s, x)
              /\ \A x : NStatic(t, x) = NStatic(s, x)
          BY <1>8, <2>4, <4>2, <5>1
        <5>3. DOMAIN t.nhop = DOMAIN s.nhop \cup {e} /\ g = Gateway[e] /\ g \in Gateways
          BY <1>0, <3>4, <4>2, GatewayOf
        <5> HIDE DEF g, t
        <5>4. Disjoint => NeighsCounted(t)
          BY <1>0, <1>5, <5>2, <5>3, UserNew DEF NeighInv
        <5>5. HopEntries(t)
          BY <3>9 DEF t
        <5>6. QED
          BY <5>1, <5>4, <5>5 DEF NeighInv, t
      <4>3. QED
        BY <4>1, <4>2
    <3>7. QED
      BY <3>2, <3>3, <3>5, <3>6, <3>10, <3>11 DEF c
  <2>5. QED
    BY <2>1, <2>2, <2>3, <2>4
<1>6. QED
  BY <1>4, <1>5

(* One reference is given back; with the last one the next hop goes and    *)
(* gives back its neighbour's.                                             *)
Given(s, t, v, e) ==
  \/ /\ s.nhop[e].ref_count > 1 /\ SameNeigh(s, t)
     /\ t.nhop = [s.nhop EXCEPT ![e].ref_count = Dec(@)]
  \/ /\ s.nhop[e].ref_count = 1 /\ DOMAIN t.nhop = DOMAIN s.nhop \ {e} /\ IsFcn(t.nhop)
     /\ \A x \in DOMAIN t.nhop : t.nhop[x] = s.nhop[x]
     /\ \E d : /\ IsTables(d) /\ SameNeigh(s, d)
               /\ Gateway[e] = 0 => SameNeigh(d, t)
               /\ Gateway[e] # 0 => SameNeigh(NeighDel(d, v, Gateway[e]).dp, t)

(* While vrfs share no encapsulation, no assertion fails but those that    *)
(* take the position of a key for a status.                                *)
Quiet(s, t, pos) ==
  Disjoint /\ pos \in HashPos => t.failed \subseteq s.failed \cup PositionAsserts

LEMMA NhopDeleteKeeps ==
  ASSUME NEW s, IsTables(s), HopsOK(s), NeighInv(s), NEW v \in Vrf, NEW e \in EncapOf[v],
         e \in DOMAIN s.nhop, NEW pos, s.nhop[e].ref_count < U32
  PROVE  LET t == NhopDelete(s, v, e, pos)
         IN  /\ IsTables(t) /\ SameRoutes(s, t) /\ HopsOK(t) /\ NeighInv(t)
             /\ Given(s, t, v, e) /\ Quiet(s, t, pos)
             /\ \A x \in Encap : Count(t, x) = Count(s, x) - IF x = e THEN 1 ELSE 0
<1> DEFINE s1 == [s EXCEPT !.nhop[e].ref_count = Dec(@)]
           s0 == [s1 EXCEPT !.nhop = Del(@, e)]
           at == DelKey(s1.nhop, e, pos.nhop)
           s2 == Fails(s0, 522, 0 <= at)
           n == NeighDel(s2, v, Gateway[e])
           t == NhopDelete(s, v, e, pos)
           m == s.nhop[e].ref_count
<1>0. m \in Nat /\ m > 0 /\ m < U32
  BY DEF HopsOK
<1>9. e \in Encap /\ NeighOK(s) /\ HopEntries(s)
  BY RouteAssumption DEF NeighInv
<1>1. /\ IsTables(s1) /\ SameRoutes(s, s1) /\ s1.nhop = [s.nhop EXCEPT ![e].ref_count = Dec(@)]
      /\ SameNeigh(s, s1) /\ s1.nh_oids = s.nh_oids /\ s1.failed = s.failed
  BY DEF IsTables, SameRoutes, SameNeigh
<1>2. Dec(m) = m - 1
  <2>1. m - 1 \in 0 .. U32 - 1
    BY <1>0, RouteAssumption
  <2>2. (m - 1) % U32 = m - 1
    BY <2>1, <1>0, RouteAssumption
  <2>3. QED
    BY <2>2 DEF Dec
<1>3. /\ DOMAIN s1.nhop = DOMAIN s.nhop /\ IsFcn(s1.nhop)
      /\ DOMAIN s1.nhop[e] = HopRecord /\ s1.nhop[e].ref_count = m - 1
      /\ \A x \in DOMAIN s.nhop : x # e => s1.nhop[x] = s.nhop[x]
  BY <1>1, <1>2 DEF HopsOK, HopRecord, IsFcn
<1>10. HopEntries(s1)
  <2> DEFINE h == s.nhop[e]
             h1 == [h EXCEPT !.ref_count = Dec(h.ref_count)]
  <2>1. s1.nhop[e] = h1
    BY <1>1
  <2>2. IsFcn(h1) /\ h1.nh_oid = h.nh_oid /\ h1.neigh_oid = h.neigh_oid
    <3>1. DOMAIN h = {"ref_count", "nh_oid", "neigh_oid"}
      BY DEF HopsOK, HopRecord
    <3> HIDE DEF h
    <3>2. QED
      BY <3>1 DEF IsFcn
  <2> HIDE DEF h1
  <2>3. h1.nh_oid \in 1 .. OidMax /\ h1.neigh_oid \in 0 .. OidMax
    BY <1>9, <2>2 DEF HopEntries
  <2>4. QED
    BY <1>1, <1>3, <1>9, <2>1, <2>2, <2>3 DEF HopEntries
<1> HIDE DEF s1
<1>11. /\ IsTables(s0) /\ SameRoutes(s, s0) /\ s0.nhop = Del(s1.nhop, e)
       /\ SameNeigh(s, s0) /\ s0.nh_oids = s.nh_oids /\ s0.failed = s.failed
  BY <1>1 DEF IsTables, SameRoutes, SameNeigh
<1>12. pos \in HashPos => 0 <= at
  <2>1. e \in DOMAIN s1.nhop
    BY <1>3
  <2>2. pos \in HashPos => pos.nhop[e] \in Nat
    BY <1>9, PositionAssumption
  <2>3. QED
    BY <2>1, <2>2 DEF DelKey
<1> HIDE DEF s0, at
<1>4. /\ IsTables(s2) /\ SameRoutes(s, s2) /\ s2.nhop = Del(s1.nhop, e)
      /\ SameNeigh(s, s2) /\ s2.nh_oids = s.nh_oids
      /\ pos \in HashPos => s2.failed = s.failed
  <2>1. CASE 0 <= at
    <3>1. s2 = s0
      BY <2>1 DEF Fails
    <3>2. QED
      BY <1>11, <3>1
  <2>2. CASE ~(0 <= at)
    <3>1. s2 = Failed(s0, 522)
      BY <2>2 DEF Fails, Failed
    <3>2. QED
      BY <1>11, <1>12, <2>2, <3>1, FailedKeeps DEF SameRoutes, SameHops, SameNeigh
  <2>3. QED
    BY <2>1, <2>2
<1> HIDE DEF s2
<1>5. IsTables(n.dp) /\ SameRoutes(s2, n.dp) /\ SameHops(s2, n.dp) /\ n.dp.failed = s2.failed
  BY <1>4, NeighDelKeeps
<1>6. CASE m > 1
  <2>1. t = s1
    BY <1>0, <1>3, <1>6 DEF NhopDelete, s1
  <2> HIDE DEF t
  <2>2. HopsOK(t) /\ \A x \in Encap : Count(t, x) = Count(s, x) - IF x = e THEN 1 ELSE 0
    BY <1>0, <1>3, <1>6, <2>1 DEF HopsOK, Count
  <2>3. Given(s, t, v, e) /\ Quiet(s, t, pos)
    BY <1>1, <1>6, <2>1 DEF Given, Quiet
  <2>4. NeighInv(t)
    <3>1. NeighBack(s, t) /\ t.neigh_oids \in 0 .. OidMax /\ DOMAIN t.nhop = DOMAIN s.nhop
      BY <1>1, <1>3, <1>9, <2>1 DEF NeighBack, SameNeigh, NeighOK
    <3>2. QED
      BY <1>10, <2>1, <3>1, NeighSame
  <2>5. QED
    BY <1>1, <2>1, <2>2, <2>3, <2>4 DEF t
<1>7. CASE m = 1
  <2>0. s1.nhop[e].ref_count = 0
    BY <1>3, <1>7
  <2>1. /\ IsTables(t) /\ SameRoutes(s2, t) /\ SameHops(s2, t)
        /\ Gateway[e] = 0 => SameNeigh(s2, t) /\ t.failed \subseteq s2.failed \cup PositionAsserts
        /\ Gateway[e] # 0 => SameNeigh(n.dp, t) /\ (n.ret = OK => t.failed = s2.failed)
    <3>0. /\ SameRoutes(n.dp, n.dp) /\ SameHops(n.dp, n.dp) /\ SameRoutes(s2, s2) /\ SameHops(s2, s2)
          /\ SameNeigh(n.dp, n.dp) /\ SameNeigh(s2, s2)
      BY DEF SameRoutes, SameHops, SameNeigh
    <3>1. CASE Gateway[e] # 0
      <4>1. t = Fails(Fails(n.dp, 527, n.ret = OK), 536, n.ret = OK)
        BY <2>0, <3>1 DEF NhopDelete, s0, s1, s2, at, n
      <4> HIDE DEF t, n
      <4>2. CASE n.ret = OK
        BY <1>5, <3>0, <3>1, <4>1, <4>2 DEF Fails
      <4>3. CASE n.ret # OK
        <5> DEFINE t1 == Failed(n.dp, 527)
        <5>1. t = Failed(t1, 536)
          BY <4>1, <4>3 DEF Fails, Failed
        <5>2. IsTables(t1) /\ SameRoutes(n.dp, t1) /\ SameHops(n.dp, t1) /\ SameNeigh(n.dp, t1)
          BY <1>5, FailedKeeps
        <5> HIDE DEF t1
        <5>3. IsTables(t) /\ SameRoutes(t1, t) /\ SameHops(t1, t) /\ SameNeigh(t1, t)
          BY <5>1, <5>2, FailedKeeps
        <5>4. QED
          BY <1>5, <3>1, <4>3, <5>2, <5>3 DEF SameRoutes, SameHops, SameNeigh
      <4>4. QED
        BY <4>2, <4>3
    <3>2. CASE Gateway[e] = 0
      <4>1. t = Fails(s2, 536, at = 0)
        BY <2>0, <3>2 DEF NhopDelete, s0, s1, s2, at
      <4> HIDE DEF t
      <4>2. CASE at = 0
        <5>1. t = s2
          BY <4>1, <4>2 DEF Fails
        <5>2. QED
          BY <1>4, <3>0, <3>2, <5>1
      <4>3. CASE at # 0
        <5>1. t = Failed(s2, 536)
          BY <4>1, <4>3 DEF Fails, Failed
        <5>2. t.failed \subseteq s2.failed \cup PositionAsserts
          BY <1>4, <5>1, FailedKeeps DEF PositionAsserts
        <5>3. QED
          BY <1>4, <3>2, <5>1, <5>2, FailedKeeps
      <4>4. QED
        BY <4>2, <4>3
    <3>3. QED
      BY <3>1, <3>2
  <2> HIDE DEF t
  <2>2. /\ DOMAIN t.nhop = DOMAIN s.nhop \ {e} /\ IsFcn(t.nhop)
        /\ \A x \in DOMAIN t.nhop : t.nhop[x] = s.nhop[x]
    BY <1>3, <1>4, <2>1 DEF SameHops, Del, IsFcn
  <2>3. HopsOK(t) /\ \A x \in Encap : Count(t, x) = Count(s, x) - IF x = e THEN 1 ELSE 0
    BY <1>7, <2>2 DEF HopsOK, Count
  <2>4. SameRoutes(s, t)
    BY <1>4, <2>1 DEF SameRoutes
  <2>6. Given(s, t, v, e)
    BY <1>4, <1>7, <2>1, <2>2 DEF Given, n
  <2>7. HopEntries(t)
    BY <1>4, <1>9, <2>1, <2>2 DEF HopEntries, SameHops
  <2>8. NeighInv(t) /\ Quiet(s, t, pos)
    <3>1. CASE Gateway[e] = 0
      <4>1. SameNeigh(s, t) /\ DOMAIN t.nhop \cup {e} = DOMAIN s.nhop \cup {e}
        BY <1>4, <2>1, <2>2, <3>1 DEF SameNeigh
      <4>2. NeighInv(t)
        BY <2>7, <3>1, <4>1, NoUser
      <4>3. QED
        BY <1>4, <2>1, <3>1, <4>2 DEF Quiet
    <3>2. CASE Gateway[e] # 0
      <4> DEFINE g == Gateway[e]
                 k == <<v, g>>
      <4>1. /\ NeighOK(s2)
            /\ \A x : NCount(s2, x) = NCount(s, x) /\ NStatic(s2, x) = NStatic(s, x)
        BY <1>4, <1>9, NeighOKSame
      <4>2. /\ k \in DOMAIN s2.neigh => /\ n.ret = OK
                                        /\ \A x : NCount(n.dp, x) = NCount(s2, x) - IF x = k THEN 1 ELSE 0
            /\ NeighOK(n.dp)
            /\ NCount(s2, k) > NStatic(s2, k) => \A x : NStatic(n.dp, x) = NStatic(s2, x)
        BY <1>4, <4>1, NeighDelIs
      <4> HIDE DEF n
      <4>3. /\ NeighOK(t)
            /\ \A x : NCount(t, x) = NCount(n.dp, x) /\ NStatic(t, x) = NStatic(n.dp, x)
        BY <2>1, <3>2, <4>2, NeighOKSame
      <4>4. ASSUME Disjoint
            PROVE  NeighsCounted(t) /\ n.ret = OK
        <5>1. NeighsCounted(s) /\ g \in Gateways
          BY <1>9, <3>2, <4>4, GatewayOf DEF NeighInv
        <5>2. NCount(s, k) = Cardinality(Users(s, v, g)) + NStatic(s, k)
          BY <5>1 DEF NeighsCounted
        <5>3. Cardinality(Users(s, v, g)) \in Nat /\ Cardinality(Users(s, v, g)) # 0
          <6>1. e \in Users(s, v, g)
            BY DEF Users
          <6>2. IsFiniteSet(Users(s, v, g)) /\ Cardinality(Users(s, v, g)) \in Nat
            BY UsersIs
          <6>3. QED
            BY <6>1, <6>2, FS_EmptySet
        <5>4. NStatic(s, k) \in {0, 1}
          BY <1>9, NCountIs
        <5> HIDE DEF k
        <5>5. NCount(s2, k) > NStatic(s2, k) /\ NCount(s2, k) > 0
          BY <4>1, <5>2, <5>3, <5>4
        <5>6. k \in DOMAIN s2.neigh
          BY <4>1, <5>5, NCountIs
        <5>7. /\ NCount(t, k) = NCount(s, k) - 1
              /\ \A x : NStatic(t, x) = NStatic(s, x)
          BY <4>1, <4>2, <4>3, <5>5, <5>6
        <5>8. ASSUME NEW x, x # k
              PROVE  NCount(t, x) = NCount(s, x)
          <6>1. NCount(t, x) = NCount(s, x) - 0 /\ NCount(s, x) \in Nat
            BY <1>9, <4>1, <4>2, <4>3, <5>6, <5>8, NCountIs
          <6>2. QED
            BY <6>1
        <5>9. NeighsCounted(t)
          <6>1. /\ NCount(t, <<v, g>>) = NCount(s, <<v, g>>) - 1
                /\ \A x : x # <<v, g>> => NCount(t, x) = NCount(s, x)
            BY <5>7, <5>8 DEF k
          <6>2. g = Gateway[e]
            OBVIOUS
          <6> HIDE DEF g
          <6>3. QED
            BY <1>9, <2>2, <4>4, <5>1, <5>7, <6>1, <6>2, UserGone
        <5>10. QED
          BY <4>2, <5>6, <5>9
      <4>5. NeighInv(t)
        BY <2>7, <4>3, <4>4 DEF NeighInv
      <4>6. Quiet(s, t, pos)
        BY <1>4, <2>1, <3>2, <4>4 DEF Quiet
      <4>7. QED
        BY <4>5, <4>6
    <3>3. QED
      BY <3>1, <3>2
  <2>5. QED
    BY <2>1, <2>3, <2>4, <2>6, <2>8 DEF t
<1>8. QED
  BY <1>0, <1>6, <1>7

(* What nhop_obj_create did, nhop_obj_delete undoes. *)
LEMMA NhopUndone ==
  ASSUME NEW s, HopsOK(s), NeighInv(s), NEW v \in Vrf, NEW e \in EncapOf[v], NEW f, NEW d,
         NEW t, Given(d, t, v, e), Shared(s, d, e) \/ Taken(s, d, v, e, f),
         Count(s, e) < U32
  PROVE  t.nhop = s.nhop /\ NeighBack(s, t)
<1>1. CASE Shared(s, d, e)
  <2> DEFINE h == s.nhop[e]
             m == h.ref_count
  <2>1. m \in Nat /\ m > 0 /\ m < U32 /\ DOMAIN h = {"ref_count", "nh_oid", "neigh_oid"} /\ IsFcn(h)
    BY <1>1 DEF Shared, HopsOK, HopRecord, Count, NeighInv, HopEntries
  <2>2. /\ d.nhop = [s.nhop EXCEPT ![e].ref_count = @ + 1] /\ SameNeigh(s, d) /\ e \in DOMAIN s.nhop
    BY <1>1 DEF Shared
  <2>3. d.nhop[e] = [h EXCEPT !.ref_count = m + 1]
    BY <2>2
  <2> HIDE DEF h
  <2>4. d.nhop[e].ref_count = m + 1
    BY <2>1, <2>3
  <2>5. SameNeigh(d, t) /\ t.nhop = [d.nhop EXCEPT ![e].ref_count = Dec(@)]
    <3>1. d.nhop[e].ref_count # 1
      BY <2>1, <2>4
    <3>2. QED
      BY <3>1 DEF Given
  <2>6. Dec(m + 1) = m
    <3>1. (m + 1) - 1 = m /\ m \in 0 .. U32 - 1
      BY <2>1, RouteAssumption
    <3>2. QED
      BY <3>1, ModIs DEF Dec
  <2>7. t.nhop[e] = h
    <3>1. t.nhop[e] = [d.nhop[e] EXCEPT !.ref_count = Dec(d.nhop[e].ref_count)]
      BY <2>2, <2>5
    <3>2. t.nhop[e] = [[h EXCEPT !.ref_count = m + 1] EXCEPT !.ref_count = m]
      BY <2>3, <2>4, <2>6, <3>1, Zenon
    <3> HIDE DEF m
    <3>3. [[h EXCEPT !.ref_count = m + 1] EXCEPT !.ref_count = m] = [h EXCEPT !.ref_count = m]
      BY <2>1
    <3>4. [h EXCEPT !.ref_count = m] = h
      BY <2>1 DEF IsFcn, m
    <3>5. QED
      BY <3>2, <3>3, <3>4
  <2>8. t.nhop = s.nhop
    <3>1. /\ t.nhop = [x \in DOMAIN s.nhop |-> t.nhop[x]]
          /\ \A x \in DOMAIN s.nhop : x # e => t.nhop[x] = s.nhop[x]
      BY <2>2, <2>5
    <3>2. QED
      BY <2>7, <3>1 DEF HopsOK, IsFcn, h
  <2>9. QED
    BY <2>2, <2>5, <2>8 DEF NeighBack, SameNeigh
<1>2. CASE Taken(s, d, v, e, f)
  <2>1. /\ e \notin DOMAIN s.nhop /\ DOMAIN d.nhop = DOMAIN s.nhop \cup {e}
        /\ d.nhop[e].ref_count = 1 /\ \A x \in DOMAIN s.nhop : d.nhop[x] = s.nhop[x]
    BY <1>2 DEF Taken
  <2>2. PICK a : /\ IsTables(a) /\ SameNeigh(s, a) /\ NeighOK(a)
                 /\ Gateway[e] = 0 => SameNeigh(a, d)
                 /\ Gateway[e] # 0 => /\ NeighAdd(a, v, Gateway[e], f).ret = OK
                                      /\ SameNeigh(NeighAdd(a, v, Gateway[e], f).dp, d)
    BY <1>2 DEF Taken
  <2>3. ~(d.nhop[e].ref_count > 1)
    BY <2>1
  <2>4. /\ DOMAIN t.nhop = DOMAIN d.nhop \ {e} /\ IsFcn(t.nhop)
        /\ \A x \in DOMAIN t.nhop : t.nhop[x] = d.nhop[x]
    BY <2>3 DEF Given
  <2>5. PICK b : /\ IsTables(b) /\ SameNeigh(d, b)
                 /\ Gateway[e] = 0 => SameNeigh(b, t)
                 /\ Gateway[e] # 0 => SameNeigh(NeighDel(b, v, Gateway[e]).dp, t)
    BY <2>3 DEF Given
  <2>6. t.nhop = s.nhop
    <3>1. DOMAIN t.nhop = DOMAIN s.nhop /\ \A x \in DOMAIN s.nhop : t.nhop[x] = s.nhop[x]
      BY <2>1, <2>4
    <3>2. QED
      BY <2>4, <3>1 DEF HopsOK, IsFcn
  <2>7. NeighBack(s, t)
    <3>1. CASE Gateway[e] = 0
      BY <2>2, <2>5, <3>1 DEF NeighBack, SameNeigh
    <3>2. CASE Gateway[e] # 0
      <4>1. Gateway[e] \in Gateways
        BY <3>2, GatewayOf, RouteAssumption
      <4>2. NeighBack(NeighAdd(a, v, Gateway[e], f).dp, b)
        BY <2>2, <2>5, <3>2 DEF NeighBack, SameNeigh
      <4>3. NeighBack(a, NeighDel(b, v, Gateway[e]).dp)
        BY <2>2, <2>5, <3>2, <4>1, <4>2, NeighUndone
      <4>4. QED
        BY <2>2, <2>5, <3>2, <4>3 DEF NeighBack, SameNeigh
    <3>3. QED
      BY <3>1, <3>2
  <2>8. QED
    BY <2>6, <2>7
<1>3. QED
  BY <1>1, <1>2

-----------------------------------------------------------------------------
(* Prefixes and results.                                                   *)

ResRecord == {"flags", "mpath", "mpath_max"}
PrefixesOf(s, v) == {p \in Prefix : <<v, p>> \in DOMAIN s.rib}

MaxOf(type) == IF type = "RT_MROUTE" THEN MROUTE_MAX_ECMP ELSE ROUTE_MAX_ECMP

(* rib and fib agree, a result belongs to one prefix, its list of next     *)
(* hops has no repetition, and the prefixes of a vrf are counted.          *)
RoutesOK(s) ==
  /\ s.rib = s.fib /\ IsFcn(s.rib) /\ DOMAIN s.rib \subseteq Key
  /\ IsFcn(s.res) /\ DOMAIN s.res \subseteq 0 .. NrFibRes
  /\ 0 \in DOMAIN s.res /\ s.res[0].mpath = <<>>
  /\ \A k \in DOMAIN s.rib : /\ s.rib[k] \in DOMAIN s.res /\ s.rib[k] # 0
                             /\ IsListOf(s.res[s.rib[k]].mpath, EncapOf[k[1]])
                             /\ s.res[s.rib[k]].mpath_max = MaxOf(RType(s.res[s.rib[k]]))
  /\ \A i \in DOMAIN s.res : i # 0 => \E k \in DOMAIN s.rib : s.rib[k] = i
  /\ \A k, l \in DOMAIN s.rib : s.rib[k] = s.rib[l] => k = l
  /\ PerVrf(s.rib_cnt)
  /\ \A v \in Vrf : s.rib_cnt[v] = Cardinality(PrefixesOf(s, v))

(* The results that lead to a next hop. *)
Using(s, e) == {i \in DOMAIN s.res : e \in ToSet(s.res[i].mpath)}

LEMMA UsingFinite ==
  ASSUME NEW s, RoutesOK(s), NEW e
  PROVE  /\ Using(s, e) \subseteq 1 .. NrFibRes /\ IsFiniteSet(Using(s, e))
         /\ Cardinality(Using(s, e)) \in Nat /\ Cardinality(Using(s, e)) <= NrFibRes
<1>1. ToSet(s.res[0].mpath) = {}
  BY EmptyIsList DEF RoutesOK
<1>2. Using(s, e) \subseteq 1 .. NrFibRes
  BY <1>1 DEF Using, RoutesOK
<1>3. IsFiniteSet(1 .. NrFibRes) /\ Cardinality(1 .. NrFibRes) = NrFibRes
  <2>1. IsFiniteSet(1 .. NrFibRes)
        /\ Cardinality(1 .. NrFibRes) = IF 1 > NrFibRes THEN 0 ELSE NrFibRes - 1 + 1
    BY RouteAssumption, FS_Interval
  <2>2. QED
    BY <2>1, RouteAssumption
<1>4. QED
  BY <1>2, <1>3, FS_Subset, FS_CardinalityType

(* The next hops of the route to k. *)
PathsOf(s, k) == IF k \in DOMAIN s.rib THEN ToSet(s.res[s.rib[k]].mpath) ELSE {}
Ind(e, S) == IF e \in S THEN 1 ELSE 0

(* The prefixes of a vrf after one came or went. *)
LEMMA PrefixCount ==
  ASSUME NEW s, NEW t, NEW v \in Vrf, NEW p \in Prefix, RoutesOK(s),
         PerVrf(t.rib_cnt), \A x \in Vrf : x # v => t.rib_cnt[x] = s.rib_cnt[x],
         \/ /\ DOMAIN t.rib = DOMAIN s.rib \cup {<<v, p>>} /\ <<v, p>> \notin DOMAIN s.rib
            /\ t.rib_cnt[v] = s.rib_cnt[v] + 1
         \/ /\ DOMAIN t.rib = DOMAIN s.rib \ {<<v, p>>} /\ <<v, p>> \in DOMAIN s.rib
            /\ t.rib_cnt[v] = s.rib_cnt[v] - 1
         \/ DOMAIN t.rib = DOMAIN s.rib /\ t.rib_cnt[v] = s.rib_cnt[v]
  PROVE  \A x \in Vrf : t.rib_cnt[x] = Cardinality(PrefixesOf(t, x))
<1> SUFFICES ASSUME NEW x \in Vrf
             PROVE  t.rib_cnt[x] = Cardinality(PrefixesOf(t, x))
  OBVIOUS
<1>1. s.rib_cnt[x] = Cardinality(PrefixesOf(s, x)) /\ IsFiniteSet(PrefixesOf(s, x))
  <2>1. PrefixesOf(s, x) \subseteq Prefix
    BY DEF PrefixesOf
  <2>2. QED
    BY <2>1, FS_Subset, RouteAssumption DEF RoutesOK
<1>2. CASE x # v \/ DOMAIN t.rib = DOMAIN s.rib
  <2>1. PrefixesOf(t, x) = PrefixesOf(s, x)
    BY <1>2 DEF PrefixesOf
  <2>2. t.rib_cnt[x] = s.rib_cnt[x]
    BY <1>2
  <2>3. QED
    BY <1>1, <2>1, <2>2
<1>3. CASE /\ x = v /\ DOMAIN t.rib = DOMAIN s.rib \cup {<<v, p>>}
           /\ <<v, p>> \notin DOMAIN s.rib
  <2>1. PrefixesOf(t, v) = PrefixesOf(s, v) \cup {p} /\ p \notin PrefixesOf(s, v)
    BY <1>3 DEF PrefixesOf
  <2>2. Cardinality(PrefixesOf(t, v)) = Cardinality(PrefixesOf(s, v)) + 1
    BY <1>1, <1>3, <2>1, FS_AddElement
  <2>3. t.rib_cnt[v] = s.rib_cnt[v] + 1
    BY <1>3
  <2>4. QED
    BY <1>1, <1>3, <2>2, <2>3
<1>4. CASE /\ x = v /\ DOMAIN t.rib = DOMAIN s.rib \ {<<v, p>>}
           /\ <<v, p>> \in DOMAIN s.rib
  <2>1. PrefixesOf(t, v) = PrefixesOf(s, v) \ {p} /\ p \in PrefixesOf(s, v)
    BY <1>4 DEF PrefixesOf
  <2>2. Cardinality(PrefixesOf(t, v)) = Cardinality(PrefixesOf(s, v)) - 1
    BY <1>1, <1>4, <2>1, FS_RemoveElement
  <2>3. t.rib_cnt[v] = s.rib_cnt[v] - 1
    BY <1>4
  <2>4. QED
    BY <1>1, <1>4, <2>2, <2>3
<1>5. QED
  BY <1>2, <1>3, <1>4

(* t is s with the route <<v, p>> switched to a new result r. *)
Switched(s, t, v, p, new, r) ==
  LET k == <<v, p>> IN
  /\ t.rib = Put(s.rib, k, new) /\ t.fib = t.rib
  /\ t.res = IF k \in DOMAIN s.rib THEN Del(Put(s.res, new, r), s.rib[k])
             ELSE Put(s.res, new, r)
  /\ PerVrf(t.rib_cnt)
  /\ \A x \in Vrf : x # v => t.rib_cnt[x] = s.rib_cnt[x]
  /\ t.rib_cnt[v] = IF k \in DOMAIN s.rib THEN s.rib_cnt[v] ELSE s.rib_cnt[v] + 1

(* One result more, one less. *)
LEMMA CardReplaced ==
  ASSUME NEW U, IsFiniteSet(U), NEW V, NEW a, NEW b, b \notin U, a # b,
         NEW A, NEW B, NEW e, a \in U <=> e \in A,
         V = (U \ {a}) \cup (IF e \in B THEN {b} ELSE {})
  PROVE  Cardinality(V) = Cardinality(U) - Ind(e, A) + Ind(e, B)
<1> DEFINE W == U \ {a}
<1>1. IsFiniteSet(W) /\ Cardinality(W) = IF a \in U THEN Cardinality(U) - 1 ELSE Cardinality(U)
  BY FS_RemoveElement
<1>2. Cardinality(U) \in Nat /\ Cardinality(W) \in Nat /\ b \notin W
  BY <1>1, FS_CardinalityType
<1>3. Cardinality(W) = Cardinality(U) - Ind(e, A)
  BY <1>1, <1>2 DEF Ind
<1> HIDE DEF W
<1>4. CASE e \in B
  <2>1. V = W \cup {b}
    BY <1>4 DEF W
  <2>2. Cardinality(V) = Cardinality(W) + 1
    BY <1>1, <1>2, <2>1, FS_AddElement
  <2>3. QED
    BY <1>2, <1>3, <1>4, <2>2 DEF Ind
<1>5. CASE e \notin B
  <2>1. V = W
    BY <1>5 DEF W
  <2>2. QED
    BY <1>2, <1>3, <1>5, <2>1 DEF Ind
<1>6. QED
  BY <1>4, <1>5

LEMMA SwitchKeeps ==
  ASSUME NEW s, RoutesOK(s), NEW t, NEW v \in Vrf, NEW p \in Prefix,
         NEW new \in 0 .. NrFibRes, new \notin DOMAIN s.res,
         NEW r, IsListOf(r.mpath, EncapOf[v]), r.mpath_max = MaxOf(RType(r)),
         Switched(s, t, v, p, new, r)
  PROVE  /\ RoutesOK(t)
         /\ \A e \in Encap : Cardinality(Using(t, e)) = Cardinality(Using(s, e))
                               - Ind(e, PathsOf(s, <<v, p>>)) + Ind(e, ToSet(r.mpath))
<1> DEFINE k == <<v, p>>
           old == IF k \in DOMAIN s.rib THEN s.rib[k] ELSE -1
<1>0. k \in Key /\ new # 0 /\ k[1] = v
  BY DEF Key, RoutesOK
<1>1. /\ DOMAIN t.rib = DOMAIN s.rib \cup {k} /\ IsFcn(t.rib) /\ t.fib = t.rib /\ t.rib[k] = new
      /\ \A l \in DOMAIN s.rib : l # k => t.rib[l] = s.rib[l]
  BY DEF Switched, Put, IsFcn
<1>2. /\ DOMAIN t.res = (DOMAIN s.res \cup {new}) \ {old} /\ IsFcn(t.res)
      /\ t.res[new] = r
      /\ \A i \in DOMAIN s.res : i # old => t.res[i] = s.res[i]
  <2>1. CASE k \in DOMAIN s.rib
    <3>1. t.res = Del(Put(s.res, new, r), old) /\ old # new
      BY <2>1 DEF Switched, RoutesOK
    <3>2. QED
      BY <3>1 DEF Put, Del, IsFcn
  <2>2. CASE k \notin DOMAIN s.rib
    <3>1. t.res = Put(s.res, new, r) /\ old \notin DOMAIN s.res \cup {new}
      BY <2>2 DEF Switched, RoutesOK
    <3>2. QED
      BY <3>1 DEF Put, IsFcn
  <2>3. QED
    BY <2>1, <2>2
<1>3. /\ old # 0 /\ old # new /\ \A l \in DOMAIN s.rib : l # k => s.rib[l] # old
      /\ \A l \in DOMAIN s.rib : s.rib[l] # new /\ s.rib[l] \in DOMAIN s.res
  BY DEF RoutesOK
<1> HIDE DEF k
<1>4. RoutesOK(t)
  <2>1. DOMAIN t.rib \subseteq Key /\ DOMAIN t.res \subseteq 0 .. NrFibRes
    BY <1>0, <1>1, <1>2 DEF RoutesOK
  <2>2. 0 \in DOMAIN t.res /\ t.res[0].mpath = <<>>
    BY <1>0, <1>2, <1>3 DEF RoutesOK
  <2>3. ASSUME NEW l \in DOMAIN t.rib
        PROVE  /\ t.rib[l] \in DOMAIN t.res /\ t.rib[l] # 0
               /\ IsListOf(t.res[t.rib[l]].mpath, EncapOf[l[1]])
               /\ t.res[t.rib[l]].mpath_max = MaxOf(RType(t.res[t.rib[l]]))
    <3>1. CASE l = k
      BY <3>1, <1>0, <1>1, <1>2, <1>3
    <3>2. CASE l # k
      <4>1. l \in DOMAIN s.rib /\ t.rib[l] = s.rib[l] /\ s.rib[l] # old
        BY <3>2, <2>3, <1>1, <1>3
      <4>2. t.res[t.rib[l]] = s.res[s.rib[l]] /\ t.rib[l] \in DOMAIN t.res
        BY <4>1, <1>2, <1>3
      <4>3. QED
        BY <4>1, <4>2 DEF RoutesOK
    <3>3. QED
      BY <3>1, <3>2
  <2>4. ASSUME NEW i \in DOMAIN t.res, i # 0
        PROVE  \E l \in DOMAIN t.rib : t.rib[l] = i
    <3>1. CASE i = new
      BY <3>1, <1>1
    <3>2. CASE i # new
      <4>1. i \in DOMAIN s.res /\ i # old
        BY <3>2, <2>4, <1>2
      <4>2. PICK l \in DOMAIN s.rib : s.rib[l] = i
        BY <4>1, <2>4 DEF RoutesOK
      <4>3. l # k
        BY <4>1, <4>2
      <4>4. QED
        BY <4>2, <4>3, <1>1
    <3>3. QED
      BY <3>1, <3>2
  <2>5. ASSUME NEW l \in DOMAIN t.rib, NEW m \in DOMAIN t.rib, t.rib[l] = t.rib[m]
        PROVE  l = m
    <3>1. CASE l = k \/ m = k
      BY <3>1, <2>5, <1>1, <1>3
    <3>2. CASE l # k /\ m # k
      <4>1. l \in DOMAIN s.rib /\ m \in DOMAIN s.rib /\ s.rib[l] = s.rib[m]
        BY <3>2, <2>5, <1>1
      <4>2. QED
        BY <4>1 DEF RoutesOK
    <3>3. QED
      BY <3>1, <3>2
  <2>6. \A x \in Vrf : t.rib_cnt[x] = Cardinality(PrefixesOf(t, x))
    <3>1. /\ PerVrf(t.rib_cnt) /\ \A x \in Vrf : x # v => t.rib_cnt[x] = s.rib_cnt[x]
          /\ t.rib_cnt[v] = IF k \in DOMAIN s.rib THEN s.rib_cnt[v] ELSE s.rib_cnt[v] + 1
      BY DEF Switched, k
    <3>2. CASE k \in DOMAIN s.rib
      <4>1. DOMAIN t.rib = DOMAIN s.rib /\ t.rib_cnt[v] = s.rib_cnt[v]
        BY <3>1, <3>2, <1>1
      <4>2. QED
        BY <3>1, <4>1, PrefixCount
    <3>3. CASE k \notin DOMAIN s.rib
      <4>1. DOMAIN t.rib = DOMAIN s.rib \cup {k} /\ t.rib_cnt[v] = s.rib_cnt[v] + 1
        BY <3>1, <3>3, <1>1
      <4>2. QED
        BY <3>1, <3>3, <4>1, PrefixCount DEF k
    <3>4. QED
      BY <3>2, <3>3
  <2>7. QED
    BY <1>1, <1>2, <2>1, <2>2, <2>3, <2>4, <2>5, <2>6 DEF RoutesOK, Switched
<1>5. ASSUME NEW e \in Encap
      PROVE  Cardinality(Using(t, e)) = Cardinality(Using(s, e)) - Ind(e, PathsOf(s, k))
                                        + Ind(e, ToSet(r.mpath))
  <2>1. Using(t, e) = (Using(s, e) \ {old}) \cup (IF e \in ToSet(r.mpath) THEN {new} ELSE {})
    <3>1. ASSUME NEW i \in DOMAIN t.res
          PROVE  i \in Using(t, e) <=>
                   \/ i \in Using(s, e) /\ i # old
                   \/ i = new /\ e \in ToSet(r.mpath)
      BY <1>2 DEF Using
    <3>2. \A i \in Using(s, e) : i # old => i \in DOMAIN t.res
      BY <1>2 DEF Using
    <3>3. new \in DOMAIN t.res /\ Using(t, e) \subseteq DOMAIN t.res
      BY <1>2, <1>3 DEF Using
    <3> HIDE DEF old
    <3>4. CASE e \in ToSet(r.mpath)
      <4>1. \A i : i \in Using(t, e) <=> (i \in Using(s, e) /\ i # old) \/ i = new
        BY <3>1, <3>2, <3>3, <3>4
      <4>2. QED
        BY <3>4, <4>1
    <3>5. CASE e \notin ToSet(r.mpath)
      <4>1. \A i : i \in Using(t, e) <=> i \in Using(s, e) /\ i # old
        BY <3>1, <3>2, <3>3, <3>5
      <4>2. QED
        BY <3>5, <4>1
    <3>6. QED
      BY <3>4, <3>5
  <2>2. old \in Using(s, e) <=> e \in PathsOf(s, k)
    <3>1. CASE k \in DOMAIN s.rib
      BY <3>1, <1>3 DEF Using, PathsOf
    <3>2. CASE k \notin DOMAIN s.rib
      BY <3>2 DEF Using, PathsOf, RoutesOK
    <3>3. QED
      BY <3>1, <3>2
  <2>3. IsFiniteSet(Using(s, e)) /\ new \notin Using(s, e)
    BY UsingFinite DEF Using
  <2> HIDE DEF old
  <2>4. QED
    BY <1>3, <2>1, <2>2, <2>3, CardReplaced
<1>6. QED
  BY <1>4, <1>5 DEF k

(* t is s without the route <<v, p>>. *)
Gone(s, t, v, p) ==
  LET k == <<v, p>> IN
  /\ k \in DOMAIN s.rib
  /\ t.rib = Del(s.rib, k) /\ t.fib = t.rib /\ t.res = Del(s.res, s.rib[k])
  /\ PerVrf(t.rib_cnt)
  /\ \A x \in Vrf : x # v => t.rib_cnt[x] = s.rib_cnt[x]
  /\ t.rib_cnt[v] = s.rib_cnt[v] - 1

LEMMA GoneKeeps ==
  ASSUME NEW s, RoutesOK(s), NEW t, NEW v \in Vrf, NEW p \in Prefix, Gone(s, t, v, p)
  PROVE  /\ RoutesOK(t)
         /\ \A e \in Encap : Cardinality(Using(t, e)) = Cardinality(Using(s, e))
                               - Ind(e, PathsOf(s, <<v, p>>))
<1> DEFINE k == <<v, p>>
           old == s.rib[k]
<1>1. /\ k \in DOMAIN s.rib
      /\ DOMAIN t.rib = DOMAIN s.rib \ {k} /\ IsFcn(t.rib) /\ t.fib = t.rib
      /\ \A l \in DOMAIN t.rib : t.rib[l] = s.rib[l]
  BY DEF Gone, Del, IsFcn
<1>2. /\ DOMAIN t.res = DOMAIN s.res \ {old} /\ IsFcn(t.res)
      /\ \A i \in DOMAIN t.res : t.res[i] = s.res[i]
  BY DEF Gone, Del, IsFcn
<1>3. /\ old # 0 /\ \A l \in DOMAIN s.rib : l # k => s.rib[l] # old
      /\ \A l \in DOMAIN s.rib : s.rib[l] \in DOMAIN s.res
  BY <1>1 DEF RoutesOK
<1> HIDE DEF k
<1>4. RoutesOK(t)
  <2>1. DOMAIN t.rib \subseteq Key /\ DOMAIN t.res \subseteq 0 .. NrFibRes
    BY <1>1, <1>2 DEF RoutesOK
  <2>2. 0 \in DOMAIN t.res /\ t.res[0].mpath = <<>>
    BY <1>2, <1>3 DEF RoutesOK
  <2>3. ASSUME NEW l \in DOMAIN t.rib
        PROVE  /\ t.rib[l] \in DOMAIN t.res /\ t.rib[l] # 0
               /\ IsListOf(t.res[t.rib[l]].mpath, EncapOf[l[1]])
               /\ t.res[t.rib[l]].mpath_max = MaxOf(RType(t.res[t.rib[l]]))
    <3>1. l \in DOMAIN s.rib /\ t.rib[l] = s.rib[l] /\ s.rib[l] # old
      BY <2>3, <1>1, <1>3
    <3>2. t.res[t.rib[l]] = s.res[s.rib[l]] /\ t.rib[l] \in DOMAIN t.res
      BY <3>1, <1>2, <1>3
    <3>3. QED
      BY <3>1, <3>2 DEF RoutesOK
  <2>4. ASSUME NEW i \in DOMAIN t.res, i # 0
        PROVE  \E l \in DOMAIN t.rib : t.rib[l] = i
    <3>1. i \in DOMAIN s.res /\ i # old
      BY <2>4, <1>2
    <3>2. PICK l \in DOMAIN s.rib : s.rib[l] = i
      BY <3>1, <2>4 DEF RoutesOK
    <3>3. l # k
      BY <3>1, <3>2
    <3>4. QED
      BY <3>2, <3>3, <1>1
  <2>5. ASSUME NEW l \in DOMAIN t.rib, NEW m \in DOMAIN t.rib, t.rib[l] = t.rib[m]
        PROVE  l = m
    <3>1. l \in DOMAIN s.rib /\ m \in DOMAIN s.rib /\ s.rib[l] = s.rib[m]
      BY <2>5, <1>1
    <3>2. QED
      BY <3>1 DEF RoutesOK
  <2>6. \A x \in Vrf : t.rib_cnt[x] = Cardinality(PrefixesOf(t, x))
    <3>1. /\ PerVrf(t.rib_cnt) /\ \A x \in Vrf : x # v => t.rib_cnt[x] = s.rib_cnt[x]
          /\ t.rib_cnt[v] = s.rib_cnt[v] - 1
      BY DEF Gone
    <3>2. QED
      BY <1>1, <3>1, PrefixCount DEF k
  <2>7. QED
    BY <1>1, <1>2, <2>1, <2>2, <2>3, <2>4, <2>5, <2>6 DEF RoutesOK, Gone
<1>5. ASSUME NEW e \in Encap
      PROVE  Cardinality(Using(t, e)) = Cardinality(Using(s, e)) - Ind(e, PathsOf(s, k))
  <2>1. Using(t, e) = Using(s, e) \ {old}
    BY <1>2 DEF Using
  <2>2. old \in Using(s, e) <=> e \in PathsOf(s, k)
    BY <1>1, <1>3 DEF Using, PathsOf
  <2>3. IsFiniteSet(Using(s, e)) /\ Cardinality(Using(s, e)) \in Nat
    BY UsingFinite
  <2> HIDE DEF old
  <2>4. Cardinality(Using(t, e))
          = IF old \in Using(s, e) THEN Cardinality(Using(s, e)) - 1 ELSE Cardinality(Using(s, e))
    BY <2>1, <2>3, FS_RemoveElement
  <2>5. QED
    BY <2>2, <2>3, <2>4 DEF Ind
<1>6. QED
  BY <1>4, <1>5 DEF k

-----------------------------------------------------------------------------
(* References are counted, X being the next hops that hold one more than   *)
(* their results account for: what a call has taken and not yet stored, or *)
(* no longer stores and has not yet released.                              *)
Sound(s) == IsTables(s) /\ RoutesOK(s) /\ HopsOK(s) /\ NeighInv(s)
Counted(s, X) == \A e \in Encap : Count(s, e) = Cardinality(Using(s, e)) + Ind(e, X)

LEMMA RoutesSame ==
  ASSUME NEW s, NEW t, SameRoutes(s, t)
  PROVE  /\ RoutesOK(s) => RoutesOK(t)
         /\ \A e : Using(t, e) = Using(s, e)
         /\ \A k : PathsOf(t, k) = PathsOf(s, k)
<1>1. RoutesOK(s) => RoutesOK(t)
  <2>1. \A v : PrefixesOf(s, v) = PrefixesOf(t, v)
    BY DEF SameRoutes, PrefixesOf
  <2>2. QED
    BY <2>1 DEF RoutesOK, SameRoutes
<1>2. QED
  BY <1>1 DEF SameRoutes, Using, PathsOf

LEMMA NeighInvSame ==
  ASSUME NEW s, NEW t, NeighInv(s), SameHops(s, t), SameNeigh(s, t)
  PROVE  NeighInv(t)
<1>1. /\ HopEntries(t) /\ NeighBack(s, t) /\ t.neigh_oids \in 0 .. OidMax
      /\ DOMAIN t.nhop = DOMAIN s.nhop
  BY DEF NeighInv, HopEntries, NeighOK, NeighBack, SameHops, SameNeigh
<1>2. QED
  BY <1>1, NeighSame

(* The calls that fail leave no trace but used-up oids. *)
Undone(s, t) == SameRoutes(s, t) /\ t.nhop = s.nhop /\ NeighBack(s, t)

(* nhop_obj_delete gives one reference back. *)
LEMMA ReleaseOne ==
  ASSUME NEW s, Sound(s), NEW X, Counted(s, X), NEW v \in Vrf, NEW e \in EncapOf[v], e \in X, NEW pos
  PROVE  LET t == NhopDelete(s, v, e, pos)
         IN  /\ Sound(t) /\ Counted(t, X \ {e}) /\ SameRoutes(s, t)
             /\ Given(s, t, v, e) /\ Quiet(s, t, pos)
<1> DEFINE t == NhopDelete(s, v, e, pos)
<1>0. e \in Encap
  BY RouteAssumption
<1>1. \A x \in Encap : Cardinality(Using(s, x)) \in Nat /\ Cardinality(Using(s, x)) <= NrFibRes
  BY UsingFinite DEF Sound
<1>2. Count(s, e) > 0 /\ Count(s, e) < U32
  BY <1>0, <1>1, RouteAssumption DEF Counted, Ind
<1>3. e \in DOMAIN s.nhop /\ s.nhop[e].ref_count < U32
  BY <1>2 DEF Count
<1>4. /\ IsTables(t) /\ SameRoutes(s, t) /\ HopsOK(t) /\ NeighInv(t)
      /\ Given(s, t, v, e) /\ Quiet(s, t, pos)
      /\ \A x \in Encap : Count(t, x) = Count(s, x) - IF x = e THEN 1 ELSE 0
  BY <1>3, NhopDeleteKeeps DEF Sound
<1> HIDE DEF t
<1>5. RoutesOK(t) /\ \A x : Using(t, x) = Using(s, x)
  BY <1>4, RoutesSame DEF Sound
<1>6. Counted(t, X \ {e})
  BY <1>1, <1>4, <1>5 DEF Counted, Ind
<1>7. QED
  BY <1>4, <1>5, <1>6 DEF Sound, t

-----------------------------------------------------------------------------
(* The prefix calls: a refused one leaves the routes as they were.         *)

LEMMA PrefixUpdateIs ==
  ASSUME NEW s, IsTables(s), IsFcn(s.rib), NEW v, NEW p, NEW new, NEW f,
         PerVrf(s.rib_cnt), v \in Vrf,
         NEW old, <<v, p>> \in DOMAIN s.rib => old = s.rib[<<v, p>>] /\ old \in Nat,
         <<v, p>> \notin DOMAIN s.rib => old = -1
  PROVE  LET u == PrefixUpdate(s, v, p, old, new, f)
             k == <<v, p>>
         IN  /\ IsTables(u.dp) /\ SameHops(s, u.dp) /\ SameNeigh(s, u.dp)
             /\ u.dp.failed = s.failed /\ u.dp.res = s.res
             /\ u.ret # OK => SameRoutes(s, u.dp)
             /\ u.ret = OK => /\ u.dp.rib = Put(s.rib, k, new) /\ u.dp.fib = Put(s.fib, k, new)
                              /\ PerVrf(u.dp.rib_cnt)
                              /\ \A x \in Vrf : x # v => u.dp.rib_cnt[x] = s.rib_cnt[x]
                              /\ u.dp.rib_cnt[v] = IF k \in DOMAIN s.rib THEN s.rib_cnt[v]
                                                   ELSE s.rib_cnt[v] + 1
<1> DEFINE k == <<v, p>>
           s1 == [s EXCEPT !.rib = Put(@, k, new)]
           undone == [s1 EXCEPT !.rib = IF old < 0 THEN Del(@, k) ELSE Put(@, k, old)]
           u == PrefixUpdate(s, v, p, old, new, f)
<1>1. old < 0 <=> k \notin DOMAIN s.rib
  BY DEF RoutesOK
<1>2. /\ IsTables(s1) /\ SameHops(s, s1) /\ SameNeigh(s, s1) /\ s1.failed = s.failed
      /\ s1.res = s.res /\ s1.fib = s.fib /\ s1.rib_cnt = s.rib_cnt /\ s1.rib = Put(s.rib, k, new)
  BY DEF IsTables, SameHops, SameNeigh
<1> HIDE DEF s1
<1>3. (IF old < 0 THEN Del(s1.rib, k) ELSE Put(s1.rib, k, old)) = s.rib
  <2>1. CASE k \notin DOMAIN s.rib
    BY <1>1, <1>2, <2>1, PutUndone
  <2>2. CASE k \in DOMAIN s.rib
    <3>1. old = s.rib[k]
      BY <2>2
    <3>2. QED
      BY <1>1, <1>2, <2>2, <3>1, PutUndone
  <2>3. QED
    BY <2>1, <2>2
<1>4. /\ IsTables(undone) /\ SameHops(s, undone) /\ SameNeigh(s, undone)
      /\ undone.failed = s.failed /\ SameRoutes(s, undone)
  BY <1>2, <1>3 DEF IsTables, SameHops, SameNeigh, SameRoutes
<1> HIDE DEF undone
<1>5. CASE f = "rib"
  <2>1. u = Outcome(s, "PREFIX_NOSPACE")
    BY <1>5 DEF PrefixUpdate
  <2>2. u.dp = s /\ u.ret # OK
    BY <2>1 DEF Outcome, OK
  <2>3. QED
    BY <2>2 DEF SameHops, SameNeigh, SameRoutes
<1>6. CASE f = "fib"
  <2>1. u = Outcome(undone, "PREFIX_NOSPACE")
    BY <1>6 DEF PrefixUpdate, undone, s1
  <2>2. u.dp = undone /\ u.ret # OK
    BY <2>1 DEF Outcome, OK
  <2>3. QED
    BY <1>4, <2>2 DEF SameRoutes
<1>7. CASE f \notin {"rib", "fib"}
  <2> DEFINE t == [s1 EXCEPT !.fib = Put(@, k, new),
                             !.rib_cnt[v] = IF old < 0 THEN @ + 1 ELSE @]
  <2>1. u = Outcome(t, OK)
    BY <1>7 DEF PrefixUpdate, s1
  <2>2. u.dp = t /\ u.ret = OK
    BY <2>1 DEF Outcome
  <2>3. /\ IsTables(t) /\ SameHops(s, t) /\ SameNeigh(s, t) /\ t.failed = s.failed
        /\ t.res = s.res /\ t.rib = Put(s.rib, k, new) /\ t.fib = Put(s.fib, k, new)
        /\ t.rib_cnt = [s.rib_cnt EXCEPT ![v] = IF old < 0 THEN @ + 1 ELSE @]
    <3> DEFINE a == Put(s1.fib, k, new)
               c == [s1.rib_cnt EXCEPT ![v] = IF old < 0 THEN @ + 1 ELSE @]
    <3>1. t = [s1 EXCEPT !.fib = a, !.rib_cnt = c]
      OBVIOUS
    <3> HIDE DEF a, c, t
    <3>2. /\ IsTables(t) /\ SameHops(s1, t) /\ SameNeigh(s1, t) /\ t.failed = s1.failed
          /\ t.res = s1.res /\ t.rib = s1.rib /\ t.fib = a /\ t.rib_cnt = c
      BY <1>2, <3>1 DEF IsTables, SameHops, SameNeigh
    <3>3. QED
      BY <1>2, <3>2 DEF SameHops, SameNeigh, a, c
  <2> HIDE DEF t
  <2>4. /\ PerVrf(t.rib_cnt) /\ \A x \in Vrf : x # v => t.rib_cnt[x] = s.rib_cnt[x]
        /\ t.rib_cnt[v] = IF k \in DOMAIN s.rib THEN s.rib_cnt[v] ELSE s.rib_cnt[v] + 1
    BY <1>1, <2>3 DEF PerVrf, IsFcn
  <2> HIDE DEF u
  <2>5. QED
    BY <2>2, <2>3, <2>4 DEF u
<1>8. QED
  BY <1>5, <1>6, <1>7

LEMMA PrefixDeleteIs ==
  ASSUME NEW s, IsTables(s), RoutesOK(s), NEW v \in Vrf, NEW p, NEW line, NEW pos,
         <<v, p>> \in DOMAIN s.rib
  PROVE  LET t == ResDelete(PrefixDelete(s, v, p, line, pos), s.rib[<<v, p>>])
         IN  /\ IsTables(t) /\ SameHops(s, t) /\ SameNeigh(s, t) /\ Gone(s, t, v, p)
             /\ pos \in HashPos /\ line \in PositionAsserts =>
                  t.failed \subseteq s.failed \cup PositionAsserts
<1> DEFINE k == <<v, p>>
           at == DelKey(s.rib, k, pos.rib)
           s1 == [s EXCEPT !.fib = Del(@, k), !.rib = Del(@, k), !.rib_cnt[v] = @ - 1]
           s0 == Fails(s1, 667, k \in DOMAIN s.fib)
           s2 == Fails(s0, 669, 0 <= at)
           s3 == Fails(s2, 671, s1.rib_cnt[v] >= 0)
           s4 == Fails(s3, line, at = 0)
           t == ResDelete(s4, s.rib[k])
<1>1. /\ IsTables(s1) /\ SameHops(s, s1) /\ SameNeigh(s, s1) /\ s1.failed = s.failed
      /\ s1.rib = Del(s.rib, k) /\ s1.fib = s1.rib /\ s1.res = s.res
      /\ PerVrf(s1.rib_cnt) /\ \A x \in Vrf : x # v => s1.rib_cnt[x] = s.rib_cnt[x]
      /\ s1.rib_cnt[v] = s.rib_cnt[v] - 1
  <2> DEFINE a == Del(s.fib, k)
             b == Del(s.rib, k)
             c == [s.rib_cnt EXCEPT ![v] = @ - 1]
  <2>1. s1 = [s EXCEPT !.fib = a, !.rib = b, !.rib_cnt = c]
    OBVIOUS
  <2>2. a = b /\ PerVrf(c) /\ c[v] = s.rib_cnt[v] - 1
        /\ \A x \in Vrf : x # v => c[x] = s.rib_cnt[x]
    BY DEF RoutesOK, PerVrf, IsFcn
  <2> HIDE DEF a, b, c, s1
  <2>3. /\ IsTables(s1) /\ SameHops(s, s1) /\ SameNeigh(s, s1) /\ s1.failed = s.failed
        /\ s1.rib = b /\ s1.fib = a /\ s1.res = s.res /\ s1.rib_cnt = c
    BY <2>1 DEF IsTables, SameHops, SameNeigh
  <2>4. QED
    BY <2>2, <2>3 DEF b
<1>2. k \in DOMAIN s.fib
  BY DEF RoutesOK
<1> HIDE DEF s1, k
<1>12. pos \in HashPos => 0 <= at
  <2>1. k \in DOMAIN s.rib /\ k \in Key
    BY DEF RoutesOK, k
  <2>2. pos \in HashPos => pos.rib[k] \in Nat
    BY <2>1, PositionAssumption
  <2>3. QED
    BY <2>1, <2>2 DEF DelKey
<1> HIDE DEF at
<1>3. s0 = s1
  BY <1>2 DEF Fails
<1> HIDE DEF s0
<1> DEFINE Like(x) == /\ IsTables(x) /\ SameHops(s1, x) /\ SameNeigh(s1, x) /\ SameRoutes(s1, x)
<1>13. Like(s2) /\ (pos \in HashPos => s2.failed = s.failed)
  <2>1. CASE 0 <= at
    <3>1. s2 = s1
      BY <1>3, <2>1 DEF Fails
    <3>2. QED
      BY <1>1, <3>1 DEF SameHops, SameNeigh, SameRoutes
  <2>2. CASE ~(0 <= at)
    <3>1. s2 = Failed(s1, 669)
      BY <1>3, <2>2 DEF Fails, Failed
    <3>2. QED
      BY <1>1, <1>12, <2>2, <3>1, FailedKeeps
  <2>3. QED
    BY <2>1, <2>2
<1> HIDE DEF s2
<1>4. Like(s3) /\ (s1.rib_cnt[v] >= 0 => s3.failed = s2.failed)
  <2>1. CASE s1.rib_cnt[v] >= 0
    <3>1. s3 = s2
      BY <2>1 DEF Fails
    <3>2. QED
      BY <1>13, <3>1
  <2>2. CASE ~(s1.rib_cnt[v] >= 0)
    <3>1. s3 = Failed(s2, 671)
      BY <2>2 DEF Fails, Failed
    <3>2. QED
      BY <1>13, <2>2, <3>1, FailedKeeps DEF SameHops, SameNeigh, SameRoutes
  <2>3. QED
    BY <2>1, <2>2
<1> HIDE DEF s3
<1>5. Like(s4) /\ s4.failed \subseteq s3.failed \cup {line}
  <2>1. CASE at = 0
    <3>1. s4 = s3
      BY <2>1 DEF Fails
    <3>2. QED
      BY <1>4, <3>1
  <2>2. CASE at # 0
    <3>1. s4 = Failed(s3, line)
      BY <2>2 DEF Fails, Failed
    <3>2. QED
      BY <1>4, <3>1, FailedKeeps DEF SameHops, SameNeigh, SameRoutes
  <2>3. QED
    BY <2>1, <2>2
<1>6. t = ResDelete(PrefixDelete(s, v, p, line, pos), s.rib[k])
  BY DEF PrefixDelete, s0, s1, s2, s3, at, k
<1> HIDE DEF s4
<1>7. /\ IsTables(t) /\ SameHops(s4, t) /\ SameNeigh(s4, t) /\ t.rib = s4.rib /\ t.fib = s4.fib
      /\ t.rib_cnt = s4.rib_cnt /\ t.failed = s4.failed /\ t.res = Del(s4.res, s.rib[k])
  BY <1>5 DEF ResDelete, IsTables, SameHops, SameNeigh
<1> HIDE DEF t
<1>8. SameHops(s, t) /\ SameNeigh(s, t)
  BY <1>1, <1>5, <1>7 DEF SameHops, SameNeigh
<1>9. Gone(s, t, v, p)
  BY <1>1, <1>5, <1>7 DEF Gone, SameRoutes, k
<1>10. s1.rib_cnt[v] >= 0
  <2>1. Cardinality(PrefixesOf(s, v)) \in Nat \ {0}
    <3>1. PrefixesOf(s, v) \subseteq Prefix
      BY DEF PrefixesOf
    <3>2. p \in PrefixesOf(s, v)
      BY DEF PrefixesOf, RoutesOK, Key
    <3>3. QED
      BY <3>1, <3>2, FS_Subset, FS_CardinalityType, FS_EmptySet, RouteAssumption
  <2>2. QED
    BY <1>1, <2>1 DEF RoutesOK
<1>11. pos \in HashPos /\ line \in PositionAsserts => t.failed \subseteq s.failed \cup PositionAsserts
  BY <1>4, <1>5, <1>7, <1>10, <1>13
<1>14. QED
  BY <1>6, <1>7, <1>8, <1>9, <1>11 DEF k

-----------------------------------------------------------------------------
(* The calls keep the tables consistent.                                   *)

Consistent(s) == Sound(s) /\ Counted(s, {})

LEMMA FreeResIs ==
  ASSUME NEW s, FreeRes(s) # {}
  PROVE  Min(FreeRes(s)) \in 0 .. NrFibRes /\ Min(FreeRes(s)) \notin DOMAIN s.res
<1>1. FreeRes(s) \in SUBSET Nat
  BY RouteAssumption DEF FreeRes
<1>2. Min(FreeRes(s)) \in FreeRes(s)
  BY <1>1, MinIn
<1>3. QED
  BY <1>2 DEF FreeRes

LEMMA NewResIs ==
  ASSUME NEW paths, NEW flags, NEW t
  PROVE  LET r == NewRes(paths, flags, t)
         IN  /\ r.mpath = paths /\ r.mpath_max = MaxOf(RType(r))
             /\ t \in {"RT_DEFAULT", "RT_MROUTE"} => RType(r) = t
BY DEF NewRes, RType, MaxOf

(* The route <<v, p>> of s with e among its next hops, in a new result. *)
Added(s, t, v, p, e, type) ==
  LET k == <<v, p>>
      old == s.res[s.rib[k]]
      r == IF k \in DOMAIN s.rib THEN NewRes(Append(old.mpath, e), old.flags, type)
           ELSE NewRes(<<e>>, {}, type)
  IN \E new \in 0 .. NrFibRes : new \notin DOMAIN s.res /\ Switched(s, t, v, p, new, r)

LEMMA AddedPaths ==
  ASSUME NEW s, RoutesOK(s), NEW v \in Vrf, NEW p \in Prefix, NEW e \in EncapOf[v],
         e \notin PathsOf(s, <<v, p>>),
         NEW paths,
         <<v, p>> \in DOMAIN s.rib => paths = Append(s.res[s.rib[<<v, p>>]].mpath, e),
         <<v, p>> \notin DOMAIN s.rib => paths = <<e>>
  PROVE  IsListOf(paths, EncapOf[v]) /\ ToSet(paths) = PathsOf(s, <<v, p>>) \cup {e}
<1> DEFINE k == <<v, p>>
<1>1. CASE k \in DOMAIN s.rib
  <2> DEFINE l == s.res[s.rib[k]].mpath
  <2>1. k[1] = v
    OBVIOUS
  <2>2. IsListOf(l, EncapOf[v]) /\ PathsOf(s, k) = ToSet(l) /\ paths = Append(l, e)
    BY <1>1, <2>1 DEF RoutesOK, PathsOf
  <2>3. e \notin ToSet(l)
    BY <2>2
  <2> HIDE DEF l
  <2>4. IsListOf(Append(l, e), EncapOf[v]) /\ ToSet(Append(l, e)) = ToSet(l) \cup {e}
    BY <2>2, <2>3, ListAppend
  <2>5. QED
    BY <2>2, <2>4
<1>2. CASE k \notin DOMAIN s.rib
  <2>1. PathsOf(s, k) = {} /\ paths = <<e>>
    BY <1>2 DEF PathsOf
  <2>2. Append(<<>>, e) = <<e>>
    OBVIOUS
  <2>3. IsListOf(Append(<<>>, e), EncapOf[v]) /\ ToSet(Append(<<>>, e)) = {} \cup {e}
    BY EmptyIsList, ListAppend
  <2>4. QED
    BY <2>1, <2>2, <2>3
<1>3. QED
  BY <1>1, <1>2

LEMMA InsertIntoKeeps ==
  ASSUME NEW s, Consistent(s), NEW v \in Vrf, NEW p \in Prefix, NEW e \in EncapOf[v],
         NEW type, NEW f, NEW pos, e \notin PathsOf(s, <<v, p>>)
  PROVE  LET o == InsertInto(s, v, p, e, type, f, pos)
         IN  /\ Consistent(o.dp)
             /\ SameRoutes(s, o.dp) \/ (o.ret = OK /\ Added(s, o.dp, v, p, e, type))
             /\ Quiet(s, o.dp, pos) /\ (o.ret # OK => Undone(s, o.dp))
<1> DEFINE k == <<v, p>>
           exists == k \in DOMAIN s.rib
           old == IF exists THEN s.rib[k] ELSE -1
           c == NhopCreate(s, v, e, f)
           paths == IF exists THEN Append(s.res[old].mpath, e) ELSE <<e>>
           new == Min(FreeRes(c.dp))
           r == NewRes(paths, IF exists THEN s.res[old].flags ELSE {}, type)
           s2 == [c.dp EXCEPT !.res = Put(@, new, r)]
           u == PrefixUpdate(s2, v, p, old, new, f)
           o == InsertInto(s, v, p, e, type, f, pos)
<1>0. e \in Encap
  BY RouteAssumption
<1>1. /\ IsTables(c.dp) /\ SameRoutes(s, c.dp) /\ c.dp.failed = s.failed /\ NeighInv(c.dp)
      /\ c.ret # OK => c.dp.nhop = s.nhop /\ NeighBack(s, c.dp)
      /\ c.ret = OK => /\ HopsOK(c.dp) /\ (Shared(s, c.dp, e) \/ Taken(s, c.dp, v, e, f))
                       /\ \A x \in Encap : Count(c.dp, x) = Count(s, x) + IF x = e THEN 1 ELSE 0
  BY <1>0, NhopCreateKeeps DEF Consistent, Sound
<1> HIDE DEF c
<1>2. RoutesOK(c.dp) /\ (\A x : Using(c.dp, x) = Using(s, x)) /\ PathsOf(c.dp, k) = PathsOf(s, k)
  BY <1>1, RoutesSame DEF Consistent, Sound
<1>3. CASE c.ret # OK
  <2>1. o = c
    BY <1>3 DEF InsertInto, c
  <2>2. HopsOK(c.dp) /\ \A x : Count(c.dp, x) = Count(s, x)
    BY <1>1, <1>3 DEF HopsOK, Count, Consistent, Sound
  <2>3. Consistent(c.dp)
    BY <1>1, <1>2, <2>2 DEF Consistent, Sound, Counted
  <2>4. Quiet(s, c.dp, pos) /\ Undone(s, c.dp)
    BY <1>1, <1>3 DEF Quiet, Undone
  <2>5. QED
    BY <1>1, <2>1, <2>3, <2>4
<1>4. CASE c.ret = OK
  <2>0. HopsOK(s) /\ NeighInv(s) /\ Count(s, e) < U32
    <3>1. Cardinality(Using(s, e)) \in Nat /\ Cardinality(Using(s, e)) <= NrFibRes
      BY UsingFinite DEF Consistent, Sound
    <3>2. Count(s, e) = Cardinality(Using(s, e)) + 0
      BY <1>0 DEF Consistent, Counted, Ind
    <3>3. QED
      BY <3>1, <3>2, RouteAssumption DEF Consistent, Sound
  <2>1. Sound(c.dp) /\ Counted(c.dp, {e})
    <3>1. \A x \in Encap : Cardinality(Using(s, x)) \in Nat
      BY UsingFinite DEF Consistent, Sound
    <3>2. \A x \in Encap : Count(s, x) = Cardinality(Using(s, x)) + 0
      BY DEF Consistent, Counted, Ind
    <3>3. Counted(c.dp, {e})
      BY <1>1, <1>2, <1>4, <3>1, <3>2 DEF Counted, Ind
    <3>4. QED
      BY <1>1, <1>2, <1>4, <3>3 DEF Sound
  <2>2. CASE FreeRes(c.dp) = {}
    <3>1. o = Outcome(NhopDelete(c.dp, v, e, pos), "RESULT_NOSPACE")
      BY <1>4, <2>2 DEF InsertInto, c
    <3>2. o.dp = NhopDelete(c.dp, v, e, pos) /\ o.ret # OK /\ {e} \ {e} = {}
      BY <3>1 DEF Outcome, OK
    <3> DEFINE d == c.dp
               t == o.dp
    <3>3. /\ Sound(t) /\ Counted(t, {e} \ {e}) /\ SameRoutes(d, t)
          /\ Given(d, t, v, e) /\ Quiet(d, t, pos)
      BY <2>1, <3>2, ReleaseOne
    <3>4. Shared(s, d, e) \/ Taken(s, d, v, e, f)
      BY <1>1, <1>4
    <3>5. d.failed = s.failed /\ SameRoutes(s, d)
      BY <1>1
    <3> HIDE DEF d, t
    <3>6. t.nhop = s.nhop /\ NeighBack(s, t)
      BY <2>0, <3>3, <3>4, NhopUndone
    <3>7. Undone(s, t) /\ Quiet(s, t, pos)
      BY <3>3, <3>5, <3>6 DEF Undone, Quiet, SameRoutes
    <3>8. Consistent(t)
      BY <3>2, <3>3 DEF Consistent
    <3>9. QED
      BY <3>2, <3>7, <3>8 DEF Undone, t
  <2>3. CASE FreeRes(c.dp) # {}
    <3>1. new \in 0 .. NrFibRes /\ new \notin DOMAIN c.dp.res
      BY <2>3, FreeResIs
    <3>2. /\ IsTables(s2) /\ SameHops(c.dp, s2) /\ s2.rib = c.dp.rib /\ s2.fib = c.dp.fib
          /\ s2.rib_cnt = c.dp.rib_cnt /\ s2.res = Put(c.dp.res, new, r)
          /\ SameNeigh(c.dp, s2) /\ s2.failed = c.dp.failed
      BY <1>1 DEF IsTables, SameHops, SameNeigh
    <3>3. /\ IsFcn(s2.rib) /\ PerVrf(s2.rib_cnt)
          /\ k \in DOMAIN s2.rib => old = s2.rib[k] /\ old \in Nat
          /\ k \notin DOMAIN s2.rib => old = -1
      BY <1>1, <1>2, <3>2, RouteAssumption DEF RoutesOK, SameRoutes
    <3>4. o = IF u.ret # OK
              THEN Outcome(NhopDelete(ResDelete(u.dp, new), v, e, pos), u.ret)
              ELSE Outcome(IF exists THEN ResDelete(u.dp, old) ELSE u.dp, OK)
      BY <1>4, <2>3 DEF InsertInto, c
    <3>5. ToSet(paths) = PathsOf(s, k) \cup {e} /\ IsListOf(paths, EncapOf[v]) /\ r.mpath = paths
          /\ r.mpath_max = MaxOf(RType(r))
      <4>1. /\ k \in DOMAIN s.rib => paths = Append(s.res[s.rib[k]].mpath, e)
            /\ k \notin DOMAIN s.rib => paths = <<e>>
        OBVIOUS
      <4>2. r.mpath = paths /\ r.mpath_max = MaxOf(RType(r))
        BY NewResIs
      <4>3. RoutesOK(s)
        BY DEF Consistent, Sound
      <4> HIDE DEF paths, r, u, s2, o, new, old
      <4>4. IsListOf(paths, EncapOf[v]) /\ ToSet(paths) = PathsOf(s, <<v, p>>) \cup {e}
        BY <4>1, <4>3, AddedPaths
      <4>5. QED
        BY <4>2, <4>4
    <3> HIDE DEF s2, new, r, old, o
    <3>6. /\ IsTables(u.dp) /\ SameHops(s2, u.dp) /\ u.dp.res = s2.res
          /\ SameNeigh(s2, u.dp) /\ u.dp.failed = s2.failed
          /\ u.ret # OK => SameRoutes(s2, u.dp)
          /\ u.ret = OK => /\ u.dp.rib = Put(s2.rib, k, new) /\ u.dp.fib = Put(s2.fib, k, new)
                           /\ PerVrf(u.dp.rib_cnt)
                           /\ \A x \in Vrf : x # v => u.dp.rib_cnt[x] = s2.rib_cnt[x]
                           /\ u.dp.rib_cnt[v] = IF k \in DOMAIN s2.rib THEN s2.rib_cnt[v]
                                                ELSE s2.rib_cnt[v] + 1
      BY <3>2, <3>3, PrefixUpdateIs
    <3> HIDE DEF u
    <3>7. CASE u.ret # OK
      <4> DEFINE t0 == ResDelete(u.dp, new)
      <4>1. Del(s2.res, new) = c.dp.res
        BY <1>2, <3>1, <3>2, PutUndone DEF RoutesOK
      <4>2. /\ IsTables(t0) /\ SameRoutes(c.dp, t0) /\ SameHops(c.dp, t0)
            /\ SameNeigh(c.dp, t0) /\ t0.failed = c.dp.failed
        <5>1. /\ IsTables(t0) /\ t0.res = Del(u.dp.res, new) /\ t0.rib = u.dp.rib
              /\ t0.fib = u.dp.fib /\ t0.rib_cnt = u.dp.rib_cnt /\ SameHops(u.dp, t0)
              /\ SameNeigh(u.dp, t0) /\ t0.failed = u.dp.failed
          BY <3>6 DEF ResDelete, IsTables, SameHops, SameNeigh
        <5>2. QED
          BY <3>2, <3>6, <3>7, <4>1, <5>1 DEF SameRoutes, SameHops, SameNeigh
      <4>3. o.dp = NhopDelete(t0, v, e, pos) /\ o.ret # OK
        BY <3>4, <3>7 DEF Outcome
      <4> HIDE DEF t0
      <4>4. RoutesOK(t0) /\ \A x : Using(t0, x) = Using(c.dp, x)
        BY <1>2, <4>2, RoutesSame
      <4>5. HopsOK(t0) /\ \A x : Count(t0, x) = Count(c.dp, x)
        BY <2>1, <4>2 DEF HopsOK, Count, Sound, SameHops
      <4>6. Sound(t0) /\ Counted(t0, {e})
        BY <1>1, <2>1, <4>2, <4>4, <4>5, NeighInvSame DEF Sound, Counted
      <4> DEFINE t == o.dp
      <4>7. /\ Sound(t) /\ Counted(t, {e} \ {e}) /\ SameRoutes(t0, t)
            /\ Given(t0, t, v, e) /\ Quiet(t0, t, pos)
        BY <4>3, <4>6, ReleaseOne
      <4>8. {e} \ {e} = {}
        OBVIOUS
      <4>9. Shared(s, t0, e) \/ Taken(s, t0, v, e, f)
        <5>1. CASE Shared(s, c.dp, e)
          BY <4>2, <5>1 DEF Shared, SameHops, SameNeigh
        <5>2. CASE Taken(s, c.dp, v, e, f)
          BY <4>2, <5>2 DEF Taken, SameHops, SameNeigh
        <5>3. QED
          BY <1>1, <1>4, <5>1, <5>2
      <4> HIDE DEF t
      <4>10. t.nhop = s.nhop /\ NeighBack(s, t)
        BY <2>0, <4>7, <4>9, NhopUndone
      <4>11. Undone(s, t) /\ Quiet(s, t, pos)
        BY <1>1, <4>2, <4>7, <4>10 DEF Undone, Quiet, SameRoutes
      <4>12. Consistent(t)
        BY <4>7, <4>8 DEF Consistent
      <4>13. QED
        BY <4>3, <4>11, <4>12 DEF Undone, t, o
    <3>8. CASE u.ret = OK
      <4> DEFINE t0 == IF exists THEN ResDelete(u.dp, old) ELSE u.dp
      <4>1. o.dp = t0 /\ o.ret = OK
        BY <3>4, <3>8 DEF Outcome
      <4>2. /\ IsTables(t0) /\ SameHops(c.dp, t0) /\ t0.rib = u.dp.rib /\ t0.fib = u.dp.fib
            /\ t0.rib_cnt = u.dp.rib_cnt
            /\ t0.res = IF exists THEN Del(u.dp.res, old) ELSE u.dp.res
            /\ SameNeigh(c.dp, t0) /\ t0.failed = c.dp.failed
        BY <3>2, <3>6 DEF ResDelete, IsTables, SameHops, SameNeigh
      <4> HIDE DEF t0, k
      <4>3. exists => old = s.rib[k]
        BY DEF old
      <4>4. Switched(c.dp, t0, v, p, new, r) /\ Switched(s, t0, v, p, new, r)
        <5>1. s2.rib = s.rib /\ s2.fib = s.rib /\ s2.rib_cnt = s.rib_cnt /\ s2.res = Put(s.res, new, r)
          BY <1>1, <3>2 DEF SameRoutes, Consistent, Sound, RoutesOK
        <5>2. Switched(s, t0, v, p, new, r)
          BY <3>6, <3>8, <4>2, <4>3, <5>1 DEF Switched, k
        <5>3. QED
          BY <1>1, <5>2 DEF Switched, SameRoutes
      <4>5. /\ RoutesOK(t0)
            /\ \A x \in Encap : Cardinality(Using(t0, x)) = Cardinality(Using(c.dp, x))
                                  - Ind(x, PathsOf(c.dp, k)) + Ind(x, ToSet(paths))
        <5>1. IsListOf(r.mpath, EncapOf[v]) /\ r.mpath = paths /\ r.mpath_max = MaxOf(RType(r))
          BY <3>5
        <5>2. /\ RoutesOK(t0)
              /\ \A x \in Encap : Cardinality(Using(t0, x)) = Cardinality(Using(c.dp, x))
                                    - Ind(x, PathsOf(c.dp, <<v, p>>)) + Ind(x, ToSet(r.mpath))
          BY <1>2, <3>1, <4>4, <5>1, SwitchKeeps
        <5>3. QED
          BY <5>1, <5>2 DEF k
      <4>6. HopsOK(t0) /\ \A x : Count(t0, x) = Count(c.dp, x)
        BY <2>1, <4>2 DEF HopsOK, Count, Sound, SameHops
      <4>7. Counted(t0, {})
        <5>1. \A x \in Encap : Cardinality(Using(c.dp, x)) \in Nat
          BY <1>2, UsingFinite
        <5>2. ASSUME NEW x \in Encap
              PROVE  Ind(x, ToSet(paths)) = Ind(x, PathsOf(c.dp, k)) + Ind(x, {e})
          BY <1>2, <3>5 DEF Ind, k
        <5>3. \A x : Ind(x, {}) = 0 /\ Ind(x, PathsOf(c.dp, k)) \in Int /\ Ind(x, {e}) \in Int
          BY DEF Ind
        <5> HIDE DEF paths
        <5>4. ASSUME NEW x \in Encap
              PROVE  Count(t0, x) = Cardinality(Using(t0, x)) + Ind(x, {})
          <6>1. Count(t0, x) = Cardinality(Using(c.dp, x)) + Ind(x, {e})
            BY <2>1, <4>6 DEF Counted
          <6>2. Cardinality(Using(t0, x)) = Cardinality(Using(c.dp, x)) + Ind(x, {e})
            <7>1. /\ Cardinality(Using(t0, x)) = Cardinality(Using(c.dp, x))
                                  - Ind(x, PathsOf(c.dp, k)) + Ind(x, ToSet(paths))
                  /\ Ind(x, ToSet(paths)) = Ind(x, PathsOf(c.dp, k)) + Ind(x, {e})
                  /\ Cardinality(Using(c.dp, x)) \in Nat
                  /\ Ind(x, PathsOf(c.dp, k)) \in Int /\ Ind(x, {e}) \in Int
              BY <4>5, <5>1, <5>2, <5>3
            <7>2. QED
              BY <7>1
          <6>3. Ind(x, {}) = 0 /\ Cardinality(Using(c.dp, x)) \in Nat /\ Ind(x, {e}) \in Int
            BY <5>1, <5>3
          <6>4. QED
            BY <6>1, <6>2, <6>3
        <5>5. QED
          BY <5>4 DEF Counted
      <4>8. Consistent(t0)
        BY <1>1, <4>2, <4>5, <4>6, <4>7, NeighInvSame DEF Consistent, Sound
      <4>9. new \notin DOMAIN s.res
        BY <1>1, <3>1 DEF SameRoutes
      <4>10. r = IF k \in DOMAIN s.rib
                 THEN NewRes(Append(s.res[s.rib[k]].mpath, e), s.res[s.rib[k]].flags, type)
                 ELSE NewRes(<<e>>, {}, type)
        BY DEF r, old
      <4>11. Added(s, t0, v, p, e, type)
        BY <3>1, <4>4, <4>9, <4>10 DEF Added, k
      <4>12. Quiet(s, t0, pos)
        BY <1>1, <4>2 DEF Quiet
      <4>13. QED
        BY <4>1, <4>8, <4>11, <4>12 DEF o
    <3>9. QED
      BY <3>7, <3>8
  <2>4. QED
    BY <2>2, <2>3
<1>5. QED
  BY <1>3, <1>4

(* A route takes another next hop of its own type while it has room. *)
Admits(s, v, p, e, type) ==
  /\ e \notin PathsOf(s, <<v, p>>)
  /\ <<v, p>> \in DOMAIN s.rib => LET r == s.res[s.rib[<<v, p>>]]
                                 IN  RType(r) = type /\ Len(r.mpath) < MaxOf(type)

LEMMA InsertIs ==
  ASSUME NEW s, Consistent(s), NEW v \in Vrf, NEW p \in Prefix, NEW e \in EncapOf[v],
         NEW type, NEW f, NEW pos
  PROVE  LET o == Insert(s, v, p, e, type, f, pos)
         IN  o.dp = s \/ (Admits(s, v, p, e, type) /\ o = InsertInto(s, v, p, e, type, f, pos))
<1> DEFINE k == <<v, p>>
           exists == k \in DOMAIN s.rib
           r == s.res[s.rib[k]]
           o == Insert(s, v, p, e, type, f, pos)
<1>1. CASE exists /\ RType(r) # type
  BY <1>1 DEF Insert, Outcome
<1>2. CASE exists /\ RType(r) = type /\ Len(r.mpath) >= r.mpath_max
  BY <1>2 DEF Insert, Outcome
<1>3. CASE /\ exists /\ RType(r) = type /\ ~(Len(r.mpath) >= r.mpath_max)
           /\ Len(r.mpath) < r.mpath_max
           /\ \E x \in ToSet(r.mpath) : SameNhop(x, e)
  BY <1>3 DEF Insert, Outcome
<1>4. CASE /\ ~(exists /\ RType(r) # type)
           /\ ~(exists /\ RType(r) = type /\ Len(r.mpath) >= r.mpath_max)
           /\ ~(exists /\ RType(r) = type /\ Len(r.mpath) < r.mpath_max
                 /\ \E x \in ToSet(r.mpath) : SameNhop(x, e))
  <2>1. o = InsertInto(s, v, p, e, type, f, pos)
    BY <1>4 DEF Insert
  <2>2. exists => Len(r.mpath) \in Int /\ r.mpath_max \in Int
    BY LenProperties, RouteAssumption DEF Consistent, Sound, RoutesOK, IsListOf, MaxOf
  <2>3. SameNhop(e, e)
    BY DEF SameNhop
  <2>4. e \notin PathsOf(s, k)
    BY <1>4, <2>2, <2>3 DEF PathsOf
  <2>5. exists => RType(r) = type /\ Len(r.mpath) < MaxOf(type)
    BY <1>4, <2>2 DEF Consistent, Sound, RoutesOK
  <2>6. QED
    BY <2>1, <2>4, <2>5 DEF Admits
<1>5. QED
  BY <1>1, <1>2, <1>3, <1>4

LEMMA InsertKeeps ==
  ASSUME NEW s, Consistent(s), NEW v \in Vrf, NEW p \in Prefix, NEW e \in EncapOf[v],
         NEW type, NEW f, NEW pos
  PROVE  LET o == Insert(s, v, p, e, type, f, pos)
         IN  /\ Consistent(o.dp)
             /\ \/ SameRoutes(s, o.dp)
                \/ /\ o.ret = OK /\ Added(s, o.dp, v, p, e, type)
                   /\ Admits(s, v, p, e, type)
             /\ Quiet(s, o.dp, pos) /\ (o.ret # OK => Undone(s, o.dp))
<1> DEFINE o == Insert(s, v, p, e, type, f, pos)
<1>1. o.dp = s \/ (Admits(s, v, p, e, type) /\ o = InsertInto(s, v, p, e, type, f, pos))
  BY InsertIs
<1>2. CASE o.dp = s
  BY <1>2 DEF SameRoutes, Quiet, Undone, NeighBack
<1>3. CASE Admits(s, v, p, e, type) /\ o = InsertInto(s, v, p, e, type, f, pos)
  BY <1>3, InsertIntoKeeps DEF Admits
<1>4. QED
  BY <1>1, <1>2, <1>3

(* The route <<v, p>> of s without e among its next hops, in a new result. *)
Removed(s, t, v, p, e, type) ==
  LET old == s.res[s.rib[<<v, p>>]]
  IN \E new \in 0 .. NrFibRes :
       /\ new \notin DOMAIN s.res
       /\ Switched(s, t, v, p, new, NewRes(RemoveFirst(old.mpath, e), old.flags, type))

LEMMA DeleteNhopKeeps ==
  ASSUME NEW s, Consistent(s), NEW v \in Vrf, NEW p \in Prefix, NEW e \in EncapOf[v],
         NEW type, NEW f, NEW pos
  PROVE  LET o == DeleteNhop(s, v, p, e, type, f, pos)
             k == <<v, p>>
             r == s.res[s.rib[k]]
         IN  /\ Consistent(o.dp)
             /\ \/ SameRoutes(s, o.dp)
                \/ /\ o.ret = OK /\ k \in DOMAIN s.rib /\ RType(r) = type /\ e \in ToSet(r.mpath)
                   /\ \/ Len(r.mpath) = 1 /\ Gone(s, o.dp, v, p)
                      \/ Len(r.mpath) > 1 /\ Removed(s, o.dp, v, p, e, type)
             /\ Quiet(s, o.dp, pos) /\ (o.ret # OK => Undone(s, o.dp))
<1> DEFINE k == <<v, p>>
           id == s.rib[k]
           r == s.res[id]
           t1 == ResDelete(PrefixDelete(s, v, p, 723, pos), id)
           gone == NhopDelete(t1, v, e, pos)
           new == Min(FreeRes(s))
           found == e \in DOMAIN s.nhop /\ e \in ToSet(r.mpath)
           rest == RemoveFirst(r.mpath, e)
           n == NewRes(rest, r.flags, type)
           s2 == [s EXCEPT !.res = Put(@, new, n)]
           u == PrefixUpdate(s2, v, p, id, new, f)
           o == DeleteNhop(s, v, p, e, type, f, pos)
           here == k \in DOMAIN s.rib /\ RType(r) = type /\ found
<1>0. e \in Encap /\ Sound(s) /\ RoutesOK(s) /\ k[1] = v
  BY RouteAssumption DEF Consistent, Sound
<1>1. CASE ~here
  <2>1. o.dp = s
    <3>1. CASE k \notin DOMAIN s.rib
      BY <3>1 DEF DeleteNhop, Outcome
    <3>2. CASE k \in DOMAIN s.rib /\ RType(r) # type
      BY <3>2 DEF DeleteNhop, Outcome
    <3>3. CASE k \in DOMAIN s.rib /\ RType(r) = type /\ ~found
      BY <3>3 DEF DeleteNhop, Outcome
    <3>4. QED
      BY <1>1, <3>1, <3>2, <3>3
  <2>2. QED
    BY <2>1 DEF SameRoutes, Quiet, Undone, NeighBack
<1>2. CASE here
  <2>0. IsListOf(r.mpath, EncapOf[v]) /\ e \in ToSet(r.mpath) /\ PathsOf(s, k) = ToSet(r.mpath)
    BY <1>0, <1>2 DEF RoutesOK, PathsOf
  <2>1. /\ Cardinality(ToSet(r.mpath)) = Len(r.mpath)
        /\ (Len(r.mpath) = 1 /\ ~(Len(r.mpath) > 1)) \/ (Len(r.mpath) > 1 /\ Len(r.mpath) # 1)
    <3> DEFINE l == r.mpath
    <3>1. IsListOf(l, EncapOf[v]) /\ e \in ToSet(l)
      BY <2>0
    <3> HIDE DEF l
    <3>2. Len(l) \in Nat /\ Cardinality(ToSet(l)) = Len(l) /\ Len(l) # 0
      BY <3>1, LenProperties, FS_EmptySet DEF IsListOf
    <3>3. Cardinality(ToSet(l)) = Len(l) 
          /\ ((Len(l) = 1 /\ ~(Len(l) > 1)) \/ (Len(l) > 1 /\ Len(l) # 1))
      BY <3>2
    <3>4. QED
      BY <3>3 DEF l
  <2>2. CASE Len(r.mpath) = 1
    <3>1. o = Outcome(gone, OK)
      BY <1>2, <2>2 DEF DeleteNhop
    <3>2. /\ IsTables(t1) /\ SameHops(s, t1) /\ SameNeigh(s, t1) /\ Gone(s, t1, v, p)
          /\ pos \in HashPos => t1.failed \subseteq s.failed \cup PositionAsserts
      BY <1>0, <1>2, PrefixDeleteIs DEF Sound, PositionAsserts
    <3>3. o.dp = NhopDelete(t1, v, e, pos) /\ o.ret = OK
      BY <3>1 DEF Outcome
    <3> HIDE DEF t1, o
    <3>4. /\ RoutesOK(t1)
          /\ \A x \in Encap : Cardinality(Using(t1, x)) = Cardinality(Using(s, x)) - Ind(x, PathsOf(s, k))
      BY <1>0, <3>2, GoneKeeps
    <3>5. HopsOK(t1) /\ \A x : Count(t1, x) = Count(s, x)
      BY <1>0, <3>2 DEF HopsOK, Count, Sound, SameHops
    <3>6. PathsOf(s, k) = {e}
      <4>1. \E a : ToSet(r.mpath) = {a}
        BY <2>0, <2>1, <2>2, FS_Singleton DEF IsListOf
      <4>2. QED
        BY <2>0, <4>1
    <3>7. Counted(t1, {e})
      <4>1. ASSUME NEW x \in Encap
            PROVE  Count(t1, x) = Cardinality(Using(t1, x)) + Ind(x, {e})
        <5>1. Cardinality(Using(s, x)) \in Nat /\ Count(s, x) = Cardinality(Using(s, x))
          BY <1>0, UsingFinite DEF Consistent, Counted, Ind
        <5>2. Cardinality(Using(t1, x)) = Cardinality(Using(s, x)) - Ind(x, {e})
          BY <3>4, <3>6
        <5>3. Ind(x, {e}) \in Int
          BY DEF Ind
        <5>4. QED
          BY <3>5, <5>1, <5>2, <5>3
      <4>2. QED
        BY <4>1 DEF Counted
    <3>11. Sound(t1)
      BY <1>0, <3>2, <3>4, <3>5, NeighInvSame DEF Sound
    <3>8. /\ Sound(o.dp) /\ Counted(o.dp, {e} \ {e}) /\ SameRoutes(t1, o.dp)
          /\ Quiet(t1, o.dp, pos)
      BY <3>3, <3>7, <3>11, ReleaseOne
    <3>9. {e} \ {e} = {} /\ Gone(s, o.dp, v, p) /\ Quiet(s, o.dp, pos)
      BY <3>2, <3>8 DEF Gone, SameRoutes, Quiet
    <3>10. QED
      BY <1>2, <2>2, <3>3, <3>8, <3>9 DEF Consistent, o
  <2>3. CASE Len(r.mpath) > 1 /\ FreeRes(s) = {}
    <3>1. o = Outcome(s, "RESULT_NOSPACE")
      BY <1>2, <2>1, <2>3 DEF DeleteNhop
    <3>2. o.dp = s
      BY <3>1 DEF Outcome
    <3>3. QED
      BY <3>2 DEF SameRoutes, Quiet, Undone, NeighBack
  <2>4. CASE Len(r.mpath) > 1 /\ FreeRes(s) # {}
    <3>1. new \in 0 .. NrFibRes /\ new \notin DOMAIN s.res
      BY <2>4, FreeResIs
    <3>2. /\ IsTables(s2) /\ SameHops(s, s2) /\ s2.rib = s.rib /\ s2.fib = s.fib
          /\ s2.rib_cnt = s.rib_cnt /\ s2.res = Put(s.res, new, n)
          /\ SameNeigh(s, s2) /\ s2.failed = s.failed
      BY <1>0 DEF IsTables, SameHops, SameNeigh, Sound
    <3>3. /\ IsFcn(s2.rib) /\ PerVrf(s2.rib_cnt)
          /\ k \in DOMAIN s2.rib => id = s2.rib[k] /\ id \in Nat
          /\ k \in DOMAIN s2.rib /\ (k \notin DOMAIN s2.rib => id = -1)
      BY <1>0, <1>2, <3>2, RouteAssumption DEF RoutesOK
    <3>4. o = IF u.ret # OK THEN Outcome(ResDelete(u.dp, new), u.ret)
              ELSE Outcome(NhopDelete(ResDelete(u.dp, id), v, e, pos), OK)
      <4>1. k \in DOMAIN s.rib /\ RType(r) = type /\ found /\ Len(r.mpath) # 1
        <5>1. Len(r.mpath) # 1
          BY <2>1, <2>4, Zenon
        <5>2. QED
          BY <1>2, <5>1
      <4>2. QED
        BY <2>4, <4>1, Zenon DEF DeleteNhop
    <3>5. /\ ToSet(rest) = PathsOf(s, k) \ {e} /\ IsListOf(rest, EncapOf[v])
          /\ n.mpath = rest /\ n.mpath_max = MaxOf(RType(n))
      BY <2>0, ListRemove, NewResIs
    <3> HIDE DEF s2, new, n, id, o
    <3>6. /\ IsTables(u.dp) /\ SameHops(s2, u.dp) /\ u.dp.res = s2.res
          /\ SameNeigh(s2, u.dp) /\ u.dp.failed = s2.failed
          /\ u.ret # OK => SameRoutes(s2, u.dp)
          /\ u.ret = OK => /\ u.dp.rib = Put(s2.rib, k, new) /\ u.dp.fib = Put(s2.fib, k, new)
                           /\ PerVrf(u.dp.rib_cnt)
                           /\ \A x \in Vrf : x # v => u.dp.rib_cnt[x] = s2.rib_cnt[x]
                           /\ u.dp.rib_cnt[v] = IF k \in DOMAIN s2.rib THEN s2.rib_cnt[v]
                                                ELSE s2.rib_cnt[v] + 1
      BY <3>2, <3>3, PrefixUpdateIs
    <3> HIDE DEF u
    <3>7. CASE u.ret # OK
      <4>1. Del(s2.res, new) = s.res
        BY <1>0, <3>1, <3>2, PutUndone DEF RoutesOK
      <4>2. o.dp = ResDelete(u.dp, new)
        BY <3>4, <3>7 DEF Outcome
      <4>3. /\ IsTables(o.dp) /\ SameRoutes(s, o.dp) /\ SameHops(s, o.dp)
            /\ SameNeigh(s, o.dp) /\ o.dp.failed = s.failed
        <5>1. /\ IsTables(o.dp) /\ o.dp.res = Del(u.dp.res, new) /\ o.dp.rib = u.dp.rib
              /\ o.dp.fib = u.dp.fib /\ o.dp.rib_cnt = u.dp.rib_cnt /\ SameHops(u.dp, o.dp)
              /\ SameNeigh(u.dp, o.dp) /\ o.dp.failed = u.dp.failed
          BY <3>6, <4>2 DEF ResDelete, IsTables, SameHops, SameNeigh
        <5>2. QED
          BY <3>2, <3>6, <3>7, <4>1, <5>1 DEF SameRoutes, SameHops, SameNeigh
      <4>4. RoutesOK(o.dp) /\ \A x : Using(o.dp, x) = Using(s, x)
        BY <1>0, <4>3, RoutesSame
      <4>5. HopsOK(o.dp) /\ \A x : Count(o.dp, x) = Count(s, x)
        BY <1>0, <4>3 DEF HopsOK, Count, Sound, SameHops
      <4>6. Consistent(o.dp)
        BY <1>0, <4>3, <4>4, <4>5, NeighInvSame DEF Consistent, Sound, Counted
      <4>7. Quiet(s, o.dp, pos) /\ Undone(s, o.dp)
        BY <4>3 DEF Quiet, Undone, NeighBack, SameHops, SameNeigh
      <4>8. QED
        BY <4>3, <4>6, <4>7 DEF o
    <3>8. CASE u.ret = OK
      <4> DEFINE t0 == ResDelete(u.dp, id)
      <4>1. o.dp = NhopDelete(t0, v, e, pos) /\ o.ret = OK
        BY <3>4, <3>8 DEF Outcome
      <4>2. /\ IsTables(t0) /\ SameHops(s, t0) /\ t0.rib = u.dp.rib /\ t0.fib = u.dp.fib
            /\ t0.rib_cnt = u.dp.rib_cnt /\ t0.res = Del(u.dp.res, id)
            /\ SameNeigh(s, t0) /\ t0.failed = s.failed
        BY <3>2, <3>6 DEF ResDelete, IsTables, SameHops, SameNeigh
      <4> HIDE DEF t0, k
      <4>3. Switched(s, t0, v, p, new, n)
        BY <1>0, <1>2, <3>2, <3>6, <3>8, <4>2 DEF Switched, RoutesOK, k, id
      <4>4. /\ RoutesOK(t0)
            /\ \A x \in Encap : Cardinality(Using(t0, x)) = Cardinality(Using(s, x))
                                  - Ind(x, PathsOf(s, k)) + Ind(x, ToSet(rest))
        <5>1. IsListOf(n.mpath, EncapOf[v]) /\ n.mpath = rest /\ n.mpath_max = MaxOf(RType(n))
          BY <3>5
        <5>2. /\ RoutesOK(t0)
              /\ \A x \in Encap : Cardinality(Using(t0, x)) = Cardinality(Using(s, x))
                                    - Ind(x, PathsOf(s, <<v, p>>)) + Ind(x, ToSet(n.mpath))
          BY <1>0, <3>1, <4>3, <5>1, SwitchKeeps
        <5>3. QED
          BY <5>1, <5>2 DEF k
      <4>5. HopsOK(t0) /\ \A x : Count(t0, x) = Count(s, x)
        BY <1>0, <4>2 DEF HopsOK, Count, Sound, SameHops
      <4>6. Counted(t0, {e})
        <5> HIDE DEF rest
        <5>1. ASSUME NEW x \in Encap
              PROVE  Count(t0, x) = Cardinality(Using(t0, x)) + Ind(x, {e})
          <6>1. Cardinality(Using(s, x)) \in Nat /\ Count(s, x) = Cardinality(Using(s, x))
            BY <1>0, UsingFinite DEF Consistent, Counted, Ind
          <6>2. /\ Ind(x, ToSet(rest)) = Ind(x, PathsOf(s, k)) - Ind(x, {e})
                /\ Ind(x, PathsOf(s, k)) \in Int /\ Ind(x, {e}) \in Int
            BY <2>0, <3>5 DEF Ind, k
          <6>3. Cardinality(Using(t0, x)) = Cardinality(Using(s, x))
                                  - Ind(x, PathsOf(s, k)) + Ind(x, ToSet(rest))
            BY <4>4
          <6>4. Count(t0, x) = Count(s, x)
            BY <4>5
          <6>5. QED
            BY <6>1, <6>2, <6>3, <6>4
        <5>2. QED
          BY <5>1 DEF Counted
      <4>11. Sound(t0)
        BY <1>0, <4>2, <4>4, <4>5, NeighInvSame DEF Sound
      <4>7. /\ Sound(o.dp) /\ Counted(o.dp, {e} \ {e}) /\ SameRoutes(t0, o.dp)
            /\ Quiet(t0, o.dp, pos)
        BY <4>1, <4>6, <4>11, ReleaseOne
      <4>8. {e} \ {e} = {} /\ Switched(s, o.dp, v, p, new, n) /\ Quiet(s, o.dp, pos)
        BY <4>2, <4>3, <4>7 DEF Switched, SameRoutes, Quiet
      <4>9. Removed(s, o.dp, v, p, e, type)
        BY <3>1, <4>8 DEF Removed, n, k, id
      <4>10. QED
        BY <1>2, <2>4, <4>1, <4>7, <4>8, <4>9 DEF Consistent, o, k, id
    <3>9. QED
      BY <3>7, <3>8
  <2>5. Len(r.mpath) = 1 \/ Len(r.mpath) > 1
    BY <2>1, Zenon
  <2>6. QED
    BY <2>2, <2>3, <2>4, <2>5
<1>3. QED
  BY <1>1, <1>2

-----------------------------------------------------------------------------
(* The loops of ntb_route_delete and ntb_route_cleanup.  A function defined *)
(* by recursion exists for every number of rounds.                         *)

ReleaseRounds(g, s, v, paths, pos, n) ==
  g = [i \in 0 .. n |-> IF i = 0 THEN s ELSE NhopDelete(g[i - 1], v, paths[i], pos)]

LEMMA ReleaseAllIs ==
  ASSUME NEW s, NEW v, NEW paths, NEW pos, Len(paths) \in Nat
  PROVE  \E g : ReleaseRounds(g, s, v, paths, pos, Len(paths))
                /\ ReleaseAll(s, v, paths, pos) = g[Len(paths)]
<1> DEFINE P(g, n) == ReleaseRounds(g, s, v, paths, pos, n)
           S == {n \in Nat : ~\E g : P(g, n)}
<1>1. S = {}
  <2> SUFFICES ASSUME S # {}
               PROVE  FALSE
    OBVIOUS
  <2> DEFINE m == Min(S)
  <2>1. m \in S /\ \A y \in S : m <= y
    <3>1. S \in SUBSET Nat
      OBVIOUS
    <3> HIDE DEF S
    <3>2. QED
      BY <3>1, MinIn
  <2>2. m \in Nat /\ ~\E g : P(g, m)
    BY <2>1
  <2>3. m # 0
    <3> DEFINE g == [i \in 0 .. 0 |-> s]
    <3>1. P(g, 0)
      BY DEF ReleaseRounds
    <3>2. QED
      BY <2>2, <3>1
  <2>4. m - 1 \in Nat /\ m - 1 \notin S
    <3> HIDE DEF m, S
    <3>1. QED
      BY <2>1, <2>2, <2>3
  <2>5. PICK g : P(g, m - 1)
    BY <2>4
  <2> HIDE DEF m
  <2> DEFINE h == [i \in 0 .. m |-> IF i = m THEN NhopDelete(g[m - 1], v, paths[m], pos) ELSE g[i]]
  <2>6. \A i \in 0 .. m : h[i] = IF i = 0 THEN s ELSE NhopDelete(h[i - 1], v, paths[i], pos)
    <3>1. \A i \in 0 .. m - 1 : g[i] = IF i = 0 THEN s ELSE NhopDelete(g[i - 1], v, paths[i], pos)
      BY <2>5 DEF ReleaseRounds
    <3>2. h[m] = NhopDelete(g[m - 1], v, paths[m], pos) /\ \A i \in 0 .. m - 1 : h[i] = g[i]
      BY <2>2, <2>3
    <3> HIDE DEF h
    <3>3. ASSUME NEW i \in 0 .. m
          PROVE  h[i] = IF i = 0 THEN s ELSE NhopDelete(h[i - 1], v, paths[i], pos)
      <4>1. CASE i = m
        <5>1. h[m - 1] = g[m - 1]
          BY <2>4, <3>2
        <5>2. QED
          BY <2>3, <3>2, <4>1, <5>1
      <4>2. CASE i # m /\ i # 0
        <5>1. i \in 0 .. m - 1 /\ i - 1 \in 0 .. m - 1
          BY <2>2, <4>2
        <5>2. h[i] = g[i] /\ h[i - 1] = g[i - 1] /\ g[i] = NhopDelete(g[i - 1], v, paths[i], pos)
          BY <3>1, <3>2, <4>2, <5>1
        <5>3. QED
          BY <4>2, <5>2
      <4>3. CASE i # m /\ i = 0
        <5>1. 0 \in 0 .. m - 1
          BY <2>4
        <5>2. QED
          BY <3>1, <3>2, <4>3, <5>1
      <4>4. QED
        BY <4>1, <4>2, <4>3
    <3>4. QED
      BY <3>3
  <2>7. P(h, m)
    <3>1. h = [i \in 0 .. m |-> h[i]]
      OBVIOUS
    <3> HIDE DEF h
    <3>2. QED
      BY <2>6, <3>1 DEF ReleaseRounds
  <2>8. QED
    BY <2>2, <2>7
<1>2. \E g : P(g, Len(paths))
  BY <1>1
<1>3. P(CHOOSE g : P(g, Len(paths)), Len(paths))
  BY <1>2, Zenon
<1>4. ReleaseAll(s, v, paths, pos) = (CHOOSE g : P(g, Len(paths)))[Len(paths)]
  BY DEF ReleaseAll, ReleaseRounds
<1>5. QED
  BY <1>3, <1>4

(* After the last round every reference has been given back. *)
LEMMA AllReleased ==
  ASSUME NEW s, Sound(s), NEW v \in Vrf, NEW paths, IsListOf(paths, EncapOf[v]), NEW pos,
         Counted(s, ToSet(paths))
  PROVE  LET t == ReleaseAll(s, v, paths, pos)
         IN  Consistent(t) /\ SameRoutes(s, t) /\ Quiet(s, t, pos)
<1> DEFINE N == Len(paths)
           Rest(n) == {paths[i] : i \in (n + 1) .. N}
<1>1. /\ N \in Nat /\ \A i \in 1 .. N : paths[i] \in EncapOf[v]
      /\ \A i, j \in 1 .. N : paths[i] = paths[j] => i = j
      /\ ToSet(paths) = Rest(0)
  <2>1. paths \in Seq(EncapOf[v]) /\ \A i, j \in 1 .. N : paths[i] = paths[j] => i = j
    BY DEF IsListOf
  <2>2. ToSet(paths) = {paths[i] : i \in 1 .. N}
    BY <2>1, ToSetIs
  <2>3. QED
    BY <2>1, <2>2, LenProperties, ElementOfSeq
<1> HIDE DEF N
<1>2. PICK g : ReleaseRounds(g, s, v, paths, pos, N) /\ ReleaseAll(s, v, paths, pos) = g[N]
  BY <1>1, ReleaseAllIs DEF N
<1>3. /\ g[0] = s
      /\ \A i \in 1 .. N : g[i] = NhopDelete(g[i - 1], v, paths[i], pos)
  BY <1>1, <1>2 DEF ReleaseRounds
<1> DEFINE J(n) == /\ Sound(g[n]) /\ Counted(g[n], Rest(n)) /\ SameRoutes(s, g[n])
                   /\ Quiet(s, g[n], pos)
           S == {n \in 0 .. N : ~J(n)}
<1>4. J(0)
  BY <1>1, <1>3 DEF SameRoutes, Quiet
<1>5. ASSUME NEW n \in 1 .. N, J(n - 1)
      PROVE  J(n)
  <2>1. /\ paths[n] \in Rest(n - 1) /\ paths[n] \in EncapOf[v]
        /\ Rest(n) = Rest(n - 1) \ {paths[n]}
    <3>1. paths[n] \in Rest(n - 1) /\ paths[n] \in EncapOf[v]
      BY <1>1
    <3>2. \A i \in (n + 1) .. N : i \in (n - 1 + 1) .. N /\ paths[i] # paths[n]
      BY <1>1
    <3>3. \A i \in (n - 1 + 1) .. N : i = n \/ i \in (n + 1) .. N
      BY <1>1
    <3>4. QED
      BY <3>1, <3>2, <3>3
  <2> HIDE DEF Rest
  <2>2. LET t == NhopDelete(g[n - 1], v, paths[n], pos)
        IN  /\ Sound(t) /\ Counted(t, Rest(n - 1) \ {paths[n]}) /\ SameRoutes(g[n - 1], t)
            /\ Quiet(g[n - 1], t, pos)
    BY <1>5, <2>1, ReleaseOne
  <2>3. QED
    BY <1>3, <1>5, <2>1, <2>2 DEF SameRoutes, Quiet
<1> HIDE DEF J
<1>6. S = {}
  <2> SUFFICES ASSUME S # {}
               PROVE  FALSE
    OBVIOUS
  <2> DEFINE m == Min(S)
  <2>1. m \in S /\ \A y \in S : m <= y
    <3>1. S \in SUBSET Nat
      BY <1>1
    <3> HIDE DEF S
    <3>2. QED
      BY <3>1, MinIn
  <2>2. m \in 0 .. N /\ ~J(m)
    BY <2>1
  <2> HIDE DEF m
  <2>3. m \in 1 .. N /\ m - 1 \in 0 .. N /\ m - 1 \notin S
    <3>1. m # 0
      BY <1>4, <2>2
    <3>2. QED
      BY <1>1, <2>1, <2>2, <3>1
  <2>4. J(m - 1)
    BY <2>3
  <2>5. QED
    BY <1>5, <2>2, <2>3, <2>4
<1>7. J(N)
  BY <1>1, <1>6
<1>8. Rest(N) = {}
  BY <1>1
<1>9. QED
  BY <1>2, <1>7, <1>8 DEF J, Consistent

LEMMA DeleteRouteKeeps ==
  ASSUME NEW s, Consistent(s), NEW v \in Vrf, NEW p \in Prefix, NEW pos
  PROVE  LET o == DeleteRoute(s, v, p, pos)
         IN  /\ Consistent(o.dp)
             /\ IF <<v, p>> \in DOMAIN s.rib THEN o.ret = OK /\ Gone(s, o.dp, v, p)
                ELSE o.dp = s
             /\ Quiet(s, o.dp, pos)
<1> DEFINE k == <<v, p>>
           id == s.rib[k]
           paths == s.res[id].mpath
           s1 == ResDelete(PrefixDelete(s, v, p, 788, pos), id)
           o == DeleteRoute(s, v, p, pos)
<1>0. Sound(s) /\ RoutesOK(s) /\ k[1] = v
  BY DEF Consistent, Sound
<1>1. CASE k \notin DOMAIN s.rib
  BY <1>1 DEF DeleteRoute, Outcome, Quiet
<1>2. CASE k \in DOMAIN s.rib
  <2>1. o = Outcome(ReleaseAll(s1, v, paths, pos), OK)
    BY <1>2 DEF DeleteRoute
  <2>2. o.dp = ReleaseAll(s1, v, paths, pos) /\ o.ret = OK
    BY <2>1 DEF Outcome
  <2>3. /\ IsTables(s1) /\ SameHops(s, s1) /\ SameNeigh(s, s1) /\ Gone(s, s1, v, p)
        /\ pos \in HashPos => s1.failed \subseteq s.failed \cup PositionAsserts
    BY <1>0, <1>2, PrefixDeleteIs DEF Sound, PositionAsserts
  <2>4. IsListOf(paths, EncapOf[v]) /\ PathsOf(s, k) = ToSet(paths)
    BY <1>0, <1>2 DEF RoutesOK, PathsOf
  <2> HIDE DEF s1, o, paths
  <2>6. /\ RoutesOK(s1)
        /\ \A x \in Encap : Cardinality(Using(s1, x)) = Cardinality(Using(s, x)) - Ind(x, PathsOf(s, k))
    BY <1>0, <2>3, GoneKeeps
  <2>7. HopsOK(s1) /\ \A x : Count(s1, x) = Count(s, x)
    BY <1>0, <2>3 DEF HopsOK, Count, Sound, SameHops
  <2>8. Counted(s1, ToSet(paths))
    <3>1. ASSUME NEW x \in Encap
          PROVE  Count(s1, x) = Cardinality(Using(s1, x)) + Ind(x, ToSet(paths))
      <4>1. Cardinality(Using(s, x)) \in Nat /\ Count(s, x) = Cardinality(Using(s, x))
        BY <1>0, UsingFinite DEF Consistent, Counted, Ind
      <4>2. Cardinality(Using(s1, x)) = Cardinality(Using(s, x)) - Ind(x, ToSet(paths))
        BY <2>4, <2>6
      <4>3. Ind(x, ToSet(paths)) \in Int
        BY DEF Ind
      <4>4. QED
        BY <2>7, <4>1, <4>2, <4>3
    <3>2. QED
      BY <3>1 DEF Counted
  <2>5. Sound(s1)
    BY <1>0, <2>3, <2>6, <2>7, NeighInvSame DEF Sound
  <2>9. Consistent(o.dp) /\ SameRoutes(s1, o.dp) /\ Quiet(s1, o.dp, pos)
    BY <2>2, <2>4, <2>5, <2>8, AllReleased
  <2>10. Gone(s, o.dp, v, p) /\ Quiet(s, o.dp, pos)
    BY <2>3, <2>9 DEF Gone, SameRoutes, Quiet
  <2>11. QED
    BY <1>2, <2>2, <2>9, <2>10 DEF o
<1>3. QED
  BY <1>1, <1>2


CleanRounds(g, s, v, keys, pos, n) ==
  g = [i \in 0 .. n |-> IF i = 0 THEN s ELSE DeleteRoute(g[i - 1], v, keys[i], pos).dp]

LEMMA CleanupIs ==
  ASSUME NEW s, NEW v, NEW pos, NEW keys, keys = SetToSeq(PrefixesOf(s, v)), Len(keys) \in Nat
  PROVE  \E g : CleanRounds(g, s, v, keys, pos, Len(keys)) /\ Cleanup(s, v, pos) = g[Len(keys)]
<1> DEFINE P(g, n) == CleanRounds(g, s, v, keys, pos, n)
           S == {n \in Nat : ~\E g : P(g, n)}
<1>1. S = {}
  <2> SUFFICES ASSUME S # {}
               PROVE  FALSE
    OBVIOUS
  <2> DEFINE m == Min(S)
  <2>1. m \in S /\ \A y \in S : m <= y
    <3>1. S \in SUBSET Nat
      OBVIOUS
    <3> HIDE DEF S
    <3>2. QED
      BY <3>1, MinIn
  <2>2. m \in Nat /\ ~\E g : P(g, m)
    BY <2>1
  <2>3. m # 0
    <3> DEFINE g == [i \in 0 .. 0 |-> s]
    <3>1. P(g, 0)
      BY DEF CleanRounds
    <3>2. QED
      BY <2>2, <3>1
  <2>4. m - 1 \in Nat /\ m - 1 \notin S
    <3> HIDE DEF m, S
    <3>1. QED
      BY <2>1, <2>2, <2>3
  <2>5. PICK g : P(g, m - 1)
    BY <2>4
  <2> HIDE DEF m
  <2> DEFINE next(x, i) == DeleteRoute(x, v, keys[i], pos).dp
             h == [i \in 0 .. m |-> IF i = m THEN next(g[m - 1], m) ELSE g[i]]
  <2>6. \A i \in 0 .. m : h[i] = IF i = 0 THEN s ELSE next(h[i - 1], i)
    <3>1. \A i \in 0 .. m - 1 : g[i] = IF i = 0 THEN s ELSE next(g[i - 1], i)
      BY <2>5 DEF CleanRounds
    <3> HIDE DEF next
    <3>2. h[m] = next(g[m - 1], m) /\ \A i \in 0 .. m - 1 : h[i] = g[i]
      BY <2>2, <2>3
    <3> HIDE DEF h
    <3>3. ASSUME NEW i \in 0 .. m
          PROVE  h[i] = IF i = 0 THEN s ELSE next(h[i - 1], i)
      <4>1. CASE i = m
        <5>1. h[m - 1] = g[m - 1]
          BY <2>4, <3>2
        <5>2. QED
          BY <2>3, <3>2, <4>1, <5>1
      <4>2. CASE i # m /\ i # 0
        <5>1. i \in 0 .. m - 1 /\ i - 1 \in 0 .. m - 1
          BY <2>2, <4>2
        <5>2. h[i] = g[i] /\ h[i - 1] = g[i - 1] /\ g[i] = next(g[i - 1], i)
          BY <3>1, <3>2, <4>2, <5>1
        <5>3. QED
          BY <4>2, <5>2
      <4>3. CASE i # m /\ i = 0
        <5>1. 0 \in 0 .. m - 1
          BY <2>4
        <5>2. QED
          BY <3>1, <3>2, <4>3, <5>1
      <4>4. QED
        BY <4>1, <4>2, <4>3
    <3>4. QED
      BY <3>3
  <2>7. P(h, m)
    <3>1. h = [i \in 0 .. m |-> h[i]]
      OBVIOUS
    <3> HIDE DEF h
    <3>2. QED
      BY <2>6, <3>1 DEF CleanRounds
  <2>8. QED
    BY <2>2, <2>7
<1>2. \E g : P(g, Len(keys))
  BY <1>1
<1>3. P(CHOOSE g : P(g, Len(keys)), Len(keys))
  BY <1>2, Zenon
<1>4. Cleanup(s, v, pos) = (CHOOSE g : P(g, Len(keys)))[Len(keys)]
  BY DEF Cleanup, CleanRounds, PrefixesOf
<1>5. QED
  BY <1>3, <1>4

(* The routes of v are gone and no other. *)
Cleaned(s, t, v) ==
  /\ DOMAIN t.rib = {k \in DOMAIN s.rib : k[1] # v}
  /\ \A k \in DOMAIN t.rib : t.rib[k] = s.rib[k] /\ t.res[t.rib[k]] = s.res[s.rib[k]]

LEMMA CleanupKeeps ==
  ASSUME NEW s, Consistent(s), NEW v \in Vrf, NEW pos
  PROVE  LET t == Cleanup(s, v, pos)
         IN  Consistent(t) /\ Cleaned(s, t, v) /\ Quiet(s, t, pos)
<1> DEFINE T == PrefixesOf(s, v)
           keys == SetToSeq(T)
           N == Len(keys)
<1>0. IsFiniteSet(T) /\ T \subseteq Prefix
  <2>1. T \subseteq Prefix
    BY DEF PrefixesOf
  <2>2. QED
    BY <2>1, FS_Subset, RouteAssumption
<1>1. /\ N \in Nat /\ \A i \in 1 .. N : keys[i] \in T
      /\ \A i, j \in 1 .. N : keys[i] = keys[j] => i = j
      /\ \A x \in T : \E i \in 1 .. N : keys[i] = x
  BY <1>0, SetToSeqIs
<1>2. PICK g : CleanRounds(g, s, v, keys, pos, N) /\ Cleanup(s, v, pos) = g[N]
  BY <1>1, CleanupIs
<1> HIDE DEF keys, N
<1>3. /\ g[0] = s
      /\ \A i \in 1 .. N : g[i] = DeleteRoute(g[i - 1], v, keys[i], pos).dp
  BY <1>1, <1>2 DEF CleanRounds
<1> DEFINE Left(n) == {k \in DOMAIN s.rib : \A i \in 1 .. n : k # <<v, keys[i]>>}
           Kept(t) == \A k \in DOMAIN t.rib : t.rib[k] = s.rib[k] /\ t.res[t.rib[k]] = s.res[s.rib[k]]
           J(n) == /\ Consistent(g[n]) /\ DOMAIN g[n].rib = Left(n) /\ Kept(g[n])
                   /\ Quiet(s, g[n], pos)
           S == {n \in 0 .. N : ~J(n)}
<1>4. J(0)
  <2>1. Left(0) = DOMAIN s.rib
    OBVIOUS
  <2>2. QED
    BY <1>3, <2>1 DEF Quiet
<1>5. ASSUME NEW n \in 1 .. N, J(n - 1)
      PROVE  J(n)
  <2> DEFINE a == g[n - 1]
             b == g[n]
             p == keys[n]
  <2>1. n - 1 \in Nat /\ p \in Prefix /\ b = DeleteRoute(a, v, p, pos).dp
    BY <1>0, <1>1, <1>3
  <2>2. <<v, p>> \in DOMAIN s.rib /\ \A i \in 1 .. n - 1 : <<v, p>> # <<v, keys[i]>>
    <3>1. p \in T /\ \A i \in 1 .. n - 1 : p # keys[i]
      BY <1>1
    <3>2. QED
      BY <3>1 DEF PrefixesOf
  <2>3. <<v, p>> \in DOMAIN a.rib
    BY <1>5, <2>2
  <2>4. Consistent(b) /\ Gone(a, b, v, p) /\ Quiet(a, b, pos)
    <3> HIDE DEF a, b, p
    <3>1. Consistent(a)
      BY <1>5 DEF a
    <3>2. QED
      BY <2>1, <2>3, <3>1, DeleteRouteKeeps
  <2>5. Left(n) = Left(n - 1) \ {<<v, p>>}
    <3>1. \A i : i \in 1 .. n <=> i \in 1 .. n - 1 \/ i = n
      BY <2>1
    <3>2. QED
      BY <3>1
  <2>6. Kept(b)
    <3>1. DOMAIN b.rib = DOMAIN a.rib \ {<<v, p>>}
      BY <2>4 DEF Gone, Del
    <3>2. ASSUME NEW k \in DOMAIN b.rib
          PROVE  b.rib[k] = a.rib[k] /\ b.res[b.rib[k]] = a.res[a.rib[k]]
      <4> HIDE DEF a, b, p
      <4>1. RoutesOK(a)
        BY <1>5 DEF Consistent, Sound, a
      <4>2. /\ k \in DOMAIN a.rib /\ k # <<v, p>> /\ b.rib[k] = a.rib[k]
            /\ b.res = Del(a.res, a.rib[<<v, p>>])
        BY <2>4, <3>1, <3>2 DEF Gone, Del
      <4>3. a.rib[k] \in DOMAIN a.res /\ a.rib[k] # a.rib[<<v, p>>]
        BY <2>3, <4>1, <4>2 DEF RoutesOK
      <4>4. QED
        BY <4>2, <4>3 DEF Del
    <3>3. QED
      BY <1>5, <3>1, <3>2
  <2>7. DOMAIN b.rib = Left(n)
    BY <1>5, <2>4, <2>5 DEF Gone, Del
  <2>8. Quiet(s, b, pos)
    BY <1>5, <2>4 DEF Quiet
  <2>9. QED
    BY <2>4, <2>6, <2>7, <2>8
<1> HIDE DEF J
<1>6. S = {}
  <2> SUFFICES ASSUME S # {}
               PROVE  FALSE
    OBVIOUS
  <2> DEFINE m == Min(S)
  <2>1. m \in S /\ \A y \in S : m <= y
    <3>1. S \in SUBSET Nat
      BY <1>1
    <3> HIDE DEF S
    <3>2. QED
      BY <3>1, MinIn
  <2>2. m \in 0 .. N /\ ~J(m)
    BY <2>1
  <2> HIDE DEF m
  <2>3. m \in 1 .. N /\ m - 1 \in 0 .. N /\ m - 1 \notin S
    <3>1. m # 0
      BY <1>4, <2>2
    <3>2. QED
      BY <1>1, <2>1, <2>2, <3>1
  <2>4. J(m - 1)
    BY <2>3
  <2>5. QED
    BY <1>5, <2>2, <2>3, <2>4
<1>7. J(N)
  BY <1>1, <1>6
<1>8. Left(N) = {k \in DOMAIN s.rib : k[1] # v}
  <2>1. ASSUME NEW k \in DOMAIN s.rib
        PROVE  (\A i \in 1 .. N : k # <<v, keys[i]>>) <=> k[1] # v
    <3>1. k \in Vrf \X Prefix
      BY DEF Consistent, Sound, RoutesOK, Key
    <3>2. PICK w \in Vrf, q \in Prefix : k = <<w, q>>
      BY <3>1
    <3>3. CASE w = v
      <4>1. q \in T
        BY <2>1, <3>2, <3>3 DEF PrefixesOf
      <4>2. PICK i \in 1 .. N : keys[i] = q
        BY <1>1, <4>1
      <4>3. k = <<v, keys[i]>> /\ k[1] = v
        BY <3>2, <3>3, <4>2
      <4>4. QED
        BY <4>3
    <3>4. CASE w # v
      BY <3>2, <3>4
    <3>5. QED
      BY <3>3, <3>4
  <2>2. QED
    BY <2>1
<1>9. QED
  BY <1>2, <1>7, <1>8 DEF J, Cleaned

-----------------------------------------------------------------------------
(* The invariant of the specification.                                     *)

RouteInv == Consistent(dp)

LEMMA FreshIs ==
  ASSUME IsTables(dp)
  PROVE  /\ IsTables(Fresh) /\ SameRoutes(dp, Fresh) /\ SameHops(dp, Fresh)
         /\ SameNeigh(dp, Fresh) /\ Fresh.failed = {}
BY DEF Fresh, IsTables, SameRoutes, SameHops, SameNeigh

LEMMA StaticAddKeeps ==
  ASSUME NEW s, IsTables(s), NEW v, NEW g, NEW f
  PROVE  LET t == StaticAdd(s, v, g, f).dp
         IN  IsTables(t) /\ SameRoutes(s, t) /\ SameHops(s, t) /\ t.failed = s.failed
<1> DEFINE k == <<v, g>>
           r0 == [refcnt |-> 0, static |-> FALSE, neigh_oid |-> 0]
           s0 == [s EXCEPT !.neigh = Put(@, k, r0), !.neigh_count = (@ + 1) % U32]
           new == k \notin DOMAIN s.neigh
           s1 == IF new THEN s0 ELSE s
           n == s1.neigh[k]
           o == StaticAdd(s, v, g, f)
<1>1. IsTables(s0) /\ SameRoutes(s, s0) /\ SameHops(s, s0) /\ s0.failed = s.failed
  <2> DEFINE a == Put(s.neigh, k, r0)
             c == (s.neigh_count + 1) % U32
  <2>1. s0 = [s EXCEPT !.neigh = a, !.neigh_count = c]
    OBVIOUS
  <2> HIDE DEF a, c, s0
  <2>2. QED
    BY <2>1 DEF IsTables, SameRoutes, SameHops
<1> HIDE DEF s0
<1>2. IsTables(s1) /\ SameRoutes(s, s1) /\ SameHops(s, s1) /\ s1.failed = s.failed
  BY <1>1 DEF SameRoutes, SameHops
<1>3. CASE new /\ f \in {"neigh_mem", "neigh_hash"}
  <2>1. o = Outcome(s, "NOMEM") \/ o = Outcome(s, "EFAULT")
    <3>1. CASE f = "neigh_mem"
      BY <1>3, <3>1 DEF StaticAdd
    <3>2. CASE f = "neigh_hash"
      BY <1>3, <3>2 DEF StaticAdd
    <3>3. QED
      BY <1>3, <3>1, <3>2
  <2>2. o.dp = s
    BY <2>1 DEF Outcome
  <2>3. QED
    BY <2>2 DEF SameRoutes, SameHops
<1>4. CASE ~(new /\ f \in {"neigh_mem", "neigh_hash"})
  <2>1. o = Outcome([s1 EXCEPT !.neigh[k].static = TRUE,
                               !.neigh[k].refcnt = IF n.static THEN @ ELSE @ + 1], OK)
    <3>1. ~(new /\ f = "neigh_mem") /\ ~(new /\ f = "neigh_hash")
      BY <1>4
    <3>2. QED
      BY <3>1, Zenon DEF StaticAdd, s0
  <2> HIDE DEF s1
  <2>2. o.dp = [s1 EXCEPT !.neigh[k].static = TRUE,
                          !.neigh[k].refcnt = IF n.static THEN @ ELSE @ + 1]
    BY <2>1 DEF Outcome
  <2> HIDE DEF o
  <2>3. IsTables(o.dp) /\ SameRoutes(s1, o.dp) /\ SameHops(s1, o.dp) /\ o.dp.failed = s1.failed
    BY <1>2, <2>2 DEF IsTables, SameRoutes, SameHops
  <2>4. QED
    BY <1>2, <2>3 DEF SameRoutes, SameHops, o
<1>5. QED
  BY <1>3, <1>4

LEMMA OneNeighMore ==
  ASSUME NEW S, S \subseteq Vrf \X Gateways, NEW x, x \in Vrf \X Gateways, x \notin S
  PROVE  (Cardinality(S) + 1) % U32 = Cardinality(S \cup {x})
<1> DEFINE S1 == S \cup {x}
<1>1. IsFiniteSet(S) /\ Cardinality(S1) \in Nat /\ Cardinality(S1) < U32
  <2>1. S1 \subseteq Vrf \X Gateways
    OBVIOUS
  <2> HIDE DEF S1
  <2>2. QED
    BY <2>1, NeighFits
<1>2. Cardinality(S1) = Cardinality(S) + 1
  BY <1>1, FS_AddElement
<1> HIDE DEF S1
<1>3. Cardinality(S1) % U32 = Cardinality(S1)
  BY <1>1, ModIs, RouteAssumption
<1>4. QED
  BY <1>2, <1>3 DEF S1

(* ol_neigh_add_static counts the neighbour and its own reference. *)
LEMMA StaticAddNeigh ==
  ASSUME NEW s, IsTables(s), NeighInv(s), NEW v \in Vrf, NEW g \in Gateways, NEW f
  PROVE  LET o == StaticAdd(s, v, g, f)
         IN  NeighInv(o.dp) /\ (o.ret # OK => o.dp = s)
<1> DEFINE k == <<v, g>>
           r0 == [refcnt |-> 0, static |-> FALSE, neigh_oid |-> 0]
           s0 == [s EXCEPT !.neigh = Put(@, k, r0), !.neigh_count = (@ + 1) % U32]
           new == k \notin DOMAIN s.neigh
           s1 == IF new THEN s0 ELSE s
           n == s1.neigh[k]
           o == StaticAdd(s, v, g, f)
           t == o.dp
<1>0. NeighOK(s) /\ HopEntries(s) /\ k \in Vrf \X Gateways
  BY DEF NeighInv
<1>1. /\ IsTables(s0) /\ SameHops(s, s0) /\ s0.neigh = Put(s.neigh, k, r0)
      /\ s0.neigh_cnt = s.neigh_cnt /\ s0.neigh_count = (s.neigh_count + 1) % U32
      /\ s0.neigh_oids = s.neigh_oids
  <2> DEFINE a == Put(s.neigh, k, r0)
             c == (s.neigh_count + 1) % U32
  <2>1. s0 = [s EXCEPT !.neigh = a, !.neigh_count = c]
    OBVIOUS
  <2> HIDE DEF a, c, s0
  <2>2. /\ IsTables(s0) /\ SameHops(s, s0) /\ s0.neigh = a /\ s0.neigh_count = c
        /\ s0.neigh_cnt = s.neigh_cnt /\ s0.neigh_oids = s.neigh_oids
    BY <2>1 DEF IsTables, SameHops
  <2>3. QED
    BY <2>2 DEF a, c
<1>5. /\ DOMAIN s0.neigh = DOMAIN s.neigh \cup {k} /\ IsFcn(s0.neigh) /\ k \in DOMAIN s0.neigh
      /\ \A x \in DOMAIN s.neigh : x # k => s0.neigh[x] = s.neigh[x]
  <2> DEFINE a == s0.neigh
             b == s.neigh
  <2>1. a = Put(b, k, r0)
    BY <1>1
  <2> HIDE DEF a, b, k, r0, s0
  <2>2. DOMAIN a = DOMAIN b \cup {k} /\ IsFcn(a) /\ \A x \in DOMAIN b : x # k => a[x] = b[x]
    BY <2>1 DEF Put, IsFcn
  <2>3. k \in DOMAIN a
    BY <2>2
  <2>4. QED
    BY <2>2, <2>3 DEF a, b
<1> HIDE DEF s0
<1>2. CASE new /\ f \in {"neigh_mem", "neigh_hash"}
  <2>1. o = Outcome(s, "NOMEM") \/ o = Outcome(s, "EFAULT")
    <3>1. CASE f = "neigh_mem"
      BY <1>2, <3>1 DEF StaticAdd
    <3>2. CASE f = "neigh_hash"
      BY <1>2, <3>2 DEF StaticAdd
    <3>3. QED
      BY <1>2, <3>1, <3>2
  <2>2. o.dp = s
    BY <2>1 DEF Outcome
  <2>3. QED
    BY <2>2
<1>3. CASE ~(new /\ f \in {"neigh_mem", "neigh_hash"})
  <2>1. o = Outcome([s1 EXCEPT !.neigh[k].static = TRUE,
                               !.neigh[k].refcnt = IF n.static THEN @ ELSE @ + 1], OK)
    <3>1. ~(new /\ f = "neigh_mem") /\ ~(new /\ f = "neigh_hash")
      BY <1>3
    <3>2. QED
      BY <3>1, Zenon DEF StaticAdd, s0
  <2>2. /\ k \in DOMAIN s1.neigh /\ IsTables(s1) /\ IsFcn(s1.neigh)
        /\ n = [refcnt |-> n.refcnt, static |-> n.static, neigh_oid |-> n.neigh_oid]
    <3>1. CASE new
      <4>1. s1 = s0
        BY <3>1
      <4>2. n = r0
        BY <1>1, <4>1 DEF Put
      <4>3. n.refcnt = 0 /\ n.static = FALSE /\ n.neigh_oid = 0
        BY <4>2
      <4>4. n = [refcnt |-> n.refcnt, static |-> n.static, neigh_oid |-> n.neigh_oid]
        BY <4>2, <4>3, Zenon
      <4> HIDE DEF n, s1, r0, k
      <4>5. k \in DOMAIN s0.neigh /\ IsFcn(s0.neigh)
        BY <1>5
      <4>6. QED
        BY <1>1, <4>1, <4>4, <4>5
    <3>2. CASE ~new
      BY <1>0, <3>2 DEF NeighOK, NeighRecord
    <3>3. QED
      BY <3>1, <3>2
  <2> HIDE DEF s1, o
  <2> DEFINE d == IF n.static THEN n.refcnt ELSE n.refcnt + 1
             r == [refcnt |-> d, static |-> TRUE, neigh_oid |-> n.neigh_oid]
             q == [s1.neigh EXCEPT ![k].static = TRUE,
                                   ![k].refcnt = IF n.static THEN @ ELSE @ + 1]
  <2>3. o.dp = [s1 EXCEPT !.neigh[k].static = TRUE,
                          !.neigh[k].refcnt = IF n.static THEN @ ELSE @ + 1] /\ o.ret = OK
    BY <2>1 DEF Outcome
  <2>4. /\ SameHops(s1, t) /\ t.neigh_cnt = s1.neigh_cnt /\ t.neigh_count = s1.neigh_count
        /\ t.neigh_oids = s1.neigh_oids /\ t.neigh = q
    BY <2>2, <2>3 DEF IsTables, SameHops
  <2>5. /\ DOMAIN t.neigh = DOMAIN s1.neigh /\ IsFcn(t.neigh)
        /\ \A x \in DOMAIN s1.neigh : x # k => t.neigh[x] = s1.neigh[x]
        /\ t.neigh[k] = [[n EXCEPT !.static = TRUE] EXCEPT !.refcnt = d]
    BY <2>2, <2>4 DEF IsFcn
  <2>6. t.neigh[k] = r
    <3> DEFINE a == n.refcnt
               b == n.static
               c == n.neigh_oid
               m == n
    <3>1. m = [refcnt |-> a, static |-> b, neigh_oid |-> c]
      BY <2>2
    <3> HIDE DEF a, b, c, d, m
    <3>2. [[m EXCEPT !.static = TRUE] EXCEPT !.refcnt = d] = [refcnt |-> d, static |-> TRUE, neigh_oid |-> c]
      <4> DEFINE y == TRUE
      <4>1. [[m EXCEPT !.static = y] EXCEPT !.refcnt = d] = [refcnt |-> d, static |-> y, neigh_oid |-> c]
        <5> HIDE DEF y
        <5>1. QED
          <6> DEFINE l == [m EXCEPT !.static = y]
          <6>1. l = [refcnt |-> a, static |-> y, neigh_oid |-> c]
            BY <3>1
          <6> HIDE DEF l
          <6>2. [l EXCEPT !.refcnt = d] = [refcnt |-> d, static |-> y, neigh_oid |-> c]
            BY <6>1
          <6>3. QED
            BY <6>2 DEF l
      <4>2. QED
        BY <4>1, Zenon
    <3>3. QED
      BY <2>5, <3>2 DEF m, c
  <2>7. r.refcnt = d /\ r.static /\ r.neigh_oid = n.neigh_oid
    OBVIOUS
  <2>8. HopEntries(t) /\ DOMAIN t.nhop = DOMAIN s.nhop
    <3>1. SameHops(s, s1)
      <4>1. SameHops(s, s)
        BY DEF SameHops
      <4>2. s1 = s0 \/ s1 = s
        BY DEF s1
      <4>3. QED
        BY <1>1, <4>1, <4>2
    <3>2. QED
      BY <1>0, <2>4, <3>1 DEF HopEntries, SameHops
  <2>9. /\ NeighOK(t) /\ NCount(t, k) = NCount(s, k) + 1 - NStatic(s, k) /\ NStatic(t, k) = 1
        /\ \A x : x # k => NCount(t, x) = NCount(s, x) /\ NStatic(t, x) = NStatic(s, x)
    <3>1. CASE new
      <4>1. /\ s1 = s0 /\ n = r0
        BY <1>1, <3>1 DEF Put, s1
      <4>2. d = 1 /\ n.neigh_oid = 0
        BY <4>1
      <4>3. NeighRecord(r)
        BY <2>7, <4>2, RouteAssumption DEF NeighRecord
      <4>10. k \notin DOMAIN s.neigh /\ k \in Vrf \X Gateways
        BY <1>0, <3>1
      <4> HIDE DEF r, k, t, d, r0, n, new
      <4>4. t.neigh = Put(s.neigh, k, r)
        <5>0. /\ DOMAIN s0.neigh = DOMAIN s.neigh \cup {k}
              /\ \A x \in DOMAIN s.neigh : x # k => s0.neigh[x] = s.neigh[x]
          BY <1>5
        <5>1. DOMAIN t.neigh = DOMAIN s.neigh \cup {k}
          BY <2>5, <4>1, <5>0
        <5>2. \A x \in DOMAIN s.neigh : x # k => t.neigh[x] = s.neigh[x]
          BY <2>5, <4>1, <5>0
        <5>3. QED
          BY <2>5, <2>6, <5>1, <5>2 DEF Put, IsFcn
      <4>5. /\ t.neigh_cnt \in [Vrf -> 0 .. U32 - 1] /\ t.neigh_count = (s.neigh_count + 1) % U32
            /\ t.neigh_oids \in 0 .. OidMax
        BY <1>0, <1>1, <2>4, <4>1 DEF NeighOK, t
      <4>6. /\ NeighOK(t) /\ t.neigh[k] = r /\ DOMAIN t.neigh = DOMAIN s.neigh \cup {k}
            /\ \A x \in DOMAIN s.neigh : t.neigh[x] = s.neigh[x]
        <5>1. /\ DOMAIN t.neigh = DOMAIN s.neigh \cup {k} /\ IsFcn(t.neigh) /\ t.neigh[k] = r
              /\ \A x \in DOMAIN s.neigh : t.neigh[x] = s.neigh[x]
          BY <4>4, <4>10 DEF Put, IsFcn
        <5>2. t.neigh_count = Cardinality(DOMAIN t.neigh)
          <6>1. /\ DOMAIN s.neigh \subseteq Vrf \X Gateways
                /\ s.neigh_count = Cardinality(DOMAIN s.neigh)
            BY <1>0 DEF NeighOK
          <6>2. (Cardinality(DOMAIN s.neigh) + 1) % U32 = Cardinality(DOMAIN s.neigh \cup {k})
            BY <4>10, <6>1, OneNeighMore
          <6>3. QED
            BY <4>5, <5>1, <6>1, <6>2
        <5>3. QED
          BY <1>0, <4>3, <4>5, <4>10, <5>1, <5>2 DEF NeighOK
      <4>7. NCount(s, k) = 0 /\ NStatic(s, k) = 0 /\ NCount(t, k) = 1 /\ NStatic(t, k) = 1
        BY <2>7, <4>10, <4>2, <4>6 DEF NCount, NStatic
      <4>8. \A x : x # k => NCount(t, x) = NCount(s, x) /\ NStatic(t, x) = NStatic(s, x)
        BY <4>6 DEF NCount, NStatic
      <4>9. QED
        BY <4>6, <4>7, <4>8
    <3>2. CASE ~new
      <4>1. s1 = s /\ n = s.neigh[k] /\ k \in DOMAIN s.neigh
        BY <3>2 DEF s1
      <4>2. n.refcnt \in Nat \ {0} /\ n.neigh_oid \in 0 .. OidMax
        BY <1>0, <4>1 DEF NeighOK, NeighRecord
      <4>3. d \in Nat \ {0}
        BY <4>2
      <4>4. NeighRecord(r)
        BY <2>7, <4>2, <4>3 DEF NeighRecord
      <4>5. NeighOK(t)
        BY <1>0, <2>4, <2>5, <2>6, <4>1, <4>4 DEF NeighOK
      <4>6. \A x : x # k => NCount(t, x) = NCount(s, x) /\ NStatic(t, x) = NStatic(s, x)
        BY <2>5, <4>1 DEF NCount, NStatic
      <4>7. NCount(t, k) = d /\ NStatic(t, k) = 1 /\ NCount(s, k) = n.refcnt
        BY <2>5, <2>6, <2>7, <4>1 DEF NCount, NStatic
      <4>8. d = n.refcnt + 1 - NStatic(s, k)
        <5>1. CASE n.static
          <6>1. NStatic(s, k) = 1 /\ d = n.refcnt
            BY <4>1, <5>1 DEF NStatic
          <6>2. QED
            BY <4>2, <6>1
        <5>2. CASE ~n.static
          <6>1. NStatic(s, k) = 0 /\ d = n.refcnt + 1
            BY <4>1, <5>2 DEF NStatic
          <6>2. QED
            BY <4>2, <6>1
        <5>3. QED
          BY <5>1, <5>2
      <4>9. QED
        BY <4>5, <4>6, <4>7, <4>8
    <3>3. QED
      BY <3>1, <3>2
  <2>10. ASSUME NeighsCounted(s)
         PROVE  NeighsCounted(t)
    <3> HIDE DEF t
    <3> SUFFICES ASSUME NEW w \in Vrf, NEW h \in Gateways
                 PROVE  NCount(t, <<w, h>>) = Cardinality(Users(t, w, h)) + NStatic(t, <<w, h>>)
      BY DEF NeighsCounted
    <3>1. NCount(s, <<w, h>>) = Cardinality(Users(s, w, h)) + NStatic(s, <<w, h>>)
      BY <2>10 DEF NeighsCounted
    <3>2. Users(t, w, h) = Users(s, w, h) /\ Cardinality(Users(s, w, h)) \in Nat
      <4>1. Users(t, w, h) = Users(s, w, h)
        BY <2>8 DEF Users
      <4>2. QED
        BY <4>1, UsersIs
    <3>3. NStatic(s, <<w, h>>) \in {0, 1}
      BY <1>0, NCountIs
    <3>4. CASE <<w, h>> = k
      <4> DEFINE x == <<w, h>>
      <4>1. NCount(t, x) = NCount(s, x) + 1 - NStatic(s, x) /\ NStatic(t, x) = 1
        BY <2>9, <3>4
      <4> HIDE DEF x
      <4>2. /\ NCount(s, x) = Cardinality(Users(s, w, h)) + NStatic(s, x)
            /\ NStatic(s, x) \in {0, 1}
        BY <3>1, <3>3 DEF x
      <4>3. NCount(t, x) = Cardinality(Users(s, w, h)) + NStatic(t, x)
        BY <3>2, <4>1, <4>2
      <4>4. QED
        BY <3>2, <4>3 DEF x
    <3>5. CASE <<w, h>> # k
      BY <2>9, <3>1, <3>2, <3>5
    <3>6. QED
      BY <3>4, <3>5
  <2>11. NeighInv(t)
    BY <2>8, <2>9, <2>10 DEF NeighInv
  <2>12. QED
    BY <2>3, <2>11 DEF o
<1>4. QED
  BY <1>2, <1>3

LEMMA ConsistentSame ==
  ASSUME NEW s, NEW t, Consistent(s), IsTables(t), SameRoutes(s, t), SameHops(s, t), NeighInv(t)
  PROVE  Consistent(t)
<1>1. RoutesOK(t) /\ \A x : Using(t, x) = Using(s, x)
  BY RoutesSame DEF Consistent, Sound
<1>2. HopsOK(t) /\ \A x : Count(t, x) = Count(s, x)
  BY DEF HopsOK, Count, Consistent, Sound, SameHops
<1>3. QED
  BY <1>1, <1>2 DEF Consistent, Sound, Counted

LEMMA RouteInitOK ==
  RouteInit => RouteInv
<1> SUFFICES ASSUME RouteInit
             PROVE  Consistent(dp)
  BY DEF RouteInv
<1>1. /\ IsTables(dp) /\ dp.nhop = [e \in {} |-> 0] /\ dp.rib = [k \in {} |-> 0]
      /\ dp.fib = [k \in {} |-> 0] /\ dp.rib_cnt = [v \in Vrf |-> 0]
      /\ dp.res = [i \in {Blackhole} |-> [flags |-> {"REJECT"}, mpath |-> <<>>, mpath_max |-> 0]]
  BY DEF RouteInit, IsTables
<1>2. DOMAIN dp.nhop = {} /\ DOMAIN dp.rib = {} /\ dp.fib = dp.rib /\ IsFcn(dp.nhop) /\ IsFcn(dp.rib)
  BY <1>1 DEF IsFcn
<1>3. DOMAIN dp.res = {0} /\ dp.res[0].mpath = <<>> /\ IsFcn(dp.res)
  BY <1>1 DEF IsFcn, Blackhole
<1>4. RoutesOK(dp)
  <2>1. \A v \in Vrf : PrefixesOf(dp, v) = {}
    BY <1>2 DEF PrefixesOf
  <2>2. \A v \in Vrf : dp.rib_cnt[v] = Cardinality(PrefixesOf(dp, v))
    BY <1>1, <2>1, FS_EmptySet
  <2>3. QED
    BY <1>1, <1>2, <1>3, <2>2, RouteAssumption DEF RoutesOK, PerVrf, IsFcn
<1>5. HopsOK(dp)
  BY <1>2 DEF HopsOK
<1>6. Counted(dp, {})
  <2>1. \A e : Using(dp, e) = {}
    BY <1>3, EmptyIsList DEF Using
  <2>2. Cardinality({}) = 0
    BY FS_EmptySet
  <2>3. QED
    BY <1>2, <2>1, <2>2 DEF Counted, Count, Ind
<1>7. NeighInv(dp)
  <2>1. /\ dp.neigh = [k \in {} |-> 0] /\ dp.neigh_cnt = [v \in Vrf |-> 0] /\ dp.neigh_count = 0
        /\ dp.nh_oids = 0 /\ dp.neigh_oids = 0
    BY DEF RouteInit
  <2>2. DOMAIN dp.neigh = {} /\ IsFcn(dp.neigh) /\ Cardinality({}) = 0
    BY <2>1, FS_EmptySet DEF IsFcn
  <2>3. dp.neigh_cnt \in [Vrf -> 0 .. U32 - 1] /\ 0 \in 0 .. OidMax
    <3>1. 0 \in 0 .. U32 - 1 /\ 0 \in 0 .. OidMax
      BY RouteAssumption
    <3>2. QED
      BY <2>1, <3>1
  <2>4. NeighOK(dp) /\ HopEntries(dp)
    BY <1>2, <2>1, <2>2, <2>3 DEF NeighOK, HopEntries
  <2>5. \A v, g : Users(dp, v, g) = {}
    BY <1>2 DEF Users
  <2>6. NeighsCounted(dp)
    BY <2>2, <2>5 DEF NeighsCounted, NCount, NStatic
  <2>7. QED
    BY <2>4, <2>6 DEF NeighInv
<1>8. QED
  BY <1>1, <1>4, <1>5, <1>6, <1>7 DEF Consistent, Sound

LEMMA RouteStep ==
  RouteInv /\ [RouteNext]_vars => RouteInv'
<1> SUFFICES ASSUME Consistent(dp), [RouteNext]_vars
             PROVE  Consistent(dp')
  BY DEF RouteInv
<1>1. Consistent(Fresh)
  BY FreshIs, NeighInvSame, ConsistentSame DEF Consistent, Sound
<1>2. ASSUME NEW v \in Vrf, NEW p \in Prefix, NEW e \in EncapOf[v], NEW t, NEW f, NEW pos,
             RouteNhopInsert(v, p, e, t, f, pos)
      PROVE  Consistent(dp')
  BY <1>1, <1>2, InsertKeeps DEF RouteNhopInsert
<1>3. ASSUME NEW v \in Vrf, NEW p \in Prefix, NEW e \in EncapOf[v], NEW t, NEW f, NEW pos,
             RouteNhopDelete(v, p, e, t, f, pos)
      PROVE  Consistent(dp')
  BY <1>1, <1>3, DeleteNhopKeeps DEF RouteNhopDelete
<1>4. ASSUME NEW v \in Vrf, NEW p \in Prefix, NEW pos, RouteDelete(v, p, pos)
      PROVE  Consistent(dp')
  BY <1>1, <1>4, DeleteRouteKeeps DEF RouteDelete
<1>5. ASSUME NEW v \in Vrf, NEW pos, RouteCleanup(v, pos)
      PROVE  Consistent(dp')
  BY <1>1, <1>5, CleanupKeeps DEF RouteCleanup
<1>6. ASSUME NEW v \in Vrf, NEW g \in Static[v], NEW f, OlNeighAddStatic(v, g, f)
      PROVE  Consistent(dp')
  <2>1. dp' = StaticAdd(Fresh, v, g, f).dp
    BY <1>6 DEF OlNeighAddStatic
  <2>2. IsTables(dp') /\ SameRoutes(Fresh, dp') /\ SameHops(Fresh, dp')
    BY <1>1, <2>1, StaticAddKeeps DEF Consistent, Sound
  <2>3. NeighInv(dp')
    BY <1>1, <2>1, StaticAddNeigh, NeighAssumption DEF Consistent, Sound
  <2>4. QED
    BY <1>1, <2>2, <2>3, ConsistentSame
<1>7. CASE UNCHANGED vars
  BY <1>7 DEF vars
<1>8. QED
  BY <1>2, <1>3, <1>4, <1>5, <1>6, <1>7 DEF RouteNext

LEMMA RouteInvariant ==
  RouteSpec => []RouteInv
BY RouteInitOK, RouteStep, PTL DEF RouteSpec

(* rib, fib, result array and prefix counters of route.c agree after every *)
(* call, whatever library call fails on the way and whatever the tables    *)
(* hold: the undo paths of ntb_route_nhop_insert and ntb_route_nhop_delete *)
(* leave no result without a prefix and no prefix without a result.        *)
THEOREM TablesAlwaysAgree ==
  RouteSpec => []TablesAgree
<1>1. RouteInv => TablesAgree
  <2> SUFFICES ASSUME RoutesOK(dp)
               PROVE  TablesAgree
    BY DEF RouteInv, Consistent, Sound
  <2>1. {dp.rib[k] : k \in DOMAIN dp.rib} = DOMAIN dp.res \ {0}
    BY DEF RoutesOK
  <2>2. QED
    BY <2>1 DEF TablesAgree, RoutesOK, PrefixesOf, Blackhole
<1>2. QED
  BY <1>1, RouteInvariant, PTL

(* A next hop is in at most one slot of a result, so its slots are as many *)
(* as the results that use it.                                             *)
LEMMA SlotsAreUses ==
  ASSUME NEW s, RoutesOK(s), NEW e
  PROVE  Cardinality(Using(s, e))
           = Cardinality({x \in (DOMAIN s.res) \X (1 .. Cardinality(Encap)) :
                            x[2] \in DOMAIN s.res[x[1]].mpath /\ s.res[x[1]].mpath[x[2]] = e})
<1> DEFINE N == Cardinality(Encap)
           P(i, j) == j \in DOMAIN s.res[i].mpath /\ s.res[i].mpath[j] = e
           Slots == {x \in (DOMAIN s.res) \X (1 .. N) : P(x[1], x[2])}
           U == Using(s, e)
<1>1. ASSUME NEW i \in U
      PROVE  /\ \E j \in 1 .. N : P(i, j)
             /\ \A j, l \in 1 .. N : P(i, j) /\ P(i, l) => j = l
  <2> DEFINE q == s.res[i].mpath
  <2>1. i \in DOMAIN s.res /\ i # 0 /\ e \in ToSet(q)
    <3>1. U \subseteq 1 .. NrFibRes
      BY UsingFinite
    <3>2. i # 0
      BY <1>1, <3>1
    <3>3. i \in DOMAIN s.res /\ e \in ToSet(s.res[i].mpath)
      BY <1>1 DEF Using
    <3>4. QED
      BY <3>2, <3>3
  <2>2. PICK k \in DOMAIN s.rib : s.rib[k] = i
    BY <2>1 DEF RoutesOK
  <2>3. IsListOf(q, EncapOf[k[1]]) /\ EncapOf[k[1]] \subseteq Encap
    BY <2>2, RouteAssumption DEF RoutesOK, Key
  <2> HIDE DEF q
  <2>4. /\ q \in Seq(EncapOf[k[1]]) /\ \A j, l \in 1 .. Len(q) : q[j] = q[l] => j = l
        /\ Len(q) = Cardinality(ToSet(q)) /\ ToSet(q) \subseteq Encap
        /\ ToSet(q) = {q[j] : j \in 1 .. Len(q)}
    BY <2>3, ToSetIs DEF IsListOf
  <2>5. Len(q) \in Nat /\ DOMAIN q = 1 .. Len(q) /\ N \in Nat /\ Len(q) <= N
    <3>1. Len(q) \in Nat /\ DOMAIN q = 1 .. Len(q)
      BY <2>4, LenProperties
    <3>2. N \in Nat /\ Cardinality(ToSet(q)) <= N
      BY <2>4, FS_Subset, FS_CardinalityType, RouteAssumption
    <3>3. QED
      BY <2>4, <3>1, <3>2
  <2> HIDE DEF N
  <2>6. PICK j \in 1 .. Len(q) : q[j] = e
    BY <2>1, <2>4
  <2>7. j \in 1 .. N
    BY <2>5
  <2>8. QED
    BY <2>4, <2>5, <2>6, <2>7 DEF q
<1>2. ASSUME NEW i \in DOMAIN s.res, NEW j, P(i, j)
      PROVE  i \in U
  BY <1>2 DEF Using, ToSet
<1> DEFINE slot == [i \in U |-> <<i, CHOOSE j \in 1 .. N : P(i, j)>>]
<1> HIDE DEF P, N
<1>3. ASSUME NEW i \in U
      PROVE  /\ slot[i] \in Slots /\ slot[i][1] = i
             /\ \A j \in 1 .. N : P(i, j) => <<i, j>> = slot[i]
  <2> DEFINE c == CHOOSE j \in 1 .. N : P(i, j)
  <2>1. c \in 1 .. N /\ P(i, c)
    BY <1>1, Zenon
  <2>2. slot[i] = <<i, c>>
    BY <1>3, Zenon
  <2>3. \A j \in 1 .. N : P(i, j) => j = c
    BY <1>1, <2>1
  <2> HIDE DEF c, slot
  <2>4. i \in DOMAIN s.res
    BY DEF Using
  <2>5. QED
    BY <2>1, <2>2, <2>3, <2>4
<1>4. DOMAIN slot = U
  OBVIOUS
<1>5. slot = [i \in U |-> slot[i]]
  OBVIOUS
<1> HIDE DEF slot, U
<1>6. slot \in [U -> Slots]
  BY <1>3, <1>5
<1>7. \A i, j \in U : slot[i] = slot[j] => i = j
  BY <1>3
<1>8. ASSUME NEW x \in Slots
      PROVE  \E i \in U : slot[i] = x
  <2>1. x[1] \in DOMAIN s.res /\ x[2] \in 1 .. N /\ P(x[1], x[2]) /\ x = <<x[1], x[2]>>
    OBVIOUS
  <2>2. x[1] \in U
    BY <1>2, <2>1
  <2>3. QED
    BY <1>3, <2>1, <2>2
<1> HIDE DEF Slots
<1>9. slot \in Bijection(U, Slots)
  BY <1>4, <1>6, <1>7, <1>8 DEF Bijection, Injection, Surjection, IsInjective
<1>10. IsFiniteSet(U) /\ ExistsBijection(U, Slots)
  BY <1>9, UsingFinite DEF ExistsBijection, U
<1>11. Cardinality(Slots) = Cardinality(U)
  BY <1>10, FS_Bijection
<1>12. QED
  BY <1>11 DEF Slots, U, P, N

(* A next hop of route.c is freed by its last user and not before: its     *)
(* ref_count is the number of result slots that point to it after every    *)
(* call, on the success paths and on the paths that undo a failed call.    *)
THEOREM RefCountsExact ==
  RouteSpec => []RefCountExact
<1>1. RouteInv => RefCountExact
  <2> SUFFICES ASSUME Consistent(dp)
               PROVE  RefCountExact
    BY DEF RouteInv
  <2>0. RoutesOK(dp) /\ HopsOK(dp) /\ \A e \in Encap : Count(dp, e) = Cardinality(Using(dp, e))
    <3>1. \A e \in Encap : Cardinality(Using(dp, e)) \in Nat
      BY UsingFinite DEF Consistent, Sound
    <3>2. QED
      BY <3>1 DEF Consistent, Sound, Counted, Ind
  <2>1. ASSUME NEW i \in DOMAIN dp.res, NEW e \in ToSet(dp.res[i].mpath)
        PROVE  e \in DOMAIN dp.nhop
    <3>1. i \in Using(dp, e) /\ IsFiniteSet(Using(dp, e)) /\ i # 0
      <4>1. i \in Using(dp, e)
        BY <2>1 DEF Using
      <4>2. Using(dp, e) \subseteq 1 .. NrFibRes /\ IsFiniteSet(Using(dp, e))
        BY <2>0, UsingFinite
      <4>3. QED
        BY <4>1, <4>2
    <3>2. Cardinality(Using(dp, e)) # 0
      BY <3>1, FS_EmptySet
    <3>3. PICK k \in DOMAIN dp.rib : dp.rib[k] = i
      BY <2>0, <3>1 DEF RoutesOK
    <3>4. IsListOf(dp.res[i].mpath, EncapOf[k[1]]) /\ EncapOf[k[1]] \subseteq Encap
      BY <2>0, <3>3, RouteAssumption DEF RoutesOK, Key
    <3>5. e \in Encap
      BY <2>1, <3>4, ToSetIs DEF IsListOf
    <3>6. QED
      BY <2>0, <3>2, <3>5 DEF Count
  <2>2. ASSUME NEW e \in DOMAIN dp.nhop
        PROVE  dp.nhop[e].ref_count
           = Cardinality({x \in (DOMAIN dp.res) \X (1 .. Cardinality(Encap)) :
                            x[2] \in DOMAIN dp.res[x[1]].mpath /\ dp.res[x[1]].mpath[x[2]] = e})
    <3>1. dp.nhop[e].ref_count = Cardinality(Using(dp, e))
      BY <2>0 DEF Count, HopsOK
    <3>2. QED
      BY <2>0, <3>1, SlotsAreUses
  <2>3. QED
    BY <2>1, <2>2 DEF RefCountExact
<1>2. QED
  BY <1>1, RouteInvariant, PTL

-----------------------------------------------------------------------------
(* The tables implement the route table of RouteTable.                     *)

RoutesOf(s) == [k \in DOMAIN s.fib |-> [type |-> RType(s.res[s.fib[k]]),
                                        paths |-> s.res[s.fib[k]].mpath]]
RouteOf(r) == [type |-> RType(r), paths |-> r.mpath]

LEMMA RoutesOfIs ==
  ASSUME NEW s, RoutesOK(s)
  PROVE  /\ DOMAIN RoutesOf(s) = DOMAIN s.rib /\ IsFcn(RoutesOf(s))
         /\ \A k \in DOMAIN s.rib : RoutesOf(s)[k] = RouteOf(s.res[s.rib[k]])
BY DEF RoutesOf, RouteOf, RoutesOK, IsFcn

LEMMA SwitchedRoutes ==
  ASSUME NEW s, RoutesOK(s), NEW t, RoutesOK(t), NEW v, NEW p, NEW new, NEW r,
         new \notin DOMAIN s.res, Switched(s, t, v, p, new, r)
  PROVE  /\ DOMAIN RoutesOf(t) = DOMAIN RoutesOf(s) \cup {<<v, p>>}
         /\ RoutesOf(t)[<<v, p>>] = RouteOf(r)
         /\ \A k \in DOMAIN RoutesOf(s) : k # <<v, p>> => RoutesOf(t)[k] = RoutesOf(s)[k]
<1> DEFINE k == <<v, p>>
<1>1. DOMAIN t.rib = DOMAIN s.rib \cup {k} /\ t.rib[k] = new
      /\ \A l \in DOMAIN s.rib : l # k => t.rib[l] = s.rib[l]
  BY DEF Switched, Put
<1>2. t.res[new] = r
  <2>1. CASE k \in DOMAIN s.rib
    <3>1. t.res = Del(Put(s.res, new, r), s.rib[k]) /\ s.rib[k] # new
      <4>1. t.res = Del(Put(s.res, new, r), s.rib[k])
        BY <2>1 DEF Switched
      <4>2. s.rib[k] \in DOMAIN s.res
        BY <2>1 DEF RoutesOK
      <4>3. QED
        BY <4>1, <4>2
    <3>2. QED
      BY <3>1 DEF Put, Del
  <2>2. CASE k \notin DOMAIN s.rib
    BY <2>2 DEF Switched, Put
  <2>3. QED
    BY <2>1, <2>2
<1>3. ASSUME NEW l \in DOMAIN s.rib, l # k
      PROVE  t.res[t.rib[l]] = s.res[s.rib[l]]
  <2>1. s.rib[l] \in DOMAIN s.res /\ s.rib[l] # new
    BY <1>3 DEF RoutesOK
  <2>2. CASE k \in DOMAIN s.rib
    <3>1. t.res = Del(Put(s.res, new, r), s.rib[k]) /\ s.rib[k] # s.rib[l]
      BY <1>3, <2>2 DEF Switched, RoutesOK
    <3>2. QED
      BY <1>1, <1>3, <2>1, <3>1 DEF Put, Del
  <2>3. CASE k \notin DOMAIN s.rib
    <3>1. t.res = Put(s.res, new, r)
      BY <2>3 DEF Switched
    <3>2. QED
      BY <1>1, <1>3, <2>1, <3>1 DEF Put
  <2>4. QED
    BY <2>2, <2>3
<1> HIDE DEF k
<1>4. /\ DOMAIN RoutesOf(t) = DOMAIN t.rib /\ DOMAIN RoutesOf(s) = DOMAIN s.rib
      /\ \A l \in DOMAIN t.rib : RoutesOf(t)[l] = RouteOf(t.res[t.rib[l]])
      /\ \A l \in DOMAIN s.rib : RoutesOf(s)[l] = RouteOf(s.res[s.rib[l]])
  BY RoutesOfIs
<1>5. QED
  BY <1>1, <1>2, <1>3, <1>4 DEF k

LEMMA GoneRoutes ==
  ASSUME NEW s, RoutesOK(s), NEW t, RoutesOK(t), NEW v, NEW p, Gone(s, t, v, p)
  PROVE  /\ <<v, p>> \in DOMAIN RoutesOf(s)
         /\ DOMAIN RoutesOf(t) = DOMAIN RoutesOf(s) \ {<<v, p>>}
         /\ \A k \in DOMAIN RoutesOf(t) : RoutesOf(t)[k] = RoutesOf(s)[k]
<1> DEFINE k == <<v, p>>
<1>1. /\ k \in DOMAIN s.rib /\ DOMAIN t.rib = DOMAIN s.rib \ {k}
      /\ \A l \in DOMAIN t.rib : t.rib[l] = s.rib[l]
      /\ t.res = Del(s.res, s.rib[k])
  BY DEF Gone, Del
<1> HIDE DEF k
<1>2. ASSUME NEW l \in DOMAIN t.rib
      PROVE  t.res[t.rib[l]] = s.res[s.rib[l]]
  <2>1. s.rib[l] \in DOMAIN s.res /\ s.rib[l] # s.rib[k]
    BY <1>1, <1>2 DEF RoutesOK
  <2>2. QED
    BY <1>1, <2>1 DEF Del
<1>3. /\ DOMAIN RoutesOf(t) = DOMAIN t.rib /\ DOMAIN RoutesOf(s) = DOMAIN s.rib
      /\ \A l \in DOMAIN t.rib : RoutesOf(t)[l] = RouteOf(t.res[t.rib[l]])
      /\ \A l \in DOMAIN s.rib : RoutesOf(s)[l] = RouteOf(s.res[s.rib[l]])
  BY RoutesOfIs
<1>4. QED
  BY <1>1, <1>2, <1>3 DEF k

LEMMA CleanedRoutes ==
  ASSUME NEW s, RoutesOK(s), NEW t, RoutesOK(t), NEW v, Cleaned(s, t, v)
  PROVE  RoutesOf(t) = [k \in {x \in DOMAIN RoutesOf(s) : x[1] # v} |-> RoutesOf(s)[k]]
<1>1. /\ DOMAIN RoutesOf(t) = DOMAIN t.rib /\ DOMAIN RoutesOf(s) = DOMAIN s.rib
      /\ \A l \in DOMAIN t.rib : RoutesOf(t)[l] = RouteOf(t.res[t.rib[l]])
      /\ \A l \in DOMAIN s.rib : RoutesOf(s)[l] = RouteOf(s.res[s.rib[l]])
      /\ RoutesOf(t) = [k \in DOMAIN RoutesOf(t) |-> RoutesOf(t)[k]]
  BY RoutesOfIs DEF IsFcn
<1>2. DOMAIN RoutesOf(t) = {x \in DOMAIN RoutesOf(s) : x[1] # v}
  BY <1>1 DEF Cleaned
<1>3. \A k \in DOMAIN RoutesOf(t) : RoutesOf(t)[k] = RoutesOf(s)[k]
  BY <1>1 DEF Cleaned
<1>4. QED
  BY <1>1, <1>2, <1>3

(* A record with another list of paths. *)
LEMMA PathsChanged ==
  ASSUME NEW f, IsFcn(f), NEW h, IsFcn(h), NEW k \in DOMAIN f, NEW a, NEW b, NEW c,
         f[k] = [type |-> a, paths |-> b], h[k] = [type |-> a, paths |-> c],
         DOMAIN h = DOMAIN f, \A x \in DOMAIN f : x # k => h[x] = f[x]
  PROVE  h = [f EXCEPT ![k].paths = c]
<1>1. [f EXCEPT ![k].paths = c] = [x \in DOMAIN f |-> IF x = k THEN [f[k] EXCEPT !.paths = c] ELSE f[x]]
  OBVIOUS
<1>2. [f[k] EXCEPT !.paths = c] = h[k]
  OBVIOUS
<1>3. h = [x \in DOMAIN f |-> h[x]]
  BY DEF IsFcn
<1>4. QED
  BY <1>1, <1>2, <1>3

LEMMA RefineStep ==
  RouteInv /\ RouteInv' /\ [RouteNext]_vars => [RT!RTNext]_Routes
<1> SUFFICES ASSUME Consistent(dp), Consistent(dp'), [RouteNext]_vars
             PROVE  RT!RTNext \/ Routes' = Routes
  BY DEF RouteInv
<1> DEFINE R == RoutesOf(Fresh)
           Rp == RoutesOf(dp')
<1>0. /\ Consistent(Fresh) /\ RoutesOK(Fresh) /\ RoutesOK(dp')
      /\ Routes = R /\ Routes' = Rp
  <2>1. IsTables(Fresh) /\ SameRoutes(dp, Fresh) /\ SameHops(dp, Fresh)
    BY FreshIs DEF Consistent, Sound
  <2>2. Consistent(Fresh)
    <3>1. NeighInv(Fresh)
      BY FreshIs, NeighInvSame DEF Consistent, Sound
    <3>2. QED
      BY <2>1, <3>1, ConsistentSame
  <2>3. Routes = R /\ Routes' = Rp
    BY <2>1 DEF Routes, RoutesOf, SameRoutes
  <2>4. QED
    BY <2>2, <2>3 DEF Consistent, Sound
<1>1. IsFcn(R) /\ IsFcn(Rp) /\ DOMAIN R = DOMAIN Fresh.rib
  BY <1>0, RoutesOfIs
<1>2. SameRoutes(Fresh, dp') => Routes' = Routes
  BY <1>0 DEF RoutesOf, SameRoutes
<1> HIDE DEF R, Rp
<1>3. ASSUME NEW v \in Vrf, NEW p \in Prefix, Gone(Fresh, dp', v, p)
      PROVE  /\ <<v, p>> \in DOMAIN Routes
             /\ Routes' = [x \in DOMAIN Routes \ {<<v, p>>} |-> Routes[x]]
  <2>1. /\ <<v, p>> \in DOMAIN R /\ DOMAIN Rp = DOMAIN R \ {<<v, p>>}
        /\ \A k \in DOMAIN Rp : Rp[k] = R[k]
    BY <1>0, <1>3, GoneRoutes DEF R, Rp
  <2>2. QED
    BY <1>0, <1>1, <2>1 DEF IsFcn
<1>4. ASSUME NEW v \in Vrf, NEW p \in Prefix, NEW e \in EncapOf[v], NEW t \in RibTypes,
             NEW f, NEW pos, RouteNhopInsert(v, p, e, t, f, pos)
      PROVE  RT!RTNext \/ Routes' = Routes
  <2> DEFINE k == <<v, p>>
             old == Fresh.res[Fresh.rib[k]]
  <2>1. SameRoutes(Fresh, dp') \/ (Added(Fresh, dp', v, p, e, t) /\ Admits(Fresh, v, p, e, t))
    BY <1>0, <1>4, InsertKeeps DEF RouteNhopInsert
  <2>2. CASE Added(Fresh, dp', v, p, e, t) /\ Admits(Fresh, v, p, e, t)
    <3>0. k \in Vrf \X Prefix /\ e \in Encap /\ t \in {"RT_DEFAULT", "RT_MROUTE"}
      BY RouteAssumption
    <3>1. CASE k \notin DOMAIN Fresh.rib
      <4> DEFINE r == NewRes(<<e>>, {}, t)
      <4>1. PICK new : new \notin DOMAIN Fresh.res /\ Switched(Fresh, dp', v, p, new, r)
        BY <2>2, <3>1 DEF Added
      <4>2. RouteOf(r) = [type |-> t, paths |-> <<e>>]
        BY <3>0, NewResIs DEF RouteOf
      <4> HIDE DEF r
      <4>3. /\ DOMAIN Rp = DOMAIN R \cup {<<v, p>>} /\ Rp[<<v, p>>] = RouteOf(r)
            /\ \A x \in DOMAIN R : x # <<v, p>> => Rp[x] = R[x]
        BY <1>0, <4>1, SwitchedRoutes DEF R, Rp
      <4>4. Rp = [x \in DOMAIN R \cup {k} |-> IF x = k THEN [type |-> t, paths |-> <<e>>] ELSE R[x]]
        BY <1>1, <4>2, <4>3 DEF IsFcn
      <4>5. RT!AddPath(k, t, e)
        BY <1>0, <1>1, <3>1, <4>4 DEF RT!AddPath, RT!Set
      <4>6. QED
        BY <3>0, <4>5 DEF RT!RTNext
    <3>2. CASE k \in DOMAIN Fresh.rib
      <4> DEFINE l == old.mpath
                 longer == Append(l, e)
                 r == NewRes(longer, old.flags, t)
      <4>1. PICK new : new \notin DOMAIN Fresh.res /\ Switched(Fresh, dp', v, p, new, r)
        BY <2>2, <3>2 DEF Added
      <4> HIDE DEF longer
      <4>2. RouteOf(r) = [type |-> t, paths |-> longer]
        BY <3>0, NewResIs DEF RouteOf
      <4> HIDE DEF r
      <4>3. /\ DOMAIN Rp = DOMAIN R \cup {<<v, p>>} /\ Rp[<<v, p>>] = RouteOf(r)
            /\ \A x \in DOMAIN R : x # <<v, p>> => Rp[x] = R[x]
        BY <1>0, <4>1, SwitchedRoutes DEF R, Rp
      <4>4. R[k] = [type |-> t, paths |-> l]
        BY <1>0, <2>2, <3>2, RoutesOfIs DEF R, RouteOf, Admits
      <4>5. Len(l) < MaxOf(t) /\ e \notin ToSet(l)
        BY <2>2, <3>2 DEF Admits, PathsOf
      <4> HIDE DEF l, old
      <4>6. Rp = [R EXCEPT ![k].paths = longer]
        <5>1. k \in DOMAIN R /\ DOMAIN Rp = DOMAIN R
          BY <1>1, <3>2, <4>3
        <5>2. QED
          BY <1>1, <4>2, <4>3, <4>4, <5>1, PathsChanged
      <4>7. /\ k \in DOMAIN Routes /\ Routes[k].type = t /\ Routes[k].paths = l
            /\ Routes' = [Routes EXCEPT ![k].paths = Append(@, e)]
        BY <1>0, <1>1, <3>2, <4>4, <4>6 DEF longer
      <4>8. ~RT!Holds(k, e)
        BY <4>5, <4>7 DEF RT!Holds, ToSet
      <4>9. RT!AddPath(k, t, e)
        BY <4>5, <4>7, <4>8 DEF RT!AddPath, MaxOf
      <4>10. QED
        BY <3>0, <4>9 DEF RT!RTNext
    <3>3. QED
      BY <3>1, <3>2
  <2>3. QED
    BY <1>2, <2>1, <2>2
<1>5. ASSUME NEW v \in Vrf, NEW p \in Prefix, NEW e \in EncapOf[v], NEW t \in RibTypes,
             NEW f, NEW pos, RouteNhopDelete(v, p, e, t, f, pos)
      PROVE  RT!RTNext \/ Routes' = Routes
  <2> DEFINE k == <<v, p>>
             old == Fresh.res[Fresh.rib[k]]
             l == old.mpath
  <2>1. \/ SameRoutes(Fresh, dp')
        \/ /\ k \in DOMAIN Fresh.rib /\ RType(old) = t /\ e \in ToSet(l)
           /\ \/ Len(l) = 1 /\ Gone(Fresh, dp', v, p)
              \/ Len(l) > 1 /\ Removed(Fresh, dp', v, p, e, t)
    BY <1>0, <1>5, DeleteNhopKeeps DEF RouteNhopDelete
  <2>2. CASE /\ k \in DOMAIN Fresh.rib /\ RType(old) = t /\ e \in ToSet(l)
             /\ \/ Len(l) = 1 /\ Gone(Fresh, dp', v, p)
                \/ Len(l) > 1 /\ Removed(Fresh, dp', v, p, e, t)
    <3>0. k \in Vrf \X Prefix /\ e \in Encap /\ t \in {"RT_DEFAULT", "RT_MROUTE"}
      BY RouteAssumption
    <3>1. R[k] = [type |-> t, paths |-> l]
      BY <1>0, <2>2, RoutesOfIs DEF R, RouteOf
    <3>2. k \in DOMAIN Routes /\ Routes[k].paths = l /\ RT!Holds(k, e)
      <4>1. k \in DOMAIN Routes /\ Routes[k].paths = l
        BY <1>0, <1>1, <2>2, <3>1
      <4>2. QED
        BY <2>2, <4>1 DEF RT!Holds, ToSet
    <3>3. CASE Len(l) = 1 /\ Gone(Fresh, dp', v, p)
      <4>1. Routes' = [x \in DOMAIN Routes \ {k} |-> Routes[x]]
        BY <1>3, <3>3
      <4>2. RT!DelPath(k, e)
        BY <3>2, <3>3, <4>1 DEF RT!DelPath, RT!Drop
      <4>3. QED
        BY <3>0, <4>2 DEF RT!RTNext
    <3>4. CASE Len(l) > 1 /\ Removed(Fresh, dp', v, p, e, t)
      <4> DEFINE r == NewRes(RemoveFirst(l, e), old.flags, t)
      <4>1. PICK new : new \notin DOMAIN Fresh.res /\ Switched(Fresh, dp', v, p, new, r)
        BY <3>4 DEF Removed
      <4>2. RouteOf(r) = [type |-> t, paths |-> RemoveFirst(l, e)]
        BY <3>0, NewResIs DEF RouteOf
      <4> HIDE DEF r, l, old
      <4>3. /\ DOMAIN Rp = DOMAIN R \cup {<<v, p>>} /\ Rp[<<v, p>>] = RouteOf(r)
            /\ \A x \in DOMAIN R : x # <<v, p>> => Rp[x] = R[x]
        BY <1>0, <4>1, SwitchedRoutes DEF R, Rp
      <4>4. k \in DOMAIN R /\ DOMAIN Rp = DOMAIN R
        BY <1>1, <2>2, <4>3
      <4>5. Rp = [R EXCEPT ![k].paths = RemoveFirst(l, e)]
        BY <1>1, <3>1, <4>2, <4>3, <4>4, PathsChanged
      <4>6. Routes' = [Routes EXCEPT ![k].paths = RemoveFirst(@, e)]
        BY <1>0, <3>1, <4>5
      <4>7. Len(Routes[k].paths) # 1
        <5> DEFINE n == Len(l)
        <5>1. n > 1 /\ Len(Routes[k].paths) = n
          BY <3>2, <3>4
        <5> HIDE DEF n
        <5>2. QED
          BY <5>1
      <4>8. RT!RemoveFirst(Routes[k].paths, e) = RemoveFirst(Routes[k].paths, e)
        BY DEF RT!RemoveFirst, RemoveFirst, RT!SelectInSeq, SelectInSeq, RT!RemoveAt, RemoveAt,
               RT!Min, Min
      <4>9. RT!DelPath(k, e)
        BY <3>2, <4>6, <4>7, <4>8 DEF RT!DelPath
      <4>10. QED
        BY <3>0, <4>9 DEF RT!RTNext
    <3>5. QED
      BY <2>2, <3>3, <3>4
  <2>3. QED
    BY <1>2, <2>1, <2>2
<1>6. ASSUME NEW v \in Vrf, NEW p \in Prefix, NEW pos, RouteDelete(v, p, pos)
      PROVE  RT!RTNext \/ Routes' = Routes
  <2> DEFINE o == DeleteRoute(Fresh, v, p, pos)
  <2>1. dp' = o.dp
    BY <1>6 DEF RouteDelete
  <2>2. IF <<v, p>> \in DOMAIN Fresh.rib THEN o.ret = OK /\ Gone(Fresh, o.dp, v, p) ELSE o.dp = Fresh
    BY <1>0, DeleteRouteKeeps
  <2> HIDE DEF o
  <2>3. Gone(Fresh, dp', v, p) \/ SameRoutes(Fresh, dp')
    BY <2>1, <2>2 DEF SameRoutes
  <2>4. CASE Gone(Fresh, dp', v, p)
    <3>1. RT!DelRoute(<<v, p>>)
      BY <1>3, <2>4 DEF RT!DelRoute, RT!Drop
    <3>2. <<v, p>> \in Vrf \X Prefix
      OBVIOUS
    <3>3. QED
      BY <3>1, <3>2 DEF RT!RTNext
  <2>5. QED
    BY <1>2, <2>3, <2>4
<1>7. ASSUME NEW v \in Vrf, NEW pos, RouteCleanup(v, pos)
      PROVE  RT!RTNext \/ Routes' = Routes
  <2>1. Cleaned(Fresh, dp', v)
    BY <1>0, <1>7, CleanupKeeps DEF RouteCleanup
  <2>2. Rp = [k \in {x \in DOMAIN R : x[1] # v} |-> R[k]]
    BY <1>0, <2>1, CleanedRoutes DEF R, Rp
  <2>3. RT!DelVrf(v)
    BY <1>0, <2>2 DEF RT!DelVrf
  <2>4. QED
    BY <2>3 DEF RT!RTNext
<1>8. ASSUME NEW v \in Vrf, NEW g, NEW f, OlNeighAddStatic(v, g, f)
      PROVE  Routes' = Routes
  <2>1. dp' = StaticAdd(Fresh, v, g, f).dp
    BY <1>8 DEF OlNeighAddStatic
  <2>2. SameRoutes(Fresh, dp')
    BY <1>0, <2>1, StaticAddKeeps DEF Consistent, Sound
  <2>3. QED
    BY <1>2, <2>2
<1>9. CASE UNCHANGED vars
  BY <1>9 DEF vars, Routes
<1>10. QED
  BY <1>4, <1>5, <1>6, <1>7, <1>8, <1>9 DEF RouteNext

(* What the forwarding threads read through the fib of route.c is, after   *)
(* every call, the route table the API promises: an insert adds one next   *)
(* hop, a delete removes one or the whole prefix, a cleanup removes the    *)
(* routes of its VRF only, and a call that fails changes nothing.          *)
THEOREM RouteTableRefined ==
  RouteSpec => RefinesRouteTable
<1>1. RouteInit => RT!RTInit
  BY DEF RouteInit, RT!RTInit, Routes
<1>2. QED
  BY <1>1, RouteInvariant, RefineStep, PTL DEF RouteSpec, RefinesRouteTable, RT!RTSpec

-----------------------------------------------------------------------------
(* Failed calls.                                                           *)

LEMMA TablesUndone ==
  ASSUME NEW s, NEW t, IsTables(s), IsTables(t), Undone(s, t)
  PROVE  Tables(t) = Tables(s)
<1> DEFINE a == Tables(s)
           b == Tables(t)
           zero == 0
           none == {}
<1>1. IsTables(s) /\ a = [s EXCEPT !.nh_oids = zero, !.neigh_oids = zero, !.failed = none]
  BY DEF Tables
<1>2. IsTables(t) /\ b = [t EXCEPT !.nh_oids = zero, !.neigh_oids = zero, !.failed = none]
  BY DEF Tables
<1> HIDE DEF a, b, zero, none
<1>3. /\ IsTables(a) /\ SameRoutes(s, a) /\ a.nhop = s.nhop /\ NeighBack(s, a)
      /\ a.nh_oids = zero /\ a.neigh_oids = zero /\ a.failed = none
  BY ONLY <1>1 DEF IsTables, SameRoutes, NeighBack
<1>4. /\ IsTables(b) /\ SameRoutes(t, b) /\ b.nhop = t.nhop /\ NeighBack(t, b)
      /\ b.nh_oids = zero /\ b.neigh_oids = zero /\ b.failed = none
  BY ONLY <1>2 DEF IsTables, SameRoutes, NeighBack
<1>5. /\ b.nhop = a.nhop /\ b.neigh = a.neigh /\ b.neigh_cnt = a.neigh_cnt
      /\ b.neigh_count = a.neigh_count /\ b.res = a.res /\ b.rib = a.rib /\ b.fib = a.fib
      /\ b.rib_cnt = a.rib_cnt /\ b.nh_oids = a.nh_oids /\ b.neigh_oids = a.neigh_oids
      /\ b.failed = a.failed
  BY <1>3, <1>4 DEF Undone, SameRoutes, NeighBack
<1>6. a = b
  <2>1. IsTables(a) /\ IsTables(b)
    BY <1>3, <1>4
  <2>2. QED
    BY <1>5, <2>1, Zenon DEF IsTables
<1>7. QED
  BY <1>6 DEF a, b

LEMMA UndoneStep ==
  RouteInv /\ RouteInv' /\ [RouteNext]_vars => [ret' # OK => Tables(dp') = Tables(dp)]_vars
<1> SUFFICES ASSUME Consistent(dp), Consistent(dp'), RouteNext, ret' # OK
             PROVE  Tables(dp') = Tables(dp)
  BY DEF RouteInv
<1>1. Consistent(Fresh) /\ Undone(dp, Fresh) /\ IsTables(dp) /\ IsTables(dp')
  BY FreshIs, NeighInvSame, ConsistentSame
  DEF Consistent, Sound, Undone, SameHops, SameNeigh, NeighBack
<1>2. Undone(Fresh, Fresh)
  BY DEF Undone, SameRoutes, NeighBack
<1>3. ASSUME NEW v \in Vrf, NEW p \in Prefix, NEW e \in EncapOf[v], NEW t, NEW f, NEW pos,
             RouteNhopInsert(v, p, e, t, f, pos)
      PROVE  Undone(Fresh, dp')
  BY <1>1, <1>3, InsertKeeps DEF RouteNhopInsert
<1>4. ASSUME NEW v \in Vrf, NEW p \in Prefix, NEW e \in EncapOf[v], NEW t, NEW f, NEW pos,
             RouteNhopDelete(v, p, e, t, f, pos)
      PROVE  Undone(Fresh, dp')
  BY <1>1, <1>4, DeleteNhopKeeps DEF RouteNhopDelete
<1>5. ASSUME NEW v \in Vrf, NEW p \in Prefix, NEW pos, RouteDelete(v, p, pos)
      PROVE  Undone(Fresh, dp')
  BY <1>1, <1>2, <1>5, DeleteRouteKeeps DEF RouteDelete
<1>6. ASSUME NEW v \in Vrf, NEW pos, RouteCleanup(v, pos)
      PROVE  Undone(Fresh, dp')
  BY <1>6 DEF RouteCleanup
<1>7. ASSUME NEW v \in Vrf, NEW g \in Static[v], NEW f, OlNeighAddStatic(v, g, f)
      PROVE  Undone(Fresh, dp')
  <2>1. g \in Gateways
    BY NeighAssumption
  <2>2. dp' = Fresh
    BY <1>1, <1>7, <2>1, StaticAddNeigh DEF Consistent, Sound, OlNeighAddStatic
  <2>3. QED
    BY <1>2, <2>2
<1>8. Undone(Fresh, dp')
  BY <1>3, <1>4, <1>5, <1>6, <1>7 DEF RouteNext
<1>9. Undone(dp, dp')
  BY <1>1, <1>8 DEF Undone, SameRoutes, NeighBack
<1>10. QED
  BY <1>1, <1>9, TablesUndone

(* Whatever library call fails, at whatever point of ntb_route_nhop_insert,*)
(* ntb_route_nhop_delete, ntb_route_delete or ol_neigh_add_static: the six *)
(* tables are what they were before the call; only oids may be used up.    *)
THEOREM FailedCallsUndone ==
  RouteSpec => FailedCallUndone
BY RouteInvariant, UndoneStep, PTL DEF RouteSpec, FailedCallUndone

-----------------------------------------------------------------------------
(* Neighbours, assertions and types, while vrfs share no encapsulation.    *)

LEMMA NeighCounts ==
  ASSUME Disjoint, RouteInv, NEW v \in Vrf, NEW g \in Gateways
  PROVE  LET k == <<v, g>>
         IN  /\ NCount(dp, k) = Cardinality(Users(dp, v, g)) + NStatic(dp, k)
             /\ NCount(dp, k) \in Nat /\ NStatic(dp, k) \in {0, 1}
             /\ k \in DOMAIN dp.neigh <=> NCount(dp, k) > 0
             /\ NCount(dp, k) <= Cardinality(Encap) + 1
<1>1. NeighOK(dp) /\ NeighsCounted(dp)
  BY DEF RouteInv, Consistent, Sound, NeighInv
<1> DEFINE k == <<v, g>>
           n == Cardinality(Users(dp, v, g))
<1>2. NCount(dp, k) = n + NStatic(dp, k)
  BY <1>1 DEF NeighsCounted
<1>3. n \in Nat /\ n <= Cardinality(Encap) /\ Cardinality(Encap) \in Nat
  BY UsersIs
<1> HIDE DEF k, n
<1>4. NCount(dp, k) \in Nat /\ NStatic(dp, k) \in {0, 1} /\ (k \in DOMAIN dp.neigh <=> NCount(dp, k) > 0)
  BY <1>1, NCountIs
<1>5. NCount(dp, k) <= Cardinality(Encap) + 1
  BY <1>2, <1>3, <1>4
<1>6. QED
  BY <1>2, <1>4, <1>5 DEF k, n

(* The references nhop_obj_create and nhop_obj_delete hold to a neighbour  *)
(* are counted exactly: it is freed with its last next hop unless it is    *)
(* static, and never before.                                               *)
THEOREM NeighboursExact ==
  ASSUME Disjoint
  PROVE  RouteSpec => []NeighExact
<1>1. RouteInv => NeighExact
  <2> SUFFICES ASSUME RouteInv
               PROVE  NeighExact
    OBVIOUS
  <2>1. dp.neigh_count = Cardinality(DOMAIN dp.neigh)
    BY DEF RouteInv, Consistent, Sound, NeighInv, NeighOK
  <2>2. ASSUME NEW v \in Vrf, NEW g \in Gateways
        PROVE  LET users == {e \in DOMAIN dp.nhop \cap EncapOf[v] : Gateway[e] = g}
                   static == <<v, g>> \in DOMAIN dp.neigh /\ dp.neigh[<<v, g>>].static
                   refs == Cardinality(users) + (IF static THEN 1 ELSE 0)
               IN  IF refs = 0 THEN <<v, g>> \notin DOMAIN dp.neigh
                   ELSE <<v, g>> \in DOMAIN dp.neigh /\ dp.neigh[<<v, g>>].refcnt = refs
    <3> DEFINE k == <<v, g>>
               refs == Cardinality(Users(dp, v, g)) + NStatic(dp, k)
    <3>1. /\ NCount(dp, k) = refs /\ refs \in Nat
          /\ k \in DOMAIN dp.neigh <=> NCount(dp, k) > 0
      BY NeighCounts
    <3> HIDE DEF refs
    <3>2. IF refs = 0 THEN k \notin DOMAIN dp.neigh
          ELSE k \in DOMAIN dp.neigh /\ dp.neigh[k].refcnt = refs
      BY <3>1 DEF NCount
    <3>3. QED
      BY <3>2 DEF refs, Users, NStatic
  <2>3. QED
    BY <2>1, <2>2 DEF NeighExact
<1>2. QED
  BY <1>1, RouteInvariant, PTL

(* No counter of route.c or neigh.c wraps and every entry of the tables    *)
(* names an object that exists.                                            *)
THEOREM RouteTypeCorrect ==
  ASSUME Disjoint
  PROVE  RouteSpec => []RouteTypeOK
<1>1. RouteInv => RouteTypeOK
  <2> SUFFICES ASSUME RouteInv
               PROVE  RouteTypeOK
    OBVIOUS
  <2>0. /\ RoutesOK(dp) /\ HopsOK(dp) /\ NeighOK(dp) /\ HopEntries(dp) /\ Counted(dp, {})
    BY DEF RouteInv, Consistent, Sound, NeighInv
  <2>1. ASSUME NEW e \in DOMAIN dp.nhop
        PROVE  dp.nhop[e].ref_count \in 1 .. U32 - 1
    <3>1. e \in Encap /\ dp.nhop[e].ref_count \in Nat \ {0}
      BY <2>0 DEF HopsOK
    <3>2. dp.nhop[e].ref_count = Cardinality(Using(dp, e))
      BY <2>0, <3>1, UsingFinite DEF Counted, Count, Ind
    <3>3. Cardinality(Using(dp, e)) <= NrFibRes
      BY <2>0, UsingFinite
    <3>4. QED
      BY <3>1, <3>2, <3>3, RouteAssumption
  <2>2. ASSUME NEW k \in DOMAIN dp.neigh
        PROVE  dp.neigh[k].refcnt \in 1 .. U32 - 1
    <3>1. k \in Vrf \X Gateways /\ dp.neigh[k].refcnt \in Nat \ {0}
      BY <2>0 DEF NeighOK, NeighRecord
    <3>2. PICK v \in Vrf, g \in Gateways : k = <<v, g>>
      BY <3>1
    <3>3. dp.neigh[k].refcnt <= Cardinality(Encap) + 1
      BY <3>2, NeighCounts DEF NCount
    <3>4. Cardinality(Encap) \in Nat /\ Cardinality(Encap) + 1 < U32
      BY RouteAssumption, NeighAssumption, FS_CardinalityType
    <3>5. QED
      BY <3>1, <3>3, <3>4, RouteAssumption
  <2>3. dp.neigh_count \in 0 .. U32 - 1
    <3>1. DOMAIN dp.neigh \subseteq Vrf \X Gateways /\ dp.neigh_count = Cardinality(DOMAIN dp.neigh)
      BY <2>0 DEF NeighOK
    <3>2. QED
      BY <3>1, NeighFits, RouteAssumption
  <2>4. dp.rib_cnt \in [Vrf -> 0 .. Cardinality(Prefix)]
    <3>1. \A v \in Vrf : PrefixesOf(dp, v) \subseteq Prefix
      BY DEF PrefixesOf
    <3>2. /\ Cardinality(Prefix) \in Nat
          /\ \A v \in Vrf : /\ Cardinality(PrefixesOf(dp, v)) \in Nat
                            /\ Cardinality(PrefixesOf(dp, v)) <= Cardinality(Prefix)
      BY <3>1, RouteAssumption, FS_Subset, FS_CardinalityType
    <3>3. QED
      BY <2>0, <3>2 DEF RoutesOK, PerVrf, IsFcn
  <2>5. QED
    BY <2>0, <2>1, <2>2, <2>3, <2>4
    DEF RouteTypeOK, RoutesOK, HopsOK, NeighOK, HopEntries, Blackhole
<1>2. QED
  BY <1>1, RouteInvariant, PTL

(* While vrfs share no encapsulation, whatever a delete of route.c releases*)
(* was there to release: the next hop's and the prefix's key in their      *)
(* hashes (522, 669), the neighbour (527), the fib entry (667) and a place *)
(* in rib_cnt (671), wherever the hashes keep their keys.  The assertions  *)
(* on the position itself (536, 723, 788) are left out: they fail.         *)
THEOREM AssertionsHold ==
  ASSUME Disjoint
  PROVE  RouteSpec => []AssertsHold
<1>1. RouteInit => AssertsHold
  BY DEF RouteInit, AssertsHold
<1>2. RouteInv /\ AssertsHold /\ [RouteNext]_vars => AssertsHold'
  <2> SUFFICES ASSUME Consistent(dp), dp.failed \subseteq PositionAsserts, [RouteNext]_vars
               PROVE  dp'.failed \subseteq PositionAsserts
    BY DEF RouteInv, AssertsHold
  <2>1. Consistent(Fresh) /\ Fresh.failed = {}
    BY FreshIs, NeighInvSame, ConsistentSame DEF Consistent, Sound
  <2>2. ASSUME NEW v \in Vrf, NEW p \in Prefix, NEW e \in EncapOf[v], NEW t, NEW f,
               NEW pos \in HashPos, RouteNhopInsert(v, p, e, t, f, pos)
        PROVE  dp'.failed \subseteq PositionAsserts
    <3>1. Quiet(Fresh, dp', pos)
      BY <2>1, <2>2, InsertKeeps DEF RouteNhopInsert
    <3>2. QED
      BY <2>1, <3>1 DEF Quiet
  <2>3. ASSUME NEW v \in Vrf, NEW p \in Prefix, NEW e \in EncapOf[v], NEW t, NEW f,
               NEW pos \in HashPos, RouteNhopDelete(v, p, e, t, f, pos)
        PROVE  dp'.failed \subseteq PositionAsserts
    <3>1. Quiet(Fresh, dp', pos)
      BY <2>1, <2>3, DeleteNhopKeeps DEF RouteNhopDelete
    <3>2. QED
      BY <2>1, <3>1 DEF Quiet
  <2>4. ASSUME NEW v \in Vrf, NEW p \in Prefix, NEW pos \in HashPos, RouteDelete(v, p, pos)
        PROVE  dp'.failed \subseteq PositionAsserts
    <3>1. Quiet(Fresh, dp', pos)
      BY <2>1, <2>4, DeleteRouteKeeps DEF RouteDelete
    <3>2. QED
      BY <2>1, <3>1 DEF Quiet
  <2>5. ASSUME NEW v \in Vrf, NEW pos \in HashPos, RouteCleanup(v, pos)
        PROVE  dp'.failed \subseteq PositionAsserts
    <3>1. Quiet(Fresh, dp', pos)
      BY <2>1, <2>5, CleanupKeeps DEF RouteCleanup
    <3>2. QED
      BY <2>1, <3>1 DEF Quiet
  <2>6. ASSUME NEW v \in Vrf, NEW g \in Static[v], NEW f, OlNeighAddStatic(v, g, f)
        PROVE  dp'.failed \subseteq PositionAsserts
    BY <2>1, <2>6, StaticAddKeeps DEF Consistent, Sound, OlNeighAddStatic
  <2>7. CASE UNCHANGED vars
    BY <2>7 DEF vars
  <2>8. QED
    BY <2>2, <2>3, <2>4, <2>5, <2>6, <2>7 DEF RouteNext
<1>3. QED
  BY <1>1, <1>2, RouteInvariant, PTL DEF RouteSpec
=============================================================================
