------------------------------- MODULE LpmTrie -------------------------------
(***************************************************************************)
(* Fib_Hash of common/lpm_trie.h/.cpp: one std::map per prefix length and  *)
(* family, keyed by the subnet and compared with operator< of IpPrefix.    *)
(***************************************************************************)
EXTENDS IpPrefix, FiniteSetsExt

CONSTANTS Texts,       \* prefix texts callers use, well formed or not
          Lookups,     \* addresses callers look up
          Info         \* route_info strings

(* inet_pton stores bits and stoi yields numbers; what is looked up is an  *)
(* address.                                                                *)
ASSUME TextsAssumption ==
  \A t \in Texts : t.bits \in [DOMAIN t.bits -> {0, 1}] /\ t.number \subseteq Int
ASSUME LookupsAssumption == Lookups \subseteq Addr

VARIABLES fib,         \* _fib_table and _fib6_table
          out          \* what the last call returned

vars == <<fib, out>>
Result(op, ok) == [op |-> op, ok |-> ok]

-----------------------------------------------------------------------------
(* std::map: a key is found when neither is less than the other.           *)
Same(m, k) == {x \in DOMAIN m : ~PrefixLess(x, k) /\ ~PrefixLess(k, x)}
MapPut(m, k, i) ==
  IF Same(m, k) = {} THEN [x \in DOMAIN m \cup {k} |-> IF x = k THEN i ELSE m[x]]
  ELSE [x \in DOMAIN m |-> IF x \in Same(m, k) THEN i ELSE m[x]]
MapErase(m, k) == [x \in DOMAIN m \ Same(m, k) |-> m[x]]

LpmInit ==
  /\ fib = [f \in Family |-> [n \in 0 .. Width(f) |-> [p \in {} |-> {}]]]
  /\ out = Result("none", TRUE)

(* The map a prefix belongs to: by family, then by length. *)
get_fib_table(p) == fib[p.ip.family]
HasMap(p) == p.mask \in DOMAIN get_fib_table(p)

(* The reads: what they find, at most one. *)
IsExist(p) == HasMap(p) /\ Same(get_fib_table(p)[p.mask], getSubnet(p)) # {}

Get(p) ==
  {get_fib_table(p)[p.mask][x] :
     x \in IF HasMap(p) THEN Same(get_fib_table(p)[p.mask], getSubnet(p)) ELSE {}}

LookupShortest(a) ==             \* mutation: from the shortest length up
  LET At(n) == UNION {Same(fib[a.family][n], getSubnet(q)) : q \in PrefixFrom(WithMask(a, n))}
      hits == {n \in 0 .. Width(a.family) : At(n) # {}}
  IN IF hits = {} THEN {} ELSE {fib[a.family][Min(hits)][x] : x \in At(Min(hits))}

(* From the longest length down; each step prints the address with that    *)
(* length, parses the text and looks its subnet up.                        *)
Lookup(a) ==
  LET At(n) == UNION {Same(fib[a.family][n], getSubnet(q)) : q \in PrefixFrom(WithMask(a, n))}
      hits == {n \in 0 .. Width(a.family) : At(n) # {}}
  IN IF hits = {} THEN {} ELSE {fib[a.family][Max(hits)][x] : x \in At(Max(hits))}

ModifyInserts(p, i) ==           \* mutation: modify creates a missing route
  /\ fib' = [fib EXCEPT ![p.ip.family][p.mask] = MapPut(@, getSubnet(p), i)]
  /\ out' = Result("modify", TRUE)

Modify(p, i) ==
  /\ out' = Result("modify", IsExist(p))
  /\ IF IsExist(p)
     THEN fib' = [fib EXCEPT ![p.ip.family][p.mask] = MapPut(@, getSubnet(p), i)]
     ELSE UNCHANGED fib

InsertKeepsHost(p, i) ==         \* mutation: keyed by the prefix as given
  /\ fib' = [fib EXCEPT ![p.ip.family][p.mask] = MapPut(@, p, i)]
  /\ out' = Result("insert", TRUE)

Insert(p, i) ==
  /\ out' = Result("insert", HasMap(p))
  /\ IF HasMap(p)
     THEN fib' = [fib EXCEPT ![p.ip.family][p.mask] = MapPut(@, getSubnet(p), i)]
     ELSE UNCHANGED fib

(* Deleting a route that is not there is a success. *)
Delete(p) ==
  /\ out' = Result("delete", ~IsExist(p) \/ HasMap(p))
  /\ IF IsExist(p) /\ HasMap(p)
     THEN fib' = [fib EXCEPT ![p.ip.family][p.mask] = MapErase(@, getSubnet(p))]
     ELSE UNCHANGED fib

(* A text the constructor of IpPrefix refuses never reaches the table. *)
Refused(t) == PrefixFrom(t) = {} /\ out' = Result("text", FALSE) /\ UNCHANGED fib

LpmNext ==
  \E t \in Texts :
    \/ \E p \in PrefixFrom(t) : Delete(p) \/ \E i \in Info : Insert(p, i) \/ Modify(p, i)
    \/ Refused(t)

LpmSpec == LpmInit /\ [][LpmNext]_vars

-----------------------------------------------------------------------------
(* The addresses a prefix covers: those that share its first mask bits. *)
Covers ==
  [p \in Prefix |-> {a \in Addr : a.family = p.ip.family
                                  /\ \A i \in 0 .. p.mask - 1 : a.bits[i] = p.ip.bits[i]}]
Inputs == UNION {PrefixFrom(t) : t \in Texts}
Stored == UNION {UNION {DOMAIN fib[f][n] : n \in 0 .. Width(f)} : f \in Family}

(* Every key of the map for length n is a prefix of that length and family *)
(* whose host bits, whatever the caller passed, are gone.                  *)
LpmTypeOK ==
  /\ \A f \in Family : \A n \in 0 .. Width(f) : \A p \in DOMAIN fib[f][n] :
       /\ p \in Prefix /\ p.ip.family = f /\ p.mask = n /\ fib[f][n][p] \in Info
       /\ \A i \in n .. Width(f) - 1 : p.ip.bits[i] = 0
  /\ out.ok \in BOOLEAN

(* getSubnet, getBroadcastIp, getMask and isAddressInSubnet describe one   *)
(* range: the addresses in the subnet are the ones that share its first    *)
(* bits, and lie between the subnet's own address and the broadcast one in *)
(* the order of operator<.                                                 *)
SubnetIsRange ==
  \A p \in Stored :
    /\ Covers[p] = {a \in Addr : isAddressInSubnet(p, a)}
    /\ Covers[p] = {a \in Addr : a.family = p.ip.family /\ ~AddressLess(a, p.ip)
                                 /\ ~AddressLess(getBroadcastIp(p), a)}

(* The table is a route table over sets of addresses: every insert, modify *)
(* and delete, whatever host bits and text form it is given, changes the   *)
(* route of exactly the addresses its prefix covers.                       *)
RouteBlocks == [b \in {Covers[p] : p \in Stored} |->
                  LET p == CHOOSE q \in Stored : Covers[q] = b
                  IN fib[p.ip.family][p.mask][p]]
PT == INSTANCE PrefixTable WITH Block <- {Covers[p] : p \in Inputs}, routes <- RouteBlocks
RefinesPrefixTable == PT!PTSpec

(* lpm_trie_lookup answers every address of both families with the route   *)
(* of the smallest stored set that contains it, and lpm_trie_get every     *)
(* prefix with its own route.                                              *)
LookupIsLongest ==
  /\ \A a \in Lookups : Lookup(a) = PT!Best(a)
  /\ \A p \in Inputs : LET r == RouteBlocks IN
       Get(p) = IF Covers[p] \in DOMAIN r THEN {r[Covers[p]]} ELSE {}
==============================================================================
