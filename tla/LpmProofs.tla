------------------------------ MODULE LpmProofs ------------------------------
(***************************************************************************)
(* Fib_Hash and the prefixes it is keyed by, for addresses of any width.   *)
(***************************************************************************)
EXTENDS LpmTrie, ListTheorems

-----------------------------------------------------------------------------
(* Masks.                                                                  *)

LEMMA WidthIs ==
  ASSUME NEW f \in Family
  PROVE  Width(f) \in Nat \ {0}
<1>1. V6Bits \in Nat \ {0}
  BY WidthAssumption DEF V6Bits
<1>2. QED
  BY <1>1, WidthAssumption DEF Width

LEMMA DivMod ==
  ASSUME NEW b \in Nat \ {0}, NEW x \in Nat
  PROVE  /\ x \div b \in Nat /\ x % b \in 0 .. b - 1
         /\ x = b * (x \div b) + (x % b)
OBVIOUS

LEMMA MulLess ==
  ASSUME NEW b \in Nat \ {0}, NEW x \in Nat, NEW y \in Nat, x < y
  PROVE  b * x + b <= b * y
OBVIOUS

(* The bits of a prefix's mask: getMask builds them by shifting, and for   *)
(* v6 byte by byte.                                                        *)
MaskBits(w, n) == [i \in 0 .. w - 1 |-> IF i < n THEN 1 ELSE 0]

LEMMA ShlIs ==
  ASSUME NEW w \in Nat \ {0}, NEW n \in 0 .. w
  PROVE  Shl(Ones(w), w - n) = MaskBits(w, n)
<1>1. DOMAIN Ones(w) = 0 .. w - 1 /\ \A i \in 0 .. w - 1 : Ones(w)[i] = 1
  BY DEF Ones
<1>2. ASSUME NEW i \in 0 .. w - 1
      PROVE  (i + (w - n) \in 0 .. w - 1) <=> i < n
  OBVIOUS
<1>3. QED
  BY <1>1, <1>2 DEF Shl, MaskBits

LEMMA GetMaskIs ==
  ASSUME NEW p \in Prefix
  PROVE  getMask(p) = MaskBits(Width(p.ip.family), p.mask)
<1>1. /\ p.ip.family \in Family /\ p.mask \in 0 .. Width(p.ip.family)
  BY DEF Prefix
<1>2. CASE p.ip.family = "v4"
  BY <1>1, <1>2, ShlIs, WidthAssumption DEF getMask, isV4, Width
<1>3. CASE p.ip.family # "v4"
  <2> DEFINE m == p.mask
             mid == m \div ByteBits
             rest == m % ByteBits
             last == Shl(Ones(ByteBits), ByteBits - rest)
             Bit(i) == CASE i \div ByteBits < mid -> 1
                         [] i \div ByteBits = mid -> last[i % ByteBits]
                         [] OTHER -> 0
  <2>1. m \in 0 .. V6Bits /\ V6Bits \in Nat /\ ByteBits \in Nat \ {0} /\ m \in Nat
    BY <1>1, <1>3, WidthAssumption DEF Width, V6Bits
  <2>2. mid \in Nat /\ rest \in 0 .. ByteBits - 1 /\ m = ByteBits * mid + rest
    BY <2>1, DivMod
  <2>3. last = MaskBits(ByteBits, rest)
    BY <2>1, <2>2, ShlIs
  <2>4. ASSUME NEW i \in 0 .. V6Bits - 1
        PROVE  Bit(i) = IF i < m THEN 1 ELSE 0
    <3> DEFINE q == i \div ByteBits
               r == i % ByteBits
    <3>0. i \in Nat
      BY <2>1
    <3>1. q \in Nat /\ r \in 0 .. ByteBits - 1 /\ i = ByteBits * q + r /\ i \in Nat
      BY <2>1, <3>0, DivMod
    <3>2. last[r] = IF r < rest THEN 1 ELSE 0
      BY <2>3, <3>1 DEF MaskBits
    <3> HIDE DEF m, mid, rest, last, q, r
    <3>3. CASE q < mid
      <4>1. ByteBits * q + ByteBits <= ByteBits * mid
        BY <2>1, <2>2, <3>1, <3>3, MulLess
      <4>2. i < m
        BY <4>1, <2>1, <2>2, <3>1
      <4>3. QED
        BY <4>2, <3>3, <3>1, <2>2 DEF q
    <3>4. CASE q = mid
      <4>1. i < m <=> r < rest
        BY <2>1, <2>2, <3>1, <3>4
      <4>2. QED
        BY <4>1, <3>2, <3>1, <2>2, <3>4 DEF q, r
    <3>5. CASE q > mid
      <4>1. ByteBits * mid + ByteBits <= ByteBits * q
        BY <2>1, <2>2, <3>1, <3>5, MulLess
      <4>2. ~(i < m)
        BY <4>1, <2>1, <2>2, <3>1
      <4>3. QED
        BY <4>2, <3>5, <3>1, <2>2 DEF q
    <3>6. QED
      BY <3>1, <2>2, <3>3, <3>4, <3>5
  <2>5. getMask(p) = [i \in 0 .. V6Bits - 1 |-> Bit(i)]
    BY <1>3, Zenon DEF getMask, isV4
  <2>6. QED
    BY <1>3, <2>4, <2>5 DEF MaskBits, Width
<1>4. QED
  BY <1>2, <1>3

-----------------------------------------------------------------------------
(* Addresses, prefixes and subnets.                                        *)

LEMMA AddrIs ==
  ASSUME NEW a
  PROVE  a \in Addr <=> /\ a = [family |-> a.family, bits |-> a.bits]
                        /\ a.family \in Family /\ a.bits \in Bits(Width(a.family))
BY DEF Addr

LEMMA PrefixIs ==
  ASSUME NEW p
  PROVE  p \in Prefix <=> /\ p = [ip |-> p.ip, mask |-> p.mask]
                          /\ p.ip \in Addr /\ p.mask \in 0 .. Width(p.ip.family)
BY DEF Prefix, Addr

(* What getSubnet keeps of an address: its first n bits. *)
Head0(a, n) == [family |-> a.family,
                bits |-> [i \in 0 .. Width(a.family) - 1 |-> IF i < n THEN a.bits[i] ELSE 0]]
Net(a, n) == [ip |-> Head0(a, n), mask |-> n]

LEMMA NetIs ==
  ASSUME NEW a \in Addr, NEW n \in 0 .. Width(a.family)
  PROVE  /\ Head0(a, n) \in Addr /\ Net(a, n) \in Prefix
         /\ Head0(a, n).family = a.family /\ Net(a, n).ip.family = a.family
         /\ Net(a, n).mask = n /\ Net(a, n).ip = Head0(a, n)
<1>1. /\ a.family \in Family /\ a.bits \in Bits(Width(a.family))
  BY AddrIs
<1>2. Width(a.family) \in Nat
  BY <1>1, WidthIs
<1>3. Head0(a, n) \in Addr
  BY <1>1, <1>2 DEF Head0, Bits, Addr
<1>4. QED
  BY <1>3, PrefixIs DEF Net, Head0

LEMMA AndMask ==
  ASSUME NEW p \in Prefix, NEW a \in Addr, a.family = p.ip.family
  PROVE  And(a.bits, getMask(p)) = Head0(a, p.mask).bits
<1>1. /\ a.family \in Family /\ a.bits \in Bits(Width(a.family))
  BY AddrIs
<1>2. DOMAIN a.bits = 0 .. Width(a.family) - 1 /\ \A i \in DOMAIN a.bits : a.bits[i] \in {0, 1}
  BY <1>1 DEF Bits
<1>3. getMask(p) = MaskBits(Width(a.family), p.mask)
  BY GetMaskIs
<1>4. \A i \in 0 .. Width(a.family) - 1 :
        a.bits[i] * MaskBits(Width(a.family), p.mask)[i] = IF i < p.mask THEN a.bits[i] ELSE 0
  BY <1>2 DEF MaskBits
<1>5. QED
  BY <1>2, <1>3, <1>4 DEF And, Head0

(* Printing the subnet of a v6 prefix and parsing it again changes nothing. *)
LEMMA SubnetIs ==
  ASSUME NEW p \in Prefix
  PROVE  getSubnet(p) = Net(p.ip, p.mask)
<1>1. p.ip \in Addr /\ p.ip.family \in Family /\ p.mask \in 0 .. Width(p.ip.family)
  BY PrefixIs, AddrIs
<1>2. Net(p.ip, p.mask) \in Prefix /\ Head0(p.ip, p.mask) \in Addr
  BY <1>1, NetIs
<1>3. [family |-> p.ip.family, bits |-> And(p.ip.bits, getMask(p))] = Head0(p.ip, p.mask)
  BY <1>1, AndMask DEF Head0
<1>4. CASE isV4(p.ip)
  BY <1>3, <1>4 DEF getSubnet, Net
<1>5. CASE ~isV4(p.ip)
  <2> DEFINE h == Head0(p.ip, p.mask)
             text == WithMask(h, p.mask)
  <2>1. h \in Addr /\ h.family = p.ip.family /\ h.family = "v6" /\ DOMAIN h.bits = 0 .. Width("v6") - 1
    BY <1>1, <1>5, NetIs, AddrIs DEF isV4, Family, Bits
  <2>2. text.colon = TRUE /\ text.bits = h.bits /\ text.empty = FALSE /\ text.slash = TRUE
        /\ text.number = {p.mask}
    BY <2>1 DEF WithMask, AddrText, isV4
  <2>3. AddressFrom(text) = {h}
    BY <2>1, <2>2, AddrIs DEF AddressFrom
  <2>4. isValid([ip |-> h, mask |-> p.mask])
    BY <1>1, <2>1, WidthIs DEF isValid
  <2>5. PrefixFrom(text) = {[ip |-> h, mask |-> p.mask]}
    BY <2>2, <2>3, <2>4 DEF PrefixFrom
  <2>6. getSubnet(p) = CHOOSE q \in PrefixFrom(text) : TRUE
    BY <1>3, <1>5 DEF getSubnet
  <2>7. QED
    BY <2>5, <2>6 DEF Net
<1>6. QED
  BY <1>4, <1>5

(* Parsing an address printed with a length. *)
LEMMA WithMaskIs ==
  ASSUME NEW a \in Addr, NEW n \in 0 .. Width(a.family)
  PROVE  PrefixFrom(WithMask(a, n)) = {[ip |-> a, mask |-> n]}
<1> DEFINE text == WithMask(a, n)
<1>1. a.family \in Family /\ DOMAIN a.bits = 0 .. Width(a.family) - 1 /\ a = [family |-> a.family, bits |-> a.bits]
  BY AddrIs DEF Bits
<1>2. /\ text.bits = a.bits /\ text.empty = FALSE /\ text.slash = TRUE
      /\ text.number = {n} /\ text.colon = (a.family # "v4")
  BY DEF WithMask, AddrText, isV4
<1>3. AddressFrom(text) = {a}
  BY <1>1, <1>2 DEF AddressFrom, Family
<1>4. isValid([ip |-> a, mask |-> n])
  BY <1>1, WidthIs DEF isValid
<1>5. QED
  BY <1>2, <1>3, <1>4 DEF PrefixFrom

(* What a constructor builds is a prefix. *)
LEMMA PrefixFromIs ==
  ASSUME NEW t \in Texts, NEW p \in PrefixFrom(t)
  PROVE  p \in Prefix
<1>1. t.bits \in [DOMAIN t.bits -> {0, 1}] /\ t.number \subseteq Int
  BY TextsAssumption
<1>2. Zero4 \in Addr
  BY WidthAssumption, AddrIs DEF Zero4, Family, Width, Bits
<1>3. ASSUME NEW a \in AddressFrom(t)
      PROVE  a \in Addr
  BY <1>1, <1>3, AddrIs DEF AddressFrom, Family, Bits
<1>4. PICK a \in (IF t.empty THEN {Zero4} ELSE AddressFrom(t)) :
        /\ \E m \in (IF t.slash THEN t.number ELSE {Width(a.family)}) : p = [ip |-> a, mask |-> m]
        /\ isValid(p)
  BY DEF PrefixFrom
<1>5. a \in Addr
  BY <1>2, <1>3, <1>4
<1>6. Width(a.family) \in Nat
  BY <1>5, AddrIs, WidthIs
<1>7. p = [ip |-> a, mask |-> p.mask] /\ p.ip = a /\ p.mask \in Int
  BY <1>1, <1>4, <1>6
<1>8. p.mask \in 0 .. Width(a.family)
  BY <1>4, <1>6, <1>7 DEF isValid
<1>9. QED
  BY <1>5, <1>7, <1>8, PrefixIs

-----------------------------------------------------------------------------
(* The order of the keys.                                                  *)

(* Two different words differ first somewhere. *)
LEMMA FirstDiff ==
  ASSUME NEW w \in Nat, NEW a \in Bits(w), NEW b \in Bits(w), a # b
  PROVE  \E i \in 0 .. w - 1 : a[i] # b[i] /\ \A j \in 0 .. i - 1 : a[j] = b[j]
<1> DEFINE D == {i \in 0 .. w - 1 : a[i] # b[i]}
<1>1. D \in SUBSET Nat /\ D # {}
  BY DEF Bits
<1>2. Min(D) \in D /\ \A y \in D : Min(D) <= y
  BY <1>1, MinIn
<1>3. PICK i : i \in D /\ \A y \in D : i <= y
  BY <1>2
<1>4. \A j \in 0 .. i - 1 : j \in 0 .. w - 1 /\ j \notin D
  BY <1>3
<1>5. QED
  BY <1>3, <1>4

LEMMA LessIsOrder ==
  ASSUME NEW a \in Addr, NEW b \in Addr
  PROVE  ~AddressLess(a, b) /\ ~AddressLess(b, a) <=> a = b
<1>1. /\ a.family \in Family /\ a.bits \in Bits(Width(a.family))
      /\ b.family \in Family /\ b.bits \in Bits(Width(b.family))
      /\ a = [family |-> a.family, bits |-> a.bits]
      /\ b = [family |-> b.family, bits |-> b.bits]
  BY AddrIs
<1>2. ASSUME a = b
      PROVE  ~AddressLess(a, b) /\ ~AddressLess(b, a)
  <2>1. \A i \in DOMAIN a.bits : a.bits[i] \in Int
    <3>1. \A i \in DOMAIN a.bits : a.bits[i] \in {0, 1}
      BY <1>1, Zenon DEF Bits
    <3>2. QED
      BY <3>1
  <2>2. \A i \in DOMAIN a.bits : ~(a.bits[i] < a.bits[i])
    BY <2>1
  <2>3. QED
    BY <1>2, <2>2, Zenon DEF AddressLess
<1>3. ASSUME a # b
      PROVE  AddressLess(a, b) \/ AddressLess(b, a)
  <2>1. CASE a.family # b.family
    BY <1>1, <2>1 DEF AddressLess, isV4, Family
  <2>2. CASE a.family = b.family
    <3> DEFINE w == Width(a.family)
    <3>1. w \in Nat /\ a.bits \in Bits(w) /\ b.bits \in Bits(w) /\ a.bits # b.bits
      BY <1>1, <1>3, <2>2, WidthIs
    <3>2. PICK i \in 0 .. w - 1 : a.bits[i] # b.bits[i] /\ \A j \in 0 .. i - 1 : a.bits[j] = b.bits[j]
      BY <3>1, FirstDiff
    <3>0. a.bits[i] \in {0, 1} /\ b.bits[i] \in {0, 1}
      BY <3>1 DEF Bits
    <3>3. a.bits[i] < b.bits[i] \/ b.bits[i] < a.bits[i]
      BY <3>0, <3>2
    <3>4. DOMAIN a.bits = 0 .. w - 1 /\ DOMAIN b.bits = 0 .. w - 1
      BY <3>1 DEF Bits
    <3>5. QED
      BY <2>2, <3>2, <3>3, <3>4 DEF AddressLess
  <2>3. QED
    BY <2>1, <2>2
<1>4. QED
  BY <1>2, <1>3

(* The keys of the map for one length and family. *)
KeysOf(f, n) == {p \in Prefix : p.ip.family = f /\ p.mask = n}

HasKeys(m, f, n) == DOMAIN m \subseteq KeysOf(f, n)

LEMMA SameIs ==
  ASSUME NEW f, NEW n, NEW m, HasKeys(m, f, n), NEW k \in KeysOf(f, n)
  PROVE  Same(m, k) = DOMAIN m \cap {k}
<1>1. ASSUME NEW x \in KeysOf(f, n)
      PROVE  ~PrefixLess(x, k) /\ ~PrefixLess(k, x) <=> x = k
  <2>1. /\ x.mask = k.mask /\ x.ip \in Addr /\ k.ip \in Addr
        /\ x = [ip |-> x.ip, mask |-> x.mask] /\ k = [ip |-> k.ip, mask |-> k.mask]
    BY PrefixIs DEF KeysOf
  <2>2. x = k <=> x.ip = k.ip
    BY <2>1
  <2>3. PrefixLess(x, k) = AddressLess(x.ip, k.ip) /\ PrefixLess(k, x) = AddressLess(k.ip, x.ip)
    BY <2>1 DEF PrefixLess
  <2>4. QED
    BY <2>1, <2>2, <2>3, LessIsOrder
<1>2. QED
  BY <1>1 DEF Same, HasKeys

-----------------------------------------------------------------------------
(* The type invariant.                                                     *)

FibInv ==
  /\ DOMAIN fib = Family /\ \A f \in Family : DOMAIN fib[f] = 0 .. Width(f)
  /\ LpmTypeOK

LEMMA KeysFit ==
  ASSUME FibInv, NEW f \in Family, NEW n \in 0 .. Width(f)
  PROVE  HasKeys(fib[f][n], f, n)
BY DEF FibInv, LpmTypeOK, KeysOf, HasKeys

LEMMA SubnetKey ==
  ASSUME NEW p \in Prefix
  PROVE  /\ getSubnet(p) \in KeysOf(p.ip.family, p.mask)
         /\ \A i \in p.mask .. Width(p.ip.family) - 1 : getSubnet(p).ip.bits[i] = 0
<1>1. p.ip \in Addr /\ p.mask \in 0 .. Width(p.ip.family) /\ Width(p.ip.family) \in Nat
  BY PrefixIs, AddrIs, WidthIs
<1>2. getSubnet(p) = Net(p.ip, p.mask)
  BY SubnetIs
<1>3. Net(p.ip, p.mask) \in KeysOf(p.ip.family, p.mask)
  BY <1>1, NetIs DEF KeysOf
<1>4. \A i \in p.mask .. Width(p.ip.family) - 1 : Head0(p.ip, p.mask).bits[i] = 0
  BY <1>1 DEF Head0
<1>5. Net(p.ip, p.mask).ip = Head0(p.ip, p.mask)
  BY DEF Net
<1>6. QED
  BY <1>2, <1>3, <1>4, <1>5

(* The assignment of one map. *)
Assign(f, n, X) == fib' = [fib EXCEPT ![f][n] = X]

LEMMA MapSet ==
  ASSUME FibInv, NEW f \in Family, NEW n \in 0 .. Width(f), NEW X, Assign(f, n, X)
  PROVE  /\ DOMAIN fib' = Family /\ \A g \in Family : DOMAIN fib'[g] = 0 .. Width(g)
         /\ fib'[f][n] = X
         /\ \A g \in Family : \A m \in 0 .. Width(g) : <<g, m>> # <<f, n>> => fib'[g][m] = fib[g][m]
BY DEF FibInv, Assign

LEMMA LpmInitOK == LpmInit => FibInv
<1> SUFFICES ASSUME LpmInit PROVE FibInv
  OBVIOUS
<1>1. /\ fib = [f \in Family |-> [n \in 0 .. Width(f) |-> [p \in {} |-> {}]]]
      /\ out = Result("none", TRUE)
  BY DEF LpmInit
<1>2. \A f \in Family : \A n \in 0 .. Width(f) : DOMAIN fib[f][n] = {}
  BY <1>1
<1>3. QED
  BY <1>1, <1>2 DEF FibInv, LpmTypeOK, Result

(* A call that sets one map to one whose keys are the old ones, or the     *)
(* subnet of the prefix it was given, and whose values are routes.         *)
LEMMA SetKeepsInv ==
  ASSUME FibInv, NEW p \in Prefix, NEW X, out'.ok \in BOOLEAN,
         Assign(p.ip.family, p.mask, X),
         DOMAIN X \subseteq DOMAIN fib[p.ip.family][p.mask] \cup {getSubnet(p)},
         \A x \in DOMAIN X : X[x] \in Info
  PROVE  FibInv'
<1> DEFINE f == p.ip.family
           n == p.mask
<1>1. f \in Family /\ n \in 0 .. Width(f)
  BY PrefixIs, AddrIs
<1>2. /\ DOMAIN fib' = Family /\ \A g \in Family : DOMAIN fib'[g] = 0 .. Width(g)
      /\ fib'[f][n] = X
      /\ \A g \in Family : \A m \in 0 .. Width(g) : <<g, m>> # <<f, n>> => fib'[g][m] = fib[g][m]
  BY <1>1, MapSet
<1> HIDE DEF f, n
<1>3. ASSUME NEW g \in Family, NEW m \in 0 .. Width(g), NEW x \in DOMAIN fib'[g][m]
      PROVE  /\ x \in Prefix /\ x.ip.family = g /\ x.mask = m /\ fib'[g][m][x] \in Info
             /\ \A i \in m .. Width(g) - 1 : x.ip.bits[i] = 0
  <2>1. CASE <<g, m>> # <<f, n>>
    BY <1>2, <1>3, <2>1 DEF FibInv, LpmTypeOK
  <2>2. CASE <<g, m>> = <<f, n>>
    <3>1. g = f /\ m = n /\ fib'[g][m] = X
      BY <1>2, <2>2
    <3>2. X[x] \in Info
      BY <3>1, <1>3
    <3>3. CASE x \in DOMAIN fib[f][n]
      BY <1>1, <3>1, <3>2, <3>3 DEF FibInv, LpmTypeOK
    <3>4. CASE x = getSubnet(p)
      BY <3>1, <3>2, <3>4, SubnetKey DEF KeysOf, f, n
    <3>5. QED
      BY <1>3, <3>1, <3>3, <3>4 DEF f, n
  <2>3. QED
    BY <2>1, <2>2
<1>4. QED
  BY <1>2, <1>3 DEF FibInv, LpmTypeOK

(* What the calls do, once the map of the prefix is found. *)
Table(p) == fib[p.ip.family][p.mask]

LEMMA FoundMap ==
  ASSUME FibInv, NEW p \in Prefix
  PROVE  /\ p.ip.family \in Family /\ p.mask \in 0 .. Width(p.ip.family)
         /\ HasMap(p) /\ get_fib_table(p)[p.mask] = Table(p)
         /\ HasKeys(Table(p), p.ip.family, p.mask)
         /\ \A x \in DOMAIN Table(p) : Table(p)[x] \in Info
         /\ IsExist(p) <=> getSubnet(p) \in DOMAIN Table(p)
<1>1. p.ip.family \in Family /\ p.mask \in 0 .. Width(p.ip.family)
  BY PrefixIs, AddrIs
<1>2. HasMap(p) /\ get_fib_table(p)[p.mask] = Table(p)
  BY <1>1 DEF FibInv, HasMap, get_fib_table, Table
<1>3. HasKeys(Table(p), p.ip.family, p.mask)
  BY <1>1, KeysFit DEF Table
<1>4. \A x \in DOMAIN Table(p) : Table(p)[x] \in Info
  BY <1>1 DEF FibInv, LpmTypeOK, Table
<1>5. Same(Table(p), getSubnet(p)) = DOMAIN Table(p) \cap {getSubnet(p)}
  BY <1>3, SubnetKey, SameIs
<1>6. QED
  BY <1>1, <1>2, <1>3, <1>4, <1>5 DEF IsExist

LEMMA PutIs ==
  ASSUME FibInv, NEW p \in Prefix, NEW i
  PROVE  LET X == MapPut(Table(p), getSubnet(p), i)
         IN  /\ DOMAIN X = DOMAIN Table(p) \cup {getSubnet(p)}
             /\ \A x \in DOMAIN X : X[x] = IF x = getSubnet(p) THEN i ELSE Table(p)[x]
<1> DEFINE m == Table(p)
           k == getSubnet(p)
           f == p.ip.family
           n == p.mask
<1>1. HasKeys(m, f, n) /\ k \in KeysOf(f, n)
  BY FoundMap, SubnetKey
<1> HIDE DEF m, k, f, n
<1>2. /\ DOMAIN MapPut(m, k, i) = DOMAIN m \cup {k}
      /\ \A x \in DOMAIN m \cup {k} : MapPut(m, k, i)[x] = IF x = k THEN i ELSE m[x]
  <2>1. Same(m, k) = DOMAIN m \cap {k}
    BY <1>1, SameIs
  <2>2. QED
    BY <2>1 DEF MapPut
<1>3. QED
  BY <1>2 DEF m, k

LEMMA EraseIs ==
  ASSUME FibInv, NEW p \in Prefix
  PROVE  LET X == MapErase(Table(p), getSubnet(p))
         IN  /\ DOMAIN X = DOMAIN Table(p) \ {getSubnet(p)}
             /\ \A x \in DOMAIN X : X[x] = Table(p)[x]
<1> DEFINE m == Table(p)
           k == getSubnet(p)
           f == p.ip.family
           n == p.mask
<1>1. HasKeys(m, f, n) /\ k \in KeysOf(f, n)
  BY FoundMap, SubnetKey
<1> HIDE DEF m, k, f, n
<1>2. /\ DOMAIN MapErase(m, k) = DOMAIN m \ {k}
      /\ \A x \in DOMAIN m \ {k} : MapErase(m, k)[x] = m[x]
  <2>1. Same(m, k) = DOMAIN m \cap {k}
    BY <1>1, SameIs
  <2>2. QED
    BY <2>1 DEF MapErase
<1>3. QED
  BY <1>2 DEF m, k

LEMMA LpmStep == FibInv /\ [LpmNext]_vars => FibInv'
<1> SUFFICES ASSUME FibInv, [LpmNext]_vars PROVE FibInv'
  OBVIOUS
<1>1. CASE UNCHANGED vars
  BY <1>1 DEF vars, FibInv, LpmTypeOK
<1>2. ASSUME NEW t \in Texts, Refused(t)
      PROVE  FibInv'
  BY <1>2 DEF Refused, FibInv, LpmTypeOK, Result
<1>3. ASSUME NEW t \in Texts, NEW p \in PrefixFrom(t), NEW i \in Info, Insert(p, i) \/ Modify(p, i)
      PROVE  FibInv'
  <2> DEFINE X == MapPut(Table(p), getSubnet(p), i)
  <2>1. p \in Prefix
    BY PrefixFromIs
  <2>2. HasMap(p) /\ IsExist(p) \in BOOLEAN
    BY <2>1, FoundMap, Zenon DEF IsExist
  <2>3. out'.ok \in BOOLEAN
    <3>1. CASE Insert(p, i)
      BY <3>1, <2>2 DEF Insert, Result
    <3>2. CASE Modify(p, i)
      BY <3>2, <2>2 DEF Modify, Result
    <3>3. QED
      BY <1>3, <3>1, <3>2
  <2>4. CASE UNCHANGED fib
    BY <2>3, <2>4 DEF FibInv, LpmTypeOK
  <2>5. CASE Assign(p.ip.family, p.mask, X)
    <3>1. /\ DOMAIN X = DOMAIN Table(p) \cup {getSubnet(p)}
          /\ \A x \in DOMAIN X : X[x] = IF x = getSubnet(p) THEN i ELSE Table(p)[x]
      BY <2>1, PutIs
    <3> HIDE DEF X
    <3>2. \A x \in DOMAIN X : X[x] \in Info
      BY <3>1, <2>1, FoundMap
    <3>3. DOMAIN X \subseteq DOMAIN fib[p.ip.family][p.mask] \cup {getSubnet(p)}
      BY <3>1 DEF Table
    <3>4. QED
      BY <2>1, <2>3, <2>5, <3>2, <3>3, SetKeepsInv
  <2>6. QED
    BY <1>3, <2>2, <2>4, <2>5 DEF Insert, Modify, Table, Assign
<1>4. ASSUME NEW t \in Texts, NEW p \in PrefixFrom(t), Delete(p)
      PROVE  FibInv'
  <2> DEFINE X == MapErase(Table(p), getSubnet(p))
  <2>1. p \in Prefix
    BY PrefixFromIs
  <2>3. out'.ok \in BOOLEAN
    BY <1>4 DEF Delete, Result
  <2>4. CASE UNCHANGED fib
    BY <2>3, <2>4 DEF FibInv, LpmTypeOK
  <2>5. CASE Assign(p.ip.family, p.mask, X)
    <3>1. /\ DOMAIN X = DOMAIN Table(p) \ {getSubnet(p)}
          /\ \A x \in DOMAIN X : X[x] = Table(p)[x]
      BY <2>1, EraseIs
    <3> HIDE DEF X
    <3>2. \A x \in DOMAIN X : X[x] \in Info
      BY <3>1, <2>1, FoundMap
    <3>3. DOMAIN X \subseteq DOMAIN fib[p.ip.family][p.mask] \cup {getSubnet(p)}
      BY <3>1 DEF Table
    <3>4. QED
      BY <2>1, <2>3, <2>5, <3>2, <3>3, SetKeepsInv
  <2>6. QED
    BY <1>4, <2>4, <2>5 DEF Delete, Table, Assign
<1>5. QED
  BY <1>1, <1>2, <1>3, <1>4 DEF LpmNext

(* FibInv is inductive: fib_add and fib_del file every prefix in the map   *)
(* of its family and length, in canonical form, whatever they are given.   *)
THEOREM LpmInvariant == LpmSpec => []FibInv
<1>1. QED
  BY LpmInitOK, LpmStep, PTL DEF LpmSpec

(* Whatever text or host bits a caller passes, the map of a length holds   *)
(* only canonical prefixes of that length and family (LpmTypeOK).          *)
THEOREM LpmTypeCorrect == LpmSpec => []LpmTypeOK
<1>1. FibInv => LpmTypeOK
  BY DEF FibInv
<1>2. QED
  BY <1>1, LpmInvariant, PTL

-----------------------------------------------------------------------------
(* The range a prefix covers.                                              *)

LEMMA AddrBits ==
  ASSUME NEW a \in Addr
  PROVE  /\ a.family \in Family /\ Width(a.family) \in Nat \ {0}
         /\ DOMAIN a.bits = 0 .. Width(a.family) - 1
         /\ \A i \in 0 .. Width(a.family) - 1 : a.bits[i] \in {0, 1}
         /\ a.bits \in Bits(Width(a.family))
<1>1. a.family \in Family /\ a.bits \in Bits(Width(a.family))
  BY AddrIs
<1>2. QED
  BY <1>1, WidthIs, Zenon DEF Bits

Starts(p, a) == a.family = p.ip.family /\ \A i \in 0 .. p.mask - 1 : a.bits[i] = p.ip.bits[i]

LEMMA CoversIs ==
  ASSUME NEW p \in Prefix
  PROVE  Covers[p] = {a \in Addr : Starts(p, a)}
BY DEF Covers, Starts

LEMMA InSubnetIs ==
  ASSUME NEW p \in Prefix, NEW a \in Addr
  PROVE  isAddressInSubnet(p, a) <=> Starts(p, a)
<1>1. p.ip \in Addr /\ p.mask \in 0 .. Width(p.ip.family)
  BY PrefixIs
<1>2. CASE a.family # p.ip.family
  BY <1>2 DEF isAddressInSubnet, Starts
<1>3. CASE a.family = p.ip.family
  <2> DEFINE w == Width(a.family)
             n == p.mask
             A == [i \in 0 .. w - 1 |-> IF i < n THEN a.bits[i] ELSE 0]
             P == [i \in 0 .. w - 1 |-> IF i < n THEN p.ip.bits[i] ELSE 0]
  <2>1. And(a.bits, getMask(p)) = A /\ And(p.ip.bits, getMask(p)) = P
    BY <1>1, <1>3, AndMask DEF Head0
  <2>2. w \in Nat /\ n \in 0 .. w
    BY <1>1, <1>3, AddrBits
  <2> HIDE DEF w, n
  <2>3. A = P <=> \A i \in 0 .. n - 1 : a.bits[i] = p.ip.bits[i]
    <3>1. ASSUME A = P, NEW i \in 0 .. n - 1
          PROVE  a.bits[i] = p.ip.bits[i]
      <4>1. i \in 0 .. w - 1 /\ i < n
        BY <2>2
      <4>2. A[i] = a.bits[i] /\ P[i] = p.ip.bits[i]
        BY <4>1
      <4>3. QED
        BY <3>1, <4>2
    <3>2. ASSUME \A i \in 0 .. n - 1 : a.bits[i] = p.ip.bits[i], NEW i \in 0 .. w - 1
          PROVE  (IF i < n THEN a.bits[i] ELSE 0) = (IF i < n THEN p.ip.bits[i] ELSE 0)
      BY <2>2, <3>2
    <3>3. QED
      BY <3>1, <3>2
  <2>4. QED
    BY <1>3, <2>1, <2>3 DEF isAddressInSubnet, Starts, n
<1>4. QED
  BY <1>2, <1>3

LEMMA BroadcastIs ==
  ASSUME NEW p \in Prefix
  PROVE  /\ getBroadcastIp(p).family = p.ip.family
         /\ DOMAIN getBroadcastIp(p).bits = 0 .. Width(p.ip.family) - 1
         /\ \A i \in 0 .. Width(p.ip.family) - 1 :
              getBroadcastIp(p).bits[i] = IF i < p.mask THEN p.ip.bits[i] ELSE 1
<1>1. p.ip \in Addr /\ p.mask \in 0 .. Width(p.ip.family)
  BY PrefixIs
<1> DEFINE w == Width(p.ip.family)
           b == p.ip.bits
<1>2. DOMAIN b = 0 .. w - 1 /\ \A i \in 0 .. w - 1 : b[i] \in {0, 1}
  BY <1>1, AddrBits
<1>3. getMask(p) = MaskBits(w, p.mask)
  BY GetMaskIs
<1>4. OrNot(b, getMask(p)) = [i \in 0 .. w - 1 |-> IF b[i] = 1 \/ MaskBits(w, p.mask)[i] = 0 THEN 1 ELSE 0]
  BY <1>2, <1>3 DEF OrNot
<1>5. \A i \in 0 .. w - 1 : (IF b[i] = 1 \/ MaskBits(w, p.mask)[i] = 0 THEN 1 ELSE 0)
                            = IF i < p.mask THEN b[i] ELSE 1
  BY <1>1, <1>2 DEF MaskBits
<1>6. QED
  BY <1>4, <1>5 DEF getBroadcastIp

LEMMA LessIs ==
  ASSUME NEW a, NEW b, a.family = b.family
  PROVE  AddressLess(a, b) <=>
           \E i \in DOMAIN a.bits : a.bits[i] < b.bits[i] /\ \A j \in 0 .. i - 1 : a.bits[j] = b.bits[j]
BY DEF AddressLess

(* The addresses of a canonical prefix lie between its own address and the *)
(* broadcast address.                                                      *)
LEMMA RangeIs ==
  ASSUME NEW p \in Prefix, NEW a \in Addr, a.family = p.ip.family,
         \A i \in p.mask .. Width(p.ip.family) - 1 : p.ip.bits[i] = 0
  PROVE  Starts(p, a) <=> ~AddressLess(a, p.ip) /\ ~AddressLess(getBroadcastIp(p), a)
<1> DEFINE w == Width(p.ip.family)
           n == p.mask
           c == getBroadcastIp(p)
<1>1. p.ip \in Addr /\ n \in 0 .. w /\ w \in Nat
  BY PrefixIs, AddrBits
<1>2. /\ DOMAIN a.bits = 0 .. w - 1 /\ \A i \in 0 .. w - 1 : a.bits[i] \in {0, 1}
      /\ DOMAIN p.ip.bits = 0 .. w - 1 /\ \A i \in 0 .. w - 1 : p.ip.bits[i] \in {0, 1}
  BY <1>1, AddrBits
<1>3. /\ c.family = p.ip.family /\ DOMAIN c.bits = 0 .. w - 1
      /\ \A i \in 0 .. w - 1 : c.bits[i] = IF i < n THEN p.ip.bits[i] ELSE 1
  BY BroadcastIs
<1> HIDE DEF w, n, c
<1>4. \A i \in n .. w - 1 : p.ip.bits[i] = 0
  BY DEF w, n
<1>9. Starts(p, a) <=> \A i \in 0 .. n - 1 : a.bits[i] = p.ip.bits[i]
  BY DEF Starts, n
<1>5. ASSUME Starts(p, a), AddressLess(a, p.ip)
      PROVE  FALSE
  <2>1. PICK i \in 0 .. w - 1 : a.bits[i] < p.ip.bits[i]
    BY <1>2, <1>5, LessIs
  <2>2. CASE i < n
    <3>1. i \in 0 .. n - 1
      BY <1>1, <2>2
    <3>2. a.bits[i] = p.ip.bits[i] /\ a.bits[i] \in {0, 1}
      BY <1>2, <1>5, <1>9, <3>1
    <3>3. QED
      BY <2>1, <3>2
  <2>3. CASE i >= n
    BY <1>1, <1>2, <1>4, <2>1, <2>3
  <2>4. QED
    BY <1>1, <2>2, <2>3
<1>6. ASSUME Starts(p, a), AddressLess(c, a)
      PROVE  FALSE
  <2>1. PICK i \in 0 .. w - 1 : c.bits[i] < a.bits[i]
    BY <1>3, <1>6, LessIs
  <2>2. CASE i < n
    <3>1. i \in 0 .. n - 1
      BY <1>1, <2>2
    <3>2. a.bits[i] = p.ip.bits[i] /\ a.bits[i] \in {0, 1} /\ c.bits[i] = p.ip.bits[i]
      BY <1>2, <1>3, <1>6, <1>9, <2>2, <3>1
    <3>3. QED
      BY <2>1, <3>2
  <2>3. CASE i >= n
    BY <1>1, <1>2, <1>3, <2>1, <2>3
  <2>4. QED
    BY <1>1, <2>2, <2>3
<1>7. ASSUME ~Starts(p, a)
      PROVE  AddressLess(a, p.ip) \/ AddressLess(c, a)
  <2> DEFINE D == {i \in 0 .. n - 1 : a.bits[i] # p.ip.bits[i]}
  <2>1. D # {} /\ D \in SUBSET Nat
    BY <1>1, <1>7, <1>9
  <2>2. PICK i : i \in D /\ \A y \in D : i <= y
    BY <2>1, MinIn
  <2>3. /\ i \in 0 .. n - 1 /\ i \in 0 .. w - 1 /\ a.bits[i] # p.ip.bits[i]
        /\ \A j \in 0 .. i - 1 : j \in 0 .. w - 1 /\ j < n /\ a.bits[j] = p.ip.bits[j]
    <3>1. \A j \in 0 .. i - 1 : j \in 0 .. n - 1 /\ j \notin D
      BY <1>1, <2>2
    <3>2. QED
      BY <1>1, <2>2, <3>1
  <2>4. CASE a.bits[i] < p.ip.bits[i]
    BY <1>2, <2>3, <2>4, LessIs
  <2>5. CASE p.ip.bits[i] < a.bits[i]
    <3>1. i < n /\ i \in DOMAIN c.bits
      BY <1>1, <1>3, <2>3
    <3>2. c.bits[i] = p.ip.bits[i]
      BY <1>3, <2>3, <3>1
    <3>3. \A j \in 0 .. i - 1 : c.bits[j] = a.bits[j]
      BY <1>3, <2>3
    <3>4. c.family = a.family /\ c.bits[i] < a.bits[i]
      BY <1>3, <2>5, <3>2
    <3>5. QED
      BY <3>1, <3>3, <3>4, LessIs
  <2>6. a.bits[i] \in {0, 1} /\ p.ip.bits[i] \in {0, 1}
    BY <1>2, <2>3
  <2>7. QED
    BY <2>3, <2>4, <2>5, <2>6
<1>8. QED
  BY <1>5, <1>6, <1>7 DEF c

LEMMA StoredIs ==
  ASSUME FibInv, NEW p
  PROVE  p \in Stored <=> p \in Prefix /\ p \in DOMAIN Table(p)
<1>1. ASSUME p \in Stored
      PROVE  p \in Prefix /\ p \in DOMAIN Table(p)
  BY <1>1 DEF Stored, FibInv, LpmTypeOK, Table
<1>2. ASSUME p \in Prefix, p \in DOMAIN Table(p)
      PROVE  p \in Stored
  BY <1>2, FoundMap DEF Stored, Table
<1>3. QED
  BY <1>1, <1>2

LEMMA StoredCanonical ==
  ASSUME FibInv, NEW p \in Stored
  PROVE  p \in Prefix /\ \A i \in p.mask .. Width(p.ip.family) - 1 : p.ip.bits[i] = 0
<1>1. p \in Prefix /\ p \in DOMAIN Table(p)
  BY StoredIs
<1>2. QED
  BY <1>1, FoundMap DEF Table, FibInv, LpmTypeOK

(* getMask, getBroadcastIp, isAddressInSubnet and operator< describe one   *)
(* range of addresses for every stored prefix, of both families and of any *)
(* length (SubnetIsRange).                                                 *)
THEOREM SubnetRange == LpmSpec => []SubnetIsRange
<1>1. FibInv => SubnetIsRange
  <2> SUFFICES ASSUME FibInv, NEW p \in Stored
               PROVE  /\ Covers[p] = {a \in Addr : isAddressInSubnet(p, a)}
                      /\ Covers[p] = {a \in Addr : a.family = p.ip.family /\ ~AddressLess(a, p.ip)
                                                   /\ ~AddressLess(getBroadcastIp(p), a)}
    BY DEF SubnetIsRange
  <2>1. p \in Prefix /\ \A i \in p.mask .. Width(p.ip.family) - 1 : p.ip.bits[i] = 0
    BY StoredCanonical
  <2>2. Covers[p] = {a \in Addr : Starts(p, a)}
    BY <2>1, CoversIs
  <2>3. \A a \in Addr : Starts(p, a) <=> isAddressInSubnet(p, a)
    BY <2>1, InSubnetIs
  <2>4. ASSUME NEW a \in Addr
        PROVE  Starts(p, a) <=> a.family = p.ip.family /\ ~AddressLess(a, p.ip)
                                /\ ~AddressLess(getBroadcastIp(p), a)
    <3>1. Starts(p, a) => a.family = p.ip.family
      BY DEF Starts
    <3>2. QED
      BY <2>1, <3>1, RangeIs
  <2>5. QED
    BY <2>2, <2>3, <2>4
<1>2. QED
  BY <1>1, LpmInvariant, PTL

-----------------------------------------------------------------------------
(* A canonical prefix is known by the addresses it covers.                 *)

LEMMA OwnAddress ==
  ASSUME NEW p \in Prefix
  PROVE  p.ip \in Addr /\ Starts(p, p.ip) /\ p.ip \in Covers[p]
BY PrefixIs, CoversIs DEF Starts

LEMMA CoversLonger ==
  ASSUME NEW p \in Prefix, NEW q \in Prefix, Covers[p] \subseteq Covers[q]
  PROVE  p.ip.family = q.ip.family /\ q.mask <= p.mask /\ Starts(q, p.ip)
<1>1. Starts(q, p.ip) /\ p.ip.family = q.ip.family
  BY OwnAddress, CoversIs DEF Starts
<1>2. /\ p.ip \in Addr /\ p.mask \in 0 .. Width(p.ip.family)
      /\ q.ip \in Addr /\ q.mask \in 0 .. Width(p.ip.family)
      /\ Width(p.ip.family) \in Nat
  BY <1>1, PrefixIs, AddrBits
<1>3. ASSUME p.mask < q.mask
      PROVE  FALSE
  <2> DEFINE w == Width(p.ip.family)
             n == p.mask
             b == p.ip.bits
             c == [i \in 0 .. w - 1 |-> IF i = n THEN 1 - b[i] ELSE b[i]]
             a == [family |-> p.ip.family, bits |-> c]
  <2>1. n \in 0 .. w - 1 /\ n \in 0 .. q.mask - 1 /\ w \in Nat
    BY <1>2, <1>3
  <2>2. \A i \in 0 .. w - 1 : b[i] \in {0, 1}
    BY <1>2, AddrBits
  <2>3. c \in Bits(w)
    BY <2>2 DEF Bits
  <2>4. a \in Addr
    <3>1. p.ip.family \in Family
      BY <1>2, AddrBits
    <3>2. QED
      BY <3>1, <2>3, AddrIs
  <2>5. Starts(p, a)
    <3>1. \A i \in 0 .. n - 1 : c[i] = b[i]
      <4> HIDE DEF w, n, b
      <4>1. \A i \in 0 .. n - 1 : i \in 0 .. w - 1 /\ i # n
        BY <2>1
      <4>2. QED
        BY <4>1
    <3>2. QED
      BY <3>1 DEF Starts
  <2>6. Starts(q, a)
    BY <2>4, <2>5, CoversIs
  <2>7. c[n] = q.ip.bits[n] /\ b[n] = q.ip.bits[n]
    BY <1>1, <2>1, <2>6 DEF Starts
  <2>8. c[n] = 1 - b[n] /\ b[n] \in {0, 1}
    BY <2>1, <2>2
  <2>9. QED
    BY <2>7, <2>8
<1>4. QED
  BY <1>1, <1>2, <1>3

Canonical(p) == p \in Prefix /\ \A i \in p.mask .. Width(p.ip.family) - 1 : p.ip.bits[i] = 0

LEMMA CoversInjective ==
  ASSUME NEW p, NEW q, Canonical(p), Canonical(q), Covers[p] = Covers[q]
  PROVE  p = q
<1>1. /\ p \in Prefix /\ q \in Prefix
      /\ p.ip.family = q.ip.family /\ q.mask <= p.mask /\ p.mask <= q.mask
      /\ Starts(q, p.ip)
  BY CoversLonger DEF Canonical
<1>2. /\ p.ip \in Addr /\ q.ip \in Addr /\ p.mask = q.mask
      /\ p.mask \in 0 .. Width(p.ip.family) /\ Width(p.ip.family) \in Nat
  BY <1>1, PrefixIs, AddrBits
<1> DEFINE w == Width(p.ip.family)
           n == p.mask
<1>3. ASSUME NEW i \in 0 .. w - 1
      PROVE  p.ip.bits[i] = q.ip.bits[i]
  <2>1. CASE i < n
    BY <1>1, <1>2, <2>1 DEF Starts
  <2>2. CASE i >= n
    <3>1. i \in n .. w - 1
      BY <1>2, <2>2
    <3>2. QED
      BY <3>1, <1>1, <1>2 DEF Canonical
  <2>3. QED
    BY <1>2, <2>1, <2>2
<1>4. p.ip.bits = q.ip.bits
  <2>1. p.ip.bits \in [0 .. w - 1 -> {0, 1}] /\ q.ip.bits \in [0 .. w - 1 -> {0, 1}]
    BY <1>1, <1>2, AddrBits DEF Bits
  <2> DEFINE b == p.ip.bits
             c == q.ip.bits
             S == 0 .. w - 1
  <2>2. b \in [S -> {0, 1}] /\ c \in [S -> {0, 1}] /\ \A i \in S : b[i] = c[i]
    BY <1>3, <2>1
  <2> HIDE DEF b, c, S
  <2>3. b = c
    BY <2>2
  <2>4. QED
    BY <2>3 DEF b, c
<1>5. p.ip = q.ip
  BY <1>1, <1>2, <1>4, AddrIs
<1>6. QED
  BY <1>1, <1>2, <1>5, PrefixIs

LEMMA SubnetCovers ==
  ASSUME NEW p \in Prefix
  PROVE  Canonical(getSubnet(p)) /\ Covers[getSubnet(p)] = Covers[p]
<1> DEFINE k == getSubnet(p)
<1>1. p.ip \in Addr /\ p.mask \in 0 .. Width(p.ip.family) /\ Width(p.ip.family) \in Nat
  BY PrefixIs, AddrBits
<1>2. k \in Prefix /\ k.ip.family = p.ip.family /\ k.mask = p.mask
      /\ \A i \in k.mask .. Width(k.ip.family) - 1 : k.ip.bits[i] = 0
  BY SubnetKey DEF KeysOf
<1>3. k.ip.bits = [i \in 0 .. Width(p.ip.family) - 1 |-> IF i < p.mask THEN p.ip.bits[i] ELSE 0]
  <2>1. k.ip = Head0(p.ip, p.mask)
    BY SubnetIs DEF Net
  <2>2. QED
    BY <2>1 DEF Head0
<1>4. \A i \in 0 .. p.mask - 1 : k.ip.bits[i] = p.ip.bits[i]
  BY <1>1, <1>3
<1> HIDE DEF k
<1>5. \A a : Starts(k, a) <=> Starts(p, a)
  BY <1>2, <1>4 DEF Starts
<1>6. Covers[k] = Covers[p]
  BY <1>2, <1>5, CoversIs
<1>7. QED
  BY <1>2, <1>6 DEF Canonical, k

-----------------------------------------------------------------------------
(* The route table over sets of addresses.                                 *)

RoutesOK ==
  /\ Stored = {p \in Prefix : p \in DOMAIN fib[p.ip.family][p.mask]}
  /\ \A p \in Stored : Canonical(p)
  /\ RouteBlocks = [b \in DOMAIN RouteBlocks |-> RouteBlocks[b]]
  /\ DOMAIN RouteBlocks = {Covers[p] : p \in Stored}
  /\ \A p \in Stored : RouteBlocks[Covers[p]] = fib[p.ip.family][p.mask][p]

LEMMA RoutesAre == FibInv => RoutesOK
<1> SUFFICES ASSUME FibInv PROVE RoutesOK
  OBVIOUS
<1>1. Stored = {p \in Prefix : p \in DOMAIN fib[p.ip.family][p.mask]}
  BY StoredIs DEF Table
<1>2. \A p \in Stored : Canonical(p)
  BY StoredCanonical DEF Canonical
<1> DEFINE At(b) == CHOOSE q \in Stored : Covers[q] = b
<1>3. RouteBlocks = [b \in {Covers[p] : p \in Stored} |-> fib[At(b).ip.family][At(b).mask][At(b)]]
  BY DEF RouteBlocks
<1>4. ASSUME NEW p \in Stored
      PROVE  At(Covers[p]) = p
  <2>1. At(Covers[p]) \in Stored /\ Covers[At(Covers[p])] = Covers[p]
    OBVIOUS
  <2>2. QED
    BY <1>2, <2>1, CoversInjective
<1> DEFINE D == {Covers[p] : p \in Stored}
           F(b) == fib[At(b).ip.family][At(b).mask][At(b)]
<1>5. RouteBlocks = [b \in D |-> F(b)]
  BY <1>3
<1>6. \A p \in Stored : F(Covers[p]) = fib[p.ip.family][p.mask][p] /\ Covers[p] \in D
  BY <1>4
<1> HIDE DEF D, F, At
<1>7. DOMAIN RouteBlocks = D /\ RouteBlocks = [b \in DOMAIN RouteBlocks |-> RouteBlocks[b]]
  BY <1>5
<1>8. \A p \in Stored : RouteBlocks[Covers[p]] = fib[p.ip.family][p.mask][p]
  BY <1>5, <1>6
<1>9. DOMAIN RouteBlocks = {Covers[p] : p \in Stored}
  BY <1>7 DEF D
<1>10. QED
  BY <1>1, <1>2, <1>7, <1>8, <1>9 DEF RoutesOK

(* A call that changes the map of p and leaves the others. *)
OthersSame(p) ==
  \A f \in Family : \A n \in 0 .. Width(f) :
    <<f, n>> # <<p.ip.family, p.mask>> => fib'[f][n] = fib[f][n]

LEMMA TableOfOther ==
  ASSUME NEW p \in Prefix, NEW q \in Prefix, OthersSame(p),
         <<q.ip.family, q.mask>> # <<p.ip.family, p.mask>>
  PROVE  fib'[q.ip.family][q.mask] = fib[q.ip.family][q.mask]
<1>1. q.ip.family \in Family /\ q.mask \in 0 .. Width(q.ip.family)
  BY PrefixIs, AddrIs
<1>2. QED
  BY <1>1 DEF OthersSame

LEMMA AddedRoute ==
  ASSUME RoutesOK, RoutesOK', NEW p \in Prefix, NEW i, OthersSame(p),
         DOMAIN fib'[p.ip.family][p.mask] = DOMAIN Table(p) \cup {getSubnet(p)},
         \A x \in DOMAIN fib'[p.ip.family][p.mask] :
           fib'[p.ip.family][p.mask][x] = IF x = getSubnet(p) THEN i ELSE Table(p)[x]
  PROVE  RouteBlocks' = [b \in DOMAIN RouteBlocks \cup {Covers[p]} |->
                           IF b = Covers[p] THEN i ELSE RouteBlocks[b]]
<1> DEFINE k == getSubnet(p)
<1>1. /\ k \in Prefix /\ Canonical(k) /\ Covers[k] = Covers[p]
      /\ k.ip.family = p.ip.family /\ k.mask = p.mask
  BY SubnetCovers, SubnetKey DEF KeysOf
<1>0. /\ DOMAIN RouteBlocks = {Covers[q] : q \in Stored}
      /\ DOMAIN RouteBlocks' = {Covers[q] : q \in Stored'}
  BY DEF RoutesOK
<1>11. /\ \A q \in Stored : RouteBlocks[Covers[q]] = fib[q.ip.family][q.mask][q]
       /\ \A q \in Stored' : RouteBlocks'[Covers[q]] = fib'[q.ip.family][q.mask][q]
  BY DEF RoutesOK
<1> HIDE DEF k
<1>2. ASSUME NEW q \in Prefix
      PROVE  q \in Stored' <=> q \in Stored \/ q = k
  <2>1. CASE <<q.ip.family, q.mask>> = <<p.ip.family, p.mask>>
    BY <1>1, <2>1 DEF RoutesOK, Table, k
  <2>2. CASE <<q.ip.family, q.mask>> # <<p.ip.family, p.mask>>
    BY <1>1, <2>2, TableOfOther DEF RoutesOK
  <2>3. QED
    BY <2>1, <2>2
<1>3. ASSUME NEW q \in Stored', q # k
      PROVE  /\ RouteBlocks'[Covers[q]] = RouteBlocks[Covers[q]]
             /\ Covers[q] # Covers[k]
  <2>1. q \in Prefix /\ q \in Stored /\ Canonical(q)
    BY <1>2, <1>3 DEF RoutesOK
  <2>2. Covers[q] # Covers[k]
    BY <1>1, <1>3, <2>1, CoversInjective
  <2>3. fib'[q.ip.family][q.mask][q] = fib[q.ip.family][q.mask][q]
    <3>1. CASE <<q.ip.family, q.mask>> = <<p.ip.family, p.mask>>
      <4>1. q \in DOMAIN fib'[p.ip.family][p.mask]
        BY <1>3, <3>1 DEF RoutesOK
      <4>2. QED
        BY <1>3, <3>1, <4>1 DEF Table, k
    <3>2. CASE <<q.ip.family, q.mask>> # <<p.ip.family, p.mask>>
      BY <2>1, <3>2, TableOfOther
    <3>3. QED
      BY <3>1, <3>2
  <2>4. QED
    BY <1>3, <1>11, <2>1, <2>2, <2>3
<1>4. k \in Stored' /\ RouteBlocks'[Covers[k]] = i
  <2>1. k \in Stored'
    BY <1>1, <1>2
  <2>2. k \in DOMAIN fib'[p.ip.family][p.mask]
    BY DEF k
  <2>3. fib'[k.ip.family][k.mask][k] = i
    BY <1>1, <2>2 DEF k
  <2>4. QED
    BY <2>1, <2>3 DEF RoutesOK
<1> DEFINE D == DOMAIN RouteBlocks
           r == RouteBlocks
<1>5. Stored' \subseteq Prefix /\ Stored \subseteq Prefix
  BY DEF RoutesOK
<1>6. DOMAIN RouteBlocks' = D \cup {Covers[k]}
  <2>1. \A q : q \in Stored' <=> q \in Stored \/ q = k
    BY <1>1, <1>2, <1>5
  <2>2. QED
    BY <1>0, <2>1
<1>7. \A b \in D \cup {Covers[k]} : RouteBlocks'[b] = IF b = Covers[k] THEN i ELSE r[b]
  <2> SUFFICES ASSUME NEW b \in D \cup {Covers[k]}
               PROVE  RouteBlocks'[b] = IF b = Covers[k] THEN i ELSE r[b]
    OBVIOUS
  <2>1. PICK q \in Stored' : b = Covers[q]
    BY <1>0, <1>6
  <2>2. QED
    BY <1>3, <1>4, <2>1
<1>8. RouteBlocks' = [b \in DOMAIN RouteBlocks' |-> RouteBlocks'[b]]
  BY DEF RoutesOK
<1> HIDE DEF D, r
<1>9. RouteBlocks' = [b \in D \cup {Covers[k]} |-> IF b = Covers[k] THEN i ELSE r[b]]
  BY <1>6, <1>7, <1>8
<1>10. QED
  BY <1>1, <1>9 DEF D, r

LEMMA RemovedRoute ==
  ASSUME RoutesOK, RoutesOK', NEW p \in Prefix, OthersSame(p),
         DOMAIN fib'[p.ip.family][p.mask] = DOMAIN Table(p) \ {getSubnet(p)},
         \A x \in DOMAIN fib'[p.ip.family][p.mask] :
           fib'[p.ip.family][p.mask][x] = Table(p)[x]
  PROVE  RouteBlocks' = [b \in DOMAIN RouteBlocks \ {Covers[p]} |-> RouteBlocks[b]]
<1> DEFINE k == getSubnet(p)
<1>1. /\ k \in Prefix /\ Canonical(k) /\ Covers[k] = Covers[p]
      /\ k.ip.family = p.ip.family /\ k.mask = p.mask
  BY SubnetCovers, SubnetKey DEF KeysOf
<1>0. /\ DOMAIN RouteBlocks = {Covers[q] : q \in Stored}
      /\ DOMAIN RouteBlocks' = {Covers[q] : q \in Stored'}
  BY DEF RoutesOK
<1>11. /\ \A q \in Stored : RouteBlocks[Covers[q]] = fib[q.ip.family][q.mask][q]
       /\ \A q \in Stored' : RouteBlocks'[Covers[q]] = fib'[q.ip.family][q.mask][q]
  BY DEF RoutesOK
<1> HIDE DEF k
<1>2. ASSUME NEW q \in Prefix
      PROVE  q \in Stored' <=> q \in Stored /\ q # k
  <2>1. CASE <<q.ip.family, q.mask>> = <<p.ip.family, p.mask>>
    BY <1>1, <2>1 DEF RoutesOK, Table, k
  <2>2. CASE <<q.ip.family, q.mask>> # <<p.ip.family, p.mask>>
    BY <1>1, <2>2, TableOfOther DEF RoutesOK
  <2>3. QED
    BY <2>1, <2>2
<1>3. ASSUME NEW q \in Stored, q # k
      PROVE  /\ q \in Stored' /\ RouteBlocks'[Covers[q]] = RouteBlocks[Covers[q]]
             /\ Covers[q] # Covers[k]
  <2>1. q \in Prefix /\ q \in Stored' /\ Canonical(q)
    BY <1>2, <1>3 DEF RoutesOK
  <2>2. Covers[q] # Covers[k]
    BY <1>1, <1>3, <2>1, CoversInjective
  <2>3. fib'[q.ip.family][q.mask][q] = fib[q.ip.family][q.mask][q]
    <3>1. CASE <<q.ip.family, q.mask>> = <<p.ip.family, p.mask>>
      <4>1. q \in DOMAIN fib'[p.ip.family][p.mask]
        BY <2>1, <3>1 DEF RoutesOK
      <4>2. QED
        BY <3>1, <4>1 DEF Table
    <3>2. CASE <<q.ip.family, q.mask>> # <<p.ip.family, p.mask>>
      BY <2>1, <3>2, TableOfOther
    <3>3. QED
      BY <3>1, <3>2
  <2>4. QED
    BY <1>3, <1>11, <2>1, <2>2, <2>3
<1> DEFINE D == DOMAIN RouteBlocks
           r == RouteBlocks
<1>5. Stored' \subseteq Prefix /\ Stored \subseteq Prefix
  BY DEF RoutesOK
<1>6. DOMAIN RouteBlocks' = D \ {Covers[k]}
  <2>1. \A q \in Stored' : q \in Stored /\ q # k
    BY <1>2, <1>5
  <2>2. DOMAIN RouteBlocks' = {Covers[q] : q \in Stored'} /\ D = {Covers[q] : q \in Stored}
    BY DEF RoutesOK
  <2>3. QED
    BY <1>3, <2>1, <2>2
<1>7. \A b \in D \ {Covers[k]} : RouteBlocks'[b] = r[b]
  <2> SUFFICES ASSUME NEW b \in D \ {Covers[k]}
               PROVE  RouteBlocks'[b] = r[b]
    OBVIOUS
  <2>1. PICK q \in Stored : b = Covers[q]
    BY DEF RoutesOK
  <2>2. QED
    BY <1>3, <2>1
<1>8. RouteBlocks' = [b \in DOMAIN RouteBlocks' |-> RouteBlocks'[b]]
  BY DEF RoutesOK
<1> HIDE DEF D, r
<1>9. RouteBlocks' = [b \in D \ {Covers[k]} |-> r[b]]
  BY <1>6, <1>7, <1>8
<1>10. QED
  BY <1>1, <1>9 DEF D, r

LEMMA ExistIs ==
  ASSUME FibInv, NEW p \in Prefix
  PROVE  /\ getSubnet(p) \in Stored <=> getSubnet(p) \in DOMAIN Table(p)
         /\ IsExist(p) <=> Covers[p] \in DOMAIN RouteBlocks
<1> DEFINE k == getSubnet(p)
<1>1. /\ k \in Prefix /\ Canonical(k) /\ Covers[k] = Covers[p]
      /\ k.ip.family = p.ip.family /\ k.mask = p.mask
  BY SubnetCovers, SubnetKey DEF KeysOf
<1>2. IsExist(p) <=> k \in DOMAIN Table(p)
  BY FoundMap
<1>3. k \in Stored <=> k \in DOMAIN Table(p)
  BY <1>1, StoredIs DEF Table
<1> HIDE DEF k
<1>4. DOMAIN RouteBlocks = {Covers[q] : q \in Stored} /\ \A q \in Stored : Canonical(q)
  BY RoutesAre DEF RoutesOK
<1>5. k \in Stored <=> Covers[k] \in DOMAIN RouteBlocks
  BY <1>1, <1>4, CoversInjective
<1>6. QED
  BY <1>1, <1>2, <1>3, <1>5 DEF k

LEMMA SameFibSameRoutes == UNCHANGED fib => UNCHANGED RouteBlocks
<1> SUFFICES ASSUME UNCHANGED fib PROVE RouteBlocks' = RouteBlocks
  OBVIOUS
<1>1. Stored' = Stored
  BY DEF Stored
<1>2. QED
  BY <1>1 DEF RouteBlocks

LEMMA PutStep ==
  ASSUME FibInv, RoutesOK, RoutesOK', NEW p \in Prefix, NEW i,
         Assign(p.ip.family, p.mask, MapPut(Table(p), getSubnet(p), i))
  PROVE  RouteBlocks' = [b \in DOMAIN RouteBlocks \cup {Covers[p]} |->
                           IF b = Covers[p] THEN i ELSE RouteBlocks[b]]
<1> DEFINE X == MapPut(Table(p), getSubnet(p), i)
<1>1. /\ DOMAIN X = DOMAIN Table(p) \cup {getSubnet(p)}
      /\ \A x \in DOMAIN X : X[x] = IF x = getSubnet(p) THEN i ELSE Table(p)[x]
  BY PutIs
<1> HIDE DEF X
<1>2. p.ip.family \in Family /\ p.mask \in 0 .. Width(p.ip.family)
  BY FoundMap
<1>3. fib'[p.ip.family][p.mask] = X /\ OthersSame(p)
  BY <1>2, MapSet DEF OthersSame, X
<1>4. QED
  BY <1>1, <1>3, AddedRoute

LEMMA EraseStep ==
  ASSUME FibInv, RoutesOK, RoutesOK', NEW p \in Prefix,
         Assign(p.ip.family, p.mask, MapErase(Table(p), getSubnet(p)))
  PROVE  RouteBlocks' = [b \in DOMAIN RouteBlocks \ {Covers[p]} |-> RouteBlocks[b]]
<1> DEFINE X == MapErase(Table(p), getSubnet(p))
<1>1. /\ DOMAIN X = DOMAIN Table(p) \ {getSubnet(p)}
      /\ \A x \in DOMAIN X : X[x] = Table(p)[x]
  BY EraseIs
<1> HIDE DEF X
<1>2. p.ip.family \in Family /\ p.mask \in 0 .. Width(p.ip.family)
  BY FoundMap
<1>3. fib'[p.ip.family][p.mask] = X /\ OthersSame(p)
  BY <1>2, MapSet DEF OthersSame, X
<1>4. QED
  BY <1>1, <1>3, RemovedRoute

LEMMA TableStep ==
  ASSUME FibInv, RoutesOK, RoutesOK', LpmNext
  PROVE  PT!PTNext
<1>1. ASSUME NEW t \in Texts, Refused(t)
      PROVE  PT!PTNext
  <2>1. out' = PT!Result("text", FALSE) /\ UNCHANGED RouteBlocks
    BY <1>1, SameFibSameRoutes DEF Refused, Result, PT!Result
  <2>2. QED
    BY <2>1 DEF PT!PTNext, PT!Refuse
<1>2. ASSUME NEW t \in Texts, NEW p \in PrefixFrom(t)
      PROVE  p \in Prefix /\ HasMap(p) /\ Covers[p] \in {Covers[q] : q \in Inputs}
  <2>1. p \in Inputs
    BY DEF Inputs
  <2>2. QED
    BY <2>1, PrefixFromIs, FoundMap
<1>3. ASSUME NEW t \in Texts, NEW p \in PrefixFrom(t), NEW i \in Info, Insert(p, i)
      PROVE  PT!PTNext
  <2>1. out' = PT!Result("insert", TRUE) /\ Assign(p.ip.family, p.mask, MapPut(Table(p), getSubnet(p), i))
    BY <1>2, <1>3 DEF Insert, Result, PT!Result, Assign, Table
  <2>2. RouteBlocks' = [b \in DOMAIN RouteBlocks \cup {Covers[p]} |->
                          IF b = Covers[p] THEN i ELSE RouteBlocks[b]]
    BY <1>2, <2>1, PutStep
  <2>3. PT!SetRoute(Covers[p], i, "insert")
    BY <2>1, <2>2, Zenon DEF PT!SetRoute
  <2>4. QED
    BY <1>2, <2>3 DEF PT!PTNext
<1>4. ASSUME NEW t \in Texts, NEW p \in PrefixFrom(t), NEW i \in Info, Modify(p, i)
      PROVE  PT!PTNext
  <2>1. CASE IsExist(p)
    <3>1. out' = PT!Result("modify", TRUE) /\ Assign(p.ip.family, p.mask, MapPut(Table(p), getSubnet(p), i))
      BY <1>4, <2>1 DEF Modify, Result, PT!Result, Assign, Table
    <3>2. RouteBlocks' = [b \in DOMAIN RouteBlocks \cup {Covers[p]} |->
                            IF b = Covers[p] THEN i ELSE RouteBlocks[b]]
      BY <1>2, <3>1, PutStep
    <3>3. Covers[p] \in DOMAIN RouteBlocks
      BY <1>2, <2>1, ExistIs
    <3>4. PT!Change(Covers[p], i)
      BY <3>1, <3>2, <3>3, Zenon DEF PT!SetRoute, PT!Change
    <3>5. QED
      BY <1>2, <3>4 DEF PT!PTNext
  <2>2. CASE ~IsExist(p)
    <3>1. out' = PT!Result("modify", FALSE) /\ UNCHANGED RouteBlocks
      <4>1. out' = Result("modify", IsExist(p)) /\ UNCHANGED fib
        BY <1>4, <2>2 DEF Modify
      <4>2. IsExist(p) = FALSE
        BY <2>2, Zenon DEF IsExist
      <4>3. out' = PT!Result("modify", FALSE)
        BY <4>1, <4>2, Zenon DEF Result, PT!Result
      <4>4. QED
        BY <4>1, <4>3, SameFibSameRoutes
    <3>2. Covers[p] \notin DOMAIN RouteBlocks
      BY <1>2, <2>2, ExistIs
    <3>3. PT!Missing(Covers[p])
      BY <3>1, <3>2 DEF PT!Missing
    <3>4. QED
      BY <1>2, <3>3 DEF PT!PTNext
  <2>3. QED
    BY <2>1, <2>2
<1>5. ASSUME NEW t \in Texts, NEW p \in PrefixFrom(t), Delete(p)
      PROVE  PT!PTNext
  <2>1. out' = PT!Result("delete", TRUE)
    BY <1>2, <1>5 DEF Delete, Result, PT!Result
  <2>2. RouteBlocks' = [b \in DOMAIN RouteBlocks \ {Covers[p]} |-> RouteBlocks[b]]
    <3>1. CASE IsExist(p)
      <4>1. Assign(p.ip.family, p.mask, MapErase(Table(p), getSubnet(p)))
        BY <1>2, <1>5, <3>1 DEF Delete, Assign, Table
      <4>2. QED
        BY <1>2, <4>1, EraseStep
    <3>2. CASE ~IsExist(p)
      <4>1. UNCHANGED RouteBlocks
        BY <1>5, <3>2, SameFibSameRoutes DEF Delete
      <4>2. Covers[p] \notin DOMAIN RouteBlocks
        BY <1>2, <3>2, ExistIs
      <4>3. DOMAIN RouteBlocks \ {Covers[p]} = DOMAIN RouteBlocks
        BY <4>2
      <4>4. QED
        BY <4>1, <4>3 DEF RoutesOK
    <3>3. QED
      BY <3>1, <3>2
  <2>3. PT!Unset(Covers[p])
    BY <2>1, <2>2, Zenon DEF PT!Unset
  <2>4. QED
    BY <1>2, <2>3 DEF PT!PTNext
<1>6. QED
  BY <1>1, <1>3, <1>4, <1>5 DEF LpmNext

LEMMA TableInit == LpmInit => PT!PTInit
<1> SUFFICES ASSUME LpmInit PROVE PT!PTInit
  OBVIOUS
<1>1. /\ fib = [f \in Family |-> [n \in 0 .. Width(f) |-> [p \in {} |-> {}]]]
      /\ out = PT!Result("none", TRUE)
  BY DEF LpmInit, Result, PT!Result
<1>2. Stored = {}
  BY <1>1 DEF Stored
<1>3. RouteBlocks = [b \in {} |-> {}]
  BY <1>2 DEF RouteBlocks
<1>4. QED
  BY <1>1, <1>3 DEF PT!PTInit

(* The hash maps, with their masks, texts and lengths, are a table of      *)
(* routes over sets of addresses (RefinesPrefixTable): whatever host bits  *)
(* or text a caller passes, a call changes the route of exactly the        *)
(* addresses its prefix covers.                                            *)
THEOREM LpmImplementsTable == LpmSpec => RefinesPrefixTable
<1>1. FibInv /\ FibInv' /\ RoutesOK /\ RoutesOK' /\ [LpmNext]_vars => [PT!PTNext]_<<RouteBlocks, out>>
  <2> SUFFICES ASSUME FibInv, FibInv', RoutesOK, RoutesOK', [LpmNext]_vars
               PROVE  [PT!PTNext]_<<RouteBlocks, out>>
    OBVIOUS
  <2>1. CASE LpmNext
    BY <2>1, TableStep
  <2>2. CASE UNCHANGED vars
    BY <2>2, SameFibSameRoutes DEF vars
  <2>3. QED
    BY <2>1, <2>2
<1>2. PT!vars = <<RouteBlocks, out>>
  BY DEF PT!vars
<1>3. QED
  BY <1>1, <1>2, TableInit, LpmInvariant, RoutesAre, PTL DEF LpmSpec, RefinesPrefixTable, PT!PTSpec, PT!vars

-----------------------------------------------------------------------------
(* Lookups.  Addresses are finitely many, so smaller sets of them have     *)
(* fewer elements.                                                         *)

LEMMA BitsFinite ==
  ASSUME NEW w \in Nat
  PROVE  IsFiniteSet(Bits(w))
<1> DEFINE I == 0 .. w - 1
           g == [b \in Bits(w) |-> {i \in I : b[i] = 1}]
<1>1. IsFiniteSet(SUBSET I)
  <2>1. w - 1 \in Int
    OBVIOUS
  <2>2. IsFiniteSet(I)
    BY <2>1, FS_Interval
  <2> HIDE DEF I
  <2>3. QED
    BY <2>2, FS_SUBSET
<1>2. ASSUME NEW b \in Bits(w), NEW c \in Bits(w), g[b] = g[c]
      PROVE  b = c
  <2>1. b \in [I -> {0, 1}] /\ c \in [I -> {0, 1}]
    BY DEF Bits
  <2>2. \A i \in I : b[i] = 1 <=> c[i] = 1
    BY <1>2
  <2>3. \A i \in I : b[i] = c[i]
    BY <2>1, <2>2
  <2>4. QED
    BY <2>1, <2>3
<1>3. g \in Injection(Bits(w), SUBSET I)
  BY <1>2 DEF Injection, IsInjective
<1> HIDE DEF g, I
<1>4. QED
  BY <1>1, <1>3, FS_Injection

LEMMA AddrFinite == IsFiniteSet(Addr)
<1> DEFINE B == Bits(V4Bits) \cup Bits(V6Bits)
           g == [a \in Addr |-> <<a.family, a.bits>>]
<1>1. IsFiniteSet(Bits(V4Bits)) /\ IsFiniteSet(Bits(V6Bits))
  <2>1. V4Bits \in Nat /\ V6Bits \in Nat
    BY WidthAssumption DEF V6Bits
  <2>2. QED
    BY <2>1, BitsFinite
<1>2. IsFiniteSet(B)
  BY <1>1, FS_Union
<1>3. IsFiniteSet(Family)
  <2>1. Family = {"v4"} \cup {"v6"}
    BY DEF Family
  <2>2. QED
    BY <2>1, FS_Singleton, FS_AddElement
<1>4. IsFiniteSet(Family \X B)
  BY <1>2, <1>3, FS_Product
<1>5. \A a \in Addr : <<a.family, a.bits>> \in Family \X B
  BY AddrIs DEF Width
<1>6. \A a, b \in Addr : <<a.family, a.bits>> = <<b.family, b.bits>> => a = b
  BY AddrIs
<1>7. g \in Injection(Addr, Family \X B)
  BY <1>5, <1>6 DEF Injection, IsInjective
<1> HIDE DEF g, B
<1>8. QED
  BY <1>4, <1>7, FS_Injection

LEMMA MaxIn ==
  ASSUME NEW w \in Nat, NEW S, S \subseteq 0 .. w, S # {}
  PROVE  Max(S) \in S /\ \A y \in S : y <= Max(S)
<1> DEFINE T == {i \in 0 .. w : w - i \in S}
<1>1. T \in SUBSET Nat /\ T # {}
  <2>1. PICK y \in S : TRUE
    OBVIOUS
  <2>2. w - y \in T
    BY <2>1
  <2>3. T # {}
    BY <2>2
  <2>4. T \subseteq Nat
    OBVIOUS
  <2>5. QED
    BY <2>3, <2>4
<1>2. PICK m : m \in T /\ \A y \in T : m <= y
  BY <1>1, MinIn
<1>3. \A y \in S : w - y \in T
  OBVIOUS
<1>4. w - m \in S /\ \A y \in S : y <= w - m
  BY <1>2, <1>3
<1>5. \E x \in S : \A y \in S : x >= y
  BY <1>4
<1>6. Max(S) \in S /\ \A y \in S : Max(S) >= y
  BY <1>5, Zenon DEF Max
<1>7. QED
  BY <1>6

(* The prefix of length n that covers an address. *)
LEMMA NetCovers ==
  ASSUME NEW a \in Addr, NEW n \in 0 .. Width(a.family)
  PROVE  /\ Net(a, n) \in KeysOf(a.family, n) /\ Canonical(Net(a, n))
         /\ Starts(Net(a, n), a) /\ a \in Covers[Net(a, n)]
         /\ PrefixFrom(WithMask(a, n)) = {[ip |-> a, mask |-> n]}
         /\ getSubnet([ip |-> a, mask |-> n]) = Net(a, n)
<1> DEFINE p == [ip |-> a, mask |-> n]
<1>1. p \in Prefix /\ p.ip = a /\ p.mask = n
  BY PrefixIs
<1>2. getSubnet(p) = Net(a, n)
  BY <1>1, SubnetIs
<1>3. Starts(p, a) /\ a \in Covers[p]
  BY <1>1, OwnAddress
<1> HIDE DEF p
<1>4. Net(a, n) \in KeysOf(a.family, n) /\ Canonical(Net(a, n)) /\ Covers[Net(a, n)] = Covers[p]
  BY <1>1, <1>2, SubnetKey, SubnetCovers
<1>5. Net(a, n) \in Prefix /\ a \in Covers[Net(a, n)]
  BY <1>3, <1>4 DEF KeysOf
<1>6. Starts(Net(a, n), a)
  BY <1>5, CoversIs
<1>7. QED
  BY <1>2, <1>4, <1>5, <1>6, WithMaskIs DEF p

LEMMA NetOf ==
  ASSUME NEW p, Canonical(p), NEW a \in Addr, a \in Covers[p]
  PROVE  a.family = p.ip.family /\ p.mask \in 0 .. Width(a.family) /\ p = Net(a, p.mask)
<1>1. p \in Prefix /\ Starts(p, a)
  BY CoversIs DEF Canonical
<1>2. a.family = p.ip.family /\ p.mask \in 0 .. Width(a.family)
  BY <1>1, PrefixIs DEF Starts
<1> DEFINE q == Net(a, p.mask)
<1>3. q \in Prefix /\ q.ip.family = p.ip.family /\ q.mask = p.mask /\ Canonical(q) /\ Starts(q, a)
  BY <1>2, NetCovers DEF KeysOf
<1> HIDE DEF q
<1>4. \A b : Starts(p, b) <=> Starts(q, b)
  BY <1>1, <1>3 DEF Starts
<1>5. Covers[p] = Covers[q]
  BY <1>1, <1>3, <1>4, CoversIs
<1>6. QED
  BY <1>2, <1>3, <1>5, CoversInjective DEF q

(* Longer prefixes of an address cover strictly fewer addresses. *)
LEMMA LongerIsSmaller ==
  ASSUME NEW a \in Addr, NEW n \in 0 .. Width(a.family), NEW m \in 0 .. Width(a.family), n < m
  PROVE  Cardinality(Covers[Net(a, m)]) < Cardinality(Covers[Net(a, n)])
<1> DEFINE p == Net(a, m)
           q == Net(a, n)
           P == Covers[p]
           Q == Covers[q]
<1>1. /\ p \in Prefix /\ Starts(p, a) /\ p.ip.family = a.family /\ p.mask = m
      /\ q \in Prefix /\ Starts(q, a) /\ q.ip.family = a.family /\ q.mask = n
  BY NetCovers DEF KeysOf
<1>2. P = {x \in Addr : Starts(p, x)} /\ Q = {x \in Addr : Starts(q, x)}
  BY <1>1, CoversIs
<1>3. Width(a.family) \in Nat
  BY AddrBits
<1>4. ASSUME NEW x \in Addr, Starts(p, x)
      PROVE  Starts(q, x)
  <2>1. x.family = a.family /\ \A i \in 0 .. m - 1 : x.bits[i] = a.bits[i]
    BY <1>1, <1>4 DEF Starts
  <2>2. \A i \in 0 .. n - 1 : x.bits[i] = a.bits[i]
    BY <1>3, <2>1
  <2>3. \A i \in 0 .. n - 1 : q.ip.bits[i] = a.bits[i]
    BY <1>1 DEF Starts
  <2> HIDE DEF q
  <2>4. QED
    BY <1>1, <2>1, <2>2, <2>3 DEF Starts
<1>5. P \subseteq Q
  BY <1>2, <1>4
<1>6. P # Q
  BY <1>1, <1>3, CoversLonger
<1>7. IsFiniteSet(Q)
  BY <1>2, AddrFinite, FS_Subset
<1> HIDE DEF P, Q
<1>8. IsFiniteSet(P) /\ Cardinality(P) <= Cardinality(Q) /\ Cardinality(P) # Cardinality(Q)
  BY <1>5, <1>6, <1>7, FS_Subset
<1>9. Cardinality(P) \in Nat /\ Cardinality(Q) \in Nat
  BY <1>7, <1>8, FS_CardinalityType
<1>10. QED
  BY <1>8, <1>9 DEF P, Q

(* The lengths for which the table has a prefix of an address. *)
Hits(a) == {n \in 0 .. Width(a.family) : Net(a, n) \in Stored}
FoundAt(a, n) ==
  UNION {Same(fib[a.family][n], getSubnet(q)) : q \in PrefixFrom(WithMask(a, n))}

LEMMA FoundAtIs ==
  ASSUME FibInv, NEW a \in Addr, NEW n \in 0 .. Width(a.family)
  PROVE  FoundAt(a, n) = Stored \cap {Net(a, n)}
<1> DEFINE k == Net(a, n)
           m == fib[a.family][n]
<1>1. /\ k \in KeysOf(a.family, n)
      /\ PrefixFrom(WithMask(a, n)) = {[ip |-> a, mask |-> n]}
      /\ getSubnet([ip |-> a, mask |-> n]) = k
  BY NetCovers
<1>2. HasKeys(m, a.family, n)
  BY AddrBits, KeysFit
<1>3. k \in Stored <=> k \in DOMAIN m
  BY <1>1, StoredIs DEF KeysOf, Table
<1> HIDE DEF k, m
<1>4. Same(m, k) = DOMAIN m \cap {k}
  BY <1>1, <1>2, SameIs
<1>5. FoundAt(a, n) = Same(m, k)
  BY <1>1 DEF FoundAt, m
<1>6. QED
  BY <1>3, <1>4, <1>5 DEF k

LEMMA LookupIs ==
  ASSUME FibInv, NEW a \in Addr
  PROVE  /\ Hits(a) = {} => Lookup(a) = {}
         /\ Hits(a) # {} => /\ Max(Hits(a)) \in Hits(a) /\ \A n \in Hits(a) : n <= Max(Hits(a))
                            /\ Lookup(a) = {fib[a.family][Max(Hits(a))][Net(a, Max(Hits(a)))]}
<1> DEFINE h == {n \in 0 .. Width(a.family) : FoundAt(a, n) # {}}
<1>1. h = Hits(a)
  BY FoundAtIs DEF Hits
<1>2. Lookup(a) = IF h = {} THEN {} ELSE {fib[a.family][Max(h)][x] : x \in FoundAt(a, Max(h))}
  BY DEF Lookup, FoundAt
<1> HIDE DEF h
<1>3. CASE h = {}
  BY <1>1, <1>2, <1>3
<1>4. CASE h # {}
  <2>1. Width(a.family) \in Nat /\ h \subseteq 0 .. Width(a.family)
    BY <1>1, AddrBits DEF Hits
  <2>2. Max(h) \in h /\ \A n \in h : n <= Max(h)
    BY <1>4, <2>1, MaxIn
  <2> DEFINE M == Max(h)
  <2>3. M \in 0 .. Width(a.family) /\ Net(a, M) \in Stored
    BY <1>1, <2>2 DEF Hits
  <2>4. Lookup(a) = {fib[a.family][M][x] : x \in FoundAt(a, M)}
    BY <1>2, <1>4
  <2> HIDE DEF M
  <2>5. FoundAt(a, M) = {Net(a, M)}
    BY <2>3, FoundAtIs
  <2>6. QED
    BY <1>1, <1>4, <2>2, <2>4, <2>5 DEF M
<1>5. QED
  BY <1>3, <1>4

(* The sets of the table that contain an address. *)
LEMMA SetsOf ==
  ASSUME FibInv, NEW a \in Addr
  PROVE  {b \in DOMAIN RouteBlocks : a \in b} = {Covers[Net(a, n)] : n \in Hits(a)}
<1>1. DOMAIN RouteBlocks = {Covers[q] : q \in Stored} /\ \A q \in Stored : Canonical(q)
  BY RoutesAre DEF RoutesOK
<1>2. ASSUME NEW q \in Stored, a \in Covers[q]
      PROVE  q.mask \in Hits(a) /\ Covers[q] = Covers[Net(a, q.mask)]
  <2>1. q.mask \in 0 .. Width(a.family) /\ q = Net(a, q.mask)
    BY <1>1, <1>2, NetOf
  <2>2. QED
    BY <1>2, <2>1 DEF Hits
<1>3. ASSUME NEW n \in Hits(a)
      PROVE  Net(a, n) \in Stored /\ a \in Covers[Net(a, n)]
  BY NetCovers DEF Hits
<1>4. QED
  BY <1>1, <1>2, <1>3

LEMMA BestIs ==
  ASSUME FibInv, NEW a \in Addr
  PROVE  PT!Best(a) = Lookup(a)
<1> DEFINE r == RouteBlocks
           S == {b \in DOMAIN r : a \in b}
           T == {c \in S : \A d \in S : Cardinality(c) <= Cardinality(d)}
<1>1. PT!Best(a) = {r[b] : b \in T}
  <2>1. \A c : PT!Cardinality(c) = Cardinality(c)
    BY DEF PT!Cardinality, Cardinality
  <2>2. QED
    BY <2>1 DEF PT!Best
<1>2. S = {Covers[Net(a, n)] : n \in Hits(a)}
  BY SetsOf
<1>3. CASE Hits(a) = {}
  <2>1. S = {}
    BY <1>2, <1>3
  <2> HIDE DEF S
  <2>2. QED
    BY <1>1, <1>3, <2>1, LookupIs
<1>4. CASE Hits(a) # {}
  <2> DEFINE M == Max(Hits(a))
             k == Net(a, M)
  <2>1. /\ M \in Hits(a) /\ \A n \in Hits(a) : n <= M
        /\ Lookup(a) = {fib[a.family][M][k]}
    BY <1>4, LookupIs
  <2>2. k \in Stored /\ k.ip.family = a.family /\ k.mask = M
    BY <2>1, NetCovers DEF Hits, KeysOf
  <2>3. r[Covers[k]] = fib[a.family][M][k]
    BY <2>2, RoutesAre DEF RoutesOK
  <2>4. Hits(a) \subseteq 0 .. Width(a.family) /\ Width(a.family) \in Nat
    BY AddrBits DEF Hits
  <2>5. \A c \in S : IsFiniteSet(c) /\ Cardinality(c) \in Nat
    <3>1. ASSUME NEW n \in Hits(a)
          PROVE  Covers[Net(a, n)] \subseteq Addr
      <4>1. Net(a, n) \in Prefix
        BY NetCovers DEF Hits, KeysOf
      <4>2. QED
        BY <4>1, CoversIs
    <3>2. \A c \in S : c \subseteq Addr
      BY <1>2, <3>1
    <3> HIDE DEF S
    <3>3. QED
      BY <3>2, AddrFinite, FS_Subset, FS_CardinalityType
  <2>6. \A n \in Hits(a) : n # M => Cardinality(Covers[k]) < Cardinality(Covers[Net(a, n)])
    BY <2>1, <2>4, LongerIsSmaller
  <2>7. Covers[k] \in S /\ \A c \in S : c # Covers[k] => Cardinality(Covers[k]) < Cardinality(c)
    BY <1>2, <2>1, <2>6
  <2> HIDE DEF S, k, M
  <2>8. T = {Covers[k]}
    <3>1. \A d \in S : Cardinality(Covers[k]) <= Cardinality(d)
      BY <2>5, <2>7
    <3>2. ASSUME NEW c \in T
          PROVE  c = Covers[k]
      <4>1. c \in S /\ Cardinality(c) <= Cardinality(Covers[k])
        BY <2>7
      <4>2. QED
        BY <2>5, <2>7, <4>1
    <3>3. QED
      BY <2>7, <3>1, <3>2
  <2> HIDE DEF T, r
  <2>9. QED
    BY <1>1, <2>1, <2>3, <2>8
<1>5. QED
  BY <1>3, <1>4

LEMMA GetIs ==
  ASSUME FibInv, NEW p \in Prefix
  PROVE  Get(p) = IF Covers[p] \in DOMAIN RouteBlocks THEN {RouteBlocks[Covers[p]]} ELSE {}
<1> DEFINE k == getSubnet(p)
           m == Table(p)
<1>1. /\ k \in Prefix /\ Covers[k] = Covers[p] /\ k.ip.family = p.ip.family /\ k.mask = p.mask
      /\ k \in KeysOf(p.ip.family, p.mask)
  BY SubnetCovers, SubnetKey DEF KeysOf
<1>2. /\ HasMap(p) /\ get_fib_table(p)[p.mask] = m /\ HasKeys(m, p.ip.family, p.mask)
      /\ IsExist(p) <=> k \in DOMAIN m
  BY FoundMap
<1>3. /\ k \in Stored <=> k \in DOMAIN m
      /\ IsExist(p) <=> Covers[p] \in DOMAIN RouteBlocks
  BY ExistIs
<1> HIDE DEF k, m
<1>4. Same(m, k) = DOMAIN m \cap {k}
  BY <1>1, <1>2, SameIs
<1>5. Get(p) = {m[x] : x \in DOMAIN m \cap {k}}
  BY <1>2, <1>4 DEF Get, k
<1>6. k \in Stored => RouteBlocks[Covers[k]] = m[k]
  BY <1>1, RoutesAre DEF RoutesOK, Table, m
<1>7. CASE k \in DOMAIN m
  BY <1>1, <1>2, <1>3, <1>5, <1>6, <1>7
<1>8. CASE k \notin DOMAIN m
  BY <1>2, <1>3, <1>5, <1>8
<1>9. QED
  BY <1>7, <1>8

(* lpm_trie_lookup finds the smallest stored set of addresses that has the *)
(* address it is asked for, and lpm_trie_get the prefix's own route, for   *)
(* any widths, texts and history of calls (LookupIsLongest).               *)
THEOREM LookupLongest == LpmSpec => []LookupIsLongest
<1>1. FibInv => LookupIsLongest
  <2> SUFFICES ASSUME FibInv PROVE LookupIsLongest
    OBVIOUS
  <2>1. ASSUME NEW a \in Lookups
        PROVE  Lookup(a) = PT!Best(a)
    BY LookupsAssumption, BestIs
  <2>2. ASSUME NEW p \in Inputs
        PROVE  Get(p) = IF Covers[p] \in DOMAIN RouteBlocks THEN {RouteBlocks[Covers[p]]} ELSE {}
    <3>1. p \in Prefix
      BY PrefixFromIs DEF Inputs
    <3>2. QED
      BY <3>1, GetIs
  <2>3. QED
    BY <2>1, <2>2 DEF LookupIsLongest
<1>2. QED
  BY <1>1, LpmInvariant, PTL
==============================================================================
