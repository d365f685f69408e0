------------------------------ MODULE IpPrefix ------------------------------
(***************************************************************************)
(* Addresses and prefixes of the common library: common/ipaddress.h/.cpp   *)
(* and common/ipprefix.h/.cpp, as operators.                               *)
(*                                                                         *)
(* An address is its family and its bits, bit 0 the most significant one   *)
(* on the wire (the order htonl and memcmp compare in).  The widths are    *)
(* parameters: 32 bits, and 16 bytes of 8 bits, in the code.  A text is    *)
(* modelled by what the parsers look at: whether it has a colon, the bits  *)
(* inet_pton would store (none when it refuses the text), whether a slash  *)
(* follows and the numbers stoi yields for the rest (none: it throws).     *)
(* What a constructor builds is a set of at most one value; empty: throws. *)
(***************************************************************************)
EXTENDS Integers, FiniteSets

CONSTANTS V4Bits, ByteBits, V6Bytes

ASSUME WidthAssumption ==
  V4Bits \in Nat \ {0} /\ ByteBits \in Nat \ {0} /\ V6Bytes \in Nat \ {0}

V6Bits == ByteBits * V6Bytes
Family == {"v4", "v6"}
Width(f) == IF f = "v4" THEN V4Bits ELSE V6Bits
Bits(w) == [0 .. w - 1 -> {0, 1}]
Addr == UNION {[family : {f}, bits : Bits(Width(f))] : f \in Family}
Prefix == UNION {[ip : [family : {f}, bits : Bits(Width(f))], mask : 0 .. Width(f)] :
                 f \in Family}

Ones(w) == [i \in 0 .. w - 1 |-> 1]
And(a, b) == [i \in DOMAIN a |-> a[i] * b[i]]
OrNot(a, b) == [i \in DOMAIN a |-> IF a[i] = 1 \/ b[i] = 0 THEN 1 ELSE 0]
Shl(a, n) == [i \in DOMAIN a |-> IF i + n \in DOMAIN a THEN a[i + n] ELSE 0]

-----------------------------------------------------------------------------
(* IpAddress.                                                              *)

isV4(a) == a.family = "v4"

AddrText(a) == [colon |-> ~isV4(a), bits |-> a.bits]

AddressFrom(text) ==
  LET f == IF text.colon THEN "v6" ELSE "v4"
  IN {a \in {[family |-> f, bits |-> text.bits]} : DOMAIN text.bits = 0 .. Width(f) - 1}

AddressLess(a, b) ==
  IF a.family # b.family THEN isV4(a)     \* AF_INET < AF_INET6
  ELSE \E i \in DOMAIN a.bits :
         a.bits[i] < b.bits[i] /\ \A j \in 0 .. i - 1 : a.bits[j] = b.bits[j]

-----------------------------------------------------------------------------
(* IpPrefix.                                                               *)

isValid(p) == p.mask >= 0 /\ p.mask <= Width(p.ip.family)

Zero4 == [family |-> "v4", bits |-> [i \in 0 .. V4Bits - 1 |-> 0]]

PrefixFrom(text) ==
  LET ips == IF text.empty THEN {Zero4} ELSE AddressFrom(text)
      Masks(a) == IF text.slash THEN text.number ELSE {Width(a.family)}
  IN {p \in UNION {{[ip |-> a, mask |-> m] : m \in Masks(a)} : a \in ips} : isValid(p)}

WithMask(a, len) ==
  [colon |-> AddrText(a).colon, bits |-> AddrText(a).bits,
   empty |-> FALSE, slash |-> TRUE, number |-> {len}]

(* Mutation: the v4 mask is shifted in 32 bits, where a shift by 32 is one *)
(* by 0.                                                                   *)
MaskShift32(p) ==
  IF isV4(p.ip) THEN Shl(Ones(V4Bits), (V4Bits - p.mask) % V4Bits)
  ELSE [i \in 0 .. V6Bits - 1 |-> IF i < p.mask THEN 1 ELSE 0]

getMask(p) ==
  IF isV4(p.ip) THEN Shl(Ones(V4Bits), V4Bits - p.mask)
  ELSE LET mid == p.mask \div ByteBits
           last == Shl(Ones(ByteBits), ByteBits - (p.mask % ByteBits))
       IN [i \in 0 .. V6Bits - 1 |-> CASE i \div ByteBits < mid -> 1
                                       [] i \div ByteBits = mid -> last[i % ByteBits]
                                       [] OTHER -> 0]

(* The v6 subnet is printed and parsed again. *)
getSubnet(p) ==
  LET masked == [family |-> p.ip.family, bits |-> And(p.ip.bits, getMask(p))]
  IN IF isV4(p.ip) THEN [ip |-> masked, mask |-> p.mask]
     ELSE CHOOSE q \in PrefixFrom(WithMask(masked, p.mask)) : TRUE

getBroadcastIp(p) == [family |-> p.ip.family, bits |-> OrNot(p.ip.bits, getMask(p))]

isAddressInSubnet(p, a) ==
  p.ip.family = a.family /\ And(p.ip.bits, getMask(p)) = And(a.bits, getMask(p))

PrefixLess(p, q) ==
  IF p.mask # q.mask THEN p.mask < q.mask ELSE AddressLess(p.ip, q.ip)
=============================================================================
