---------------------------- MODULE ListTheorems ----------------------------
(***************************************************************************)
(* Facts about the linear searches and the lists of the agent: the first   *)
(* element of a set of slots, and lists without repetition, to which an    *)
(* element is added or from which one is taken.  IsListOf says that a      *)
(* sequence is such a list and how long it is.                             *)
(***************************************************************************)
EXTENDS Integers, Sequences, FiniteSets, SequencesExt, FiniteSetTheorems,
        SequenceTheorems, WellFoundedInduction, TLAPS

-----------------------------------------------------------------------------
(* Minima and lists.                                                       *)

(* Min finds the first element, as the loops over slots do. *)
LEMMA MinIn ==
  ASSUME NEW S \in SUBSET Nat, S # {}
  PROVE  Min(S) \in S /\ \A y \in S : Min(S) <= y
<1>1. PICK x \in S : \A y \in S : <<y, x>> \notin OpToRel(<, Nat)
  BY WFMin, NatLessThanWellFounded, Zenon
<1>2. \A y \in S : ~(y < x)
  BY <1>1, Zenon DEF OpToRel
<1>3. \A y \in S : x <= y
  BY <1>2
<1>4. QED
  BY <1>3, Zenon DEF Min

(* A list of elements of S without repetition. *)
IsListOf(s, S) ==
  /\ s \in Seq(S)
  /\ \A i, j \in 1 .. Len(s) : s[i] = s[j] => i = j
  /\ IsFiniteSet(ToSet(s))
  /\ Cardinality(ToSet(s)) = Len(s)

LEMMA ToSetIs ==
  ASSUME NEW S, NEW s \in Seq(S)
  PROVE  /\ ToSet(s) = {s[i] : i \in 1 .. Len(s)}
         /\ ToSet(s) \subseteq S
BY DEF ToSet

LEMMA EmptyIsList ==
  ASSUME NEW S
  PROVE  IsListOf(<<>>, S) /\ ToSet(<<>>) = {} /\ Len(<<>>) = 0
<1>1. ToSet(<<>>) = {}
  BY DEF ToSet
<1>2. QED
  BY <1>1, FS_EmptySet, EmptySeq DEF IsListOf

(* SLIST_INSERT_HEAD of a new element. *)
LEMMA ListInsert ==
  ASSUME NEW S, NEW s, IsListOf(s, S), NEW a \in S, a \notin ToSet(s)
  PROVE  LET t == <<a>> \o s
         IN  IsListOf(t, S) /\ ToSet(t) = ToSet(s) \cup {a} /\ Len(t) = Len(s) + 1
<1> DEFINE t == <<a>> \o s
<1>1. s \in Seq(S) /\ Len(s) \in Nat
  BY LenProperties DEF IsListOf
<1>2. <<a>> \in Seq(S) /\ Len(<<a>>) = 1 /\ <<a>>[1] = a
  OBVIOUS
<1>3. /\ t \in Seq(S) /\ Len(t) = Len(s) + 1 /\ t[1] = a
      /\ \A i \in 2 .. Len(t) : t[i] = s[i - 1]
  BY <1>1, <1>2, ConcatProperties
<1> HIDE DEF t
<1>4. ToSet(t) = ToSet(s) \cup {a}
  <2>1. ToSet(t) = {t[i] : i \in 1 .. Len(t)} /\ ToSet(s) = {s[i] : i \in 1 .. Len(s)}
    BY <1>1, <1>3, ToSetIs
  <2>2. \A i \in 1 .. Len(s) : i + 1 \in 2 .. Len(t) /\ t[i + 1] = s[i]
    BY <1>1, <1>3
  <2>3. \A i \in 1 .. Len(t) : i = 1 \/ (i - 1 \in 1 .. Len(s) /\ t[i] = s[i - 1])
    BY <1>1, <1>3
  <2>4. 1 \in 1 .. Len(t)
    BY <1>1, <1>3
  <2>5. QED
    BY <1>3, <2>1, <2>2, <2>3, <2>4
<1>5. \A i, j \in 1 .. Len(t) : t[i] = t[j] => i = j
  <2>1. \A i \in 1 .. Len(t) : i = 1 \/ (i - 1 \in 1 .. Len(s) /\ t[i] = s[i - 1] /\ t[i] # a)
    BY <1>1, <1>3, ToSetIs
  <2>2. QED
    BY <1>1, <1>3, <2>1 DEF IsListOf
<1>6. IsFiniteSet(ToSet(t)) /\ Cardinality(ToSet(t)) = Len(t)
  BY <1>3, <1>4, FS_AddElement DEF IsListOf
<1>7. QED
  BY <1>3, <1>4, <1>5, <1>6 DEF IsListOf, t

(* A new element at the end. *)
LEMMA ListAppend ==
  ASSUME NEW S, NEW s, IsListOf(s, S), NEW a \in S, a \notin ToSet(s)
  PROVE  LET t == Append(s, a)
         IN  IsListOf(t, S) /\ ToSet(t) = ToSet(s) \cup {a} /\ Len(t) = Len(s) + 1
<1> DEFINE t == Append(s, a)
<1>1. s \in Seq(S) /\ Len(s) \in Nat
  BY LenProperties DEF IsListOf
<1>2. /\ t \in Seq(S) /\ Len(t) = Len(s) + 1 /\ t[Len(s) + 1] = a
      /\ \A i \in 1 .. Len(s) : t[i] = s[i]
  BY <1>1, AppendProperties
<1> HIDE DEF t
<1>3. \A i \in 1 .. Len(t) :
        \/ i = Len(s) + 1 /\ t[i] = a
        \/ i \in 1 .. Len(s) /\ t[i] = s[i] /\ t[i] # a
  BY <1>1, <1>2, ToSetIs
<1>4. ToSet(t) = ToSet(s) \cup {a}
  <2>1. ToSet(t) = {t[i] : i \in 1 .. Len(t)} /\ ToSet(s) = {s[i] : i \in 1 .. Len(s)}
    BY <1>1, <1>2, ToSetIs
  <2>2. Len(s) + 1 \in 1 .. Len(t) /\ \A i \in 1 .. Len(s) : i \in 1 .. Len(t)
    BY <1>1, <1>2
  <2>3. QED
    BY <1>2, <1>3, <2>1, <2>2
<1>5. \A i, j \in 1 .. Len(t) : t[i] = t[j] => i = j
  BY <1>3 DEF IsListOf
<1>6. IsFiniteSet(ToSet(t)) /\ Cardinality(ToSet(t)) = Len(t)
  BY <1>1, <1>2, <1>4, FS_AddElement DEF IsListOf
<1>7. QED
  BY <1>2, <1>4, <1>5, <1>6 DEF IsListOf, t

(* SLIST_REMOVE of an element of the list. *)
LEMMA ListRemove ==
  ASSUME NEW S, NEW s, IsListOf(s, S), NEW a \in ToSet(s)
  PROVE  LET t == RemoveFirst(s, a)
         IN  IsListOf(t, S) /\ ToSet(t) = ToSet(s) \ {a} /\ Len(t) = Len(s) - 1
<1> DEFINE I == {i \in 1 .. Len(s) : s[i] = a}
           n == Min(I)
           l == SubSeq(s, 1, n - 1)
           r == SubSeq(s, n + 1, Len(s))
           t == l \o r
<1>1. s \in Seq(S) /\ Len(s) \in Nat /\ ToSet(s) = {s[i] : i \in 1 .. Len(s)}
  BY LenProperties, ToSetIs DEF IsListOf
<1>2. I # {} /\ I \in SUBSET Nat
  BY <1>1
<1>3. n \in 1 .. Len(s) /\ s[n] = a
  <2>1. n \in I
    <3> HIDE DEF I
    <3> QED BY <1>2, MinIn
  <2>2. QED
    BY <2>1
<1>4. RemoveFirst(s, a) = t
  BY <1>2 DEF RemoveFirst, RemoveAt, SelectInSeq
<1> HIDE DEF I, n
<1>5. \A i \in 1 .. Len(s) : s[i] \in S
  BY <1>1
<1>6. /\ l \in Seq(S) /\ Len(l) = n - 1
      /\ \A i \in 1 .. n - 1 : l[i] = s[i]
  <2>1. 1 \in Int /\ n - 1 \in Int /\ \A i \in 1 .. n - 1 : s[i] \in S
    BY <1>3, <1>5, <1>1
  <2>2. /\ l \in Seq(S) /\ Len(l) = IF 1 <= n - 1 THEN n - 1 - 1 + 1 ELSE 0
        /\ \A i \in 1 .. n - 1 - 1 + 1 : l[i] = s[1 + i - 1]
    BY <2>1, SubSeqProperties
  <2> HIDE DEF l
  <2>3. QED
    BY <2>2, <1>3, <1>1
<1>7. /\ r \in Seq(S) /\ Len(r) = Len(s) - n
      /\ \A i \in 1 .. Len(s) - n : r[i] = s[n + i]
  <2>1. n + 1 \in Int /\ Len(s) \in Int /\ \A i \in n + 1 .. Len(s) : s[i] \in S
    BY <1>3, <1>5, <1>1
  <2>2. /\ r \in Seq(S) /\ Len(r) = IF n + 1 <= Len(s) THEN Len(s) - (n + 1) + 1 ELSE 0
        /\ \A i \in 1 .. Len(s) - (n + 1) + 1 : r[i] = s[n + 1 + i - 1]
    BY <2>1, SubSeqProperties
  <2> HIDE DEF r
  <2>3. QED
    BY <2>2, <1>3, <1>1
<1> HIDE DEF l, r
<1>8. /\ t \in Seq(S) /\ Len(t) = Len(s) - 1
      /\ \A i \in 1 .. Len(t) : t[i] = s[IF i < n THEN i ELSE i + 1]
  <2>1. /\ t \in Seq(S) /\ Len(t) = Len(l) + Len(r)
        /\ \A i \in 1 .. Len(l) + Len(r) : t[i] = IF i <= Len(l) THEN l[i] ELSE r[i - Len(l)]
    BY <1>6, <1>7, ConcatProperties
  <2> HIDE DEF t
  <2>2. Len(t) = Len(s) - 1
    BY <2>1, <1>1, <1>3, <1>6, <1>7
  <2>3. ASSUME NEW i \in 1 .. Len(t) PROVE t[i] = s[IF i < n THEN i ELSE i + 1]
    <3>1. CASE i < n
      <4>1. i \in 1 .. n - 1 /\ i \in 1 .. Len(l) + Len(r) /\ i <= Len(l)
        BY <3>1, <2>1, <2>2, <1>1, <1>3, <1>6
      <4>2. QED
        BY <3>1, <4>1, <2>1, <1>6
    <3>2. CASE ~(i < n)
      <4>1. /\ i \in 1 .. Len(l) + Len(r) /\ ~(i <= Len(l))
            /\ i - Len(l) \in 1 .. Len(s) - n /\ n + (i - Len(l)) = i + 1
        BY <3>2, <2>1, <2>2, <1>1, <1>3, <1>6
      <4>2. QED
        BY <3>2, <4>1, <2>1, <1>7
    <3>3. QED
      BY <3>1, <3>2
  <2>4. QED
    BY <2>1, <2>2, <2>3
<1> DEFINE old(i) == IF i < n THEN i ELSE i + 1
<1> HIDE DEF t
<1>9. \A i, j \in 1 .. Len(t) : t[i] = t[j] => i = j
  <2>1. ASSUME NEW i \in 1 .. Len(t) PROVE old(i) \in 1 .. Len(s) /\ t[i] = s[old(i)]
    <3>1. old(i) \in 1 .. Len(s)
      BY <1>1, <1>3, <1>8
    <3>2. t[i] = s[old(i)]
      BY <1>8
    <3>3. QED
      BY <3>1, <3>2
  <2>2. \A i, j \in 1 .. Len(t) : old(i) = old(j) => i = j
    BY <1>1, <1>3, <1>8
  <2> HIDE DEF old
  <2>3. QED
    BY <2>1, <2>2 DEF IsListOf
<1>10. ToSet(t) = ToSet(s) \ {a}
  <2>1. ToSet(t) = {t[i] : i \in 1 .. Len(t)}
    BY <1>8, ToSetIs
  <2>2. ASSUME NEW x \in ToSet(t) PROVE x \in ToSet(s) \ {a}
    <3>1. PICK i \in 1 .. Len(t) : x = t[i]
      BY <2>1
    <3>2. old(i) \in 1 .. Len(s) /\ old(i) # n /\ x = s[old(i)]
      BY <3>1, <1>1, <1>3, <1>8
    <3>3. x # a
      BY <3>2, <1>3 DEF IsListOf
    <3>4. QED
      BY <3>2, <3>3, <1>1
  <2>3. ASSUME NEW x \in ToSet(s) \ {a} PROVE x \in ToSet(t)
    <3>1. PICK i \in 1 .. Len(s) : x = s[i] /\ i # n
      BY <1>1, <1>3
    <3>2. PICK j \in 1 .. Len(t) : old(j) = i
      <4>1. CASE i < n
        <5>1. i \in 1 .. Len(t) /\ old(i) = i
          BY <4>1, <1>1, <1>3, <1>8
        <5>2. QED
          BY <5>1
      <4>2. CASE i > n
        <5>1. i - 1 \in 1 .. Len(t) /\ old(i - 1) = i
          BY <4>2, <1>1, <1>3, <1>8
        <5>2. QED
          BY <5>1
      <4>3. QED
        BY <3>1, <4>1, <4>2, <1>3
    <3>3. QED
      BY <3>1, <3>2, <2>1, <1>8
  <2>4. QED
    BY <2>2, <2>3
<1>11. IsFiniteSet(ToSet(t)) /\ Cardinality(ToSet(t)) = Len(t)
  BY <1>8, <1>10, FS_RemoveElement DEF IsListOf
<1>12. QED
  BY <1>4, <1>8, <1>9, <1>10, <1>11 DEF IsListOf

(* Every element of a finite set once, in some order. *)
LEMMA SetToSeqIs ==
  ASSUME NEW T, IsFiniteSet(T)
  PROVE  LET q == SetToSeq(T)
         IN  /\ Len(q) \in Nat /\ Len(q) = Cardinality(T) /\ DOMAIN q = 1 .. Len(q)
             /\ \A i \in 1 .. Len(q) : q[i] \in T
             /\ \A i, j \in 1 .. Len(q) : q[i] = q[j] => i = j
             /\ \A x \in T : \E i \in 1 .. Len(q) : q[i] = x
<1> DEFINE n == Cardinality(T)
           q == SetToSeq(T)
<1>1. n \in Nat /\ ExistsBijection(1 .. n, T)
  BY FS_CardinalityType
<1>2. \E f \in [1 .. n -> T] : IsInjective(f)
  BY <1>1 DEF ExistsBijection, Bijection, Injection
<1>3. q \in [1 .. n -> T] /\ IsInjective(q)
  BY <1>2, Zenon DEF SetToSeq
<1> HIDE DEF q, n
<1>4. q \in Injection(1 .. n, T)
  BY <1>3 DEF Injection
<1>5. Cardinality(1 .. n) = n
  <2>1. Cardinality(1 .. n) = IF 1 > n THEN 0 ELSE n - 1 + 1
    BY <1>1, FS_Interval
  <2>2. QED
    BY <1>1, <2>1
<1>6. q \in Surjection(1 .. n, T)
  BY <1>4, <1>5, FS_Injection DEF n
<1>7. Len(q) = n /\ DOMAIN q = 1 .. n
  BY <1>1, <1>3
<1>8. /\ \A i \in 1 .. n : q[i] \in T
      /\ \A i, j \in 1 .. n : q[i] = q[j] => i = j
      /\ \A x \in T : \E i \in 1 .. n : q[i] = x
  BY <1>3, <1>6 DEF Surjection, IsInjective
<1>9. QED
  BY <1>1, <1>7, <1>8 DEF q, n
=============================================================================
