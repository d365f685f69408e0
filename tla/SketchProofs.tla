---------------------------- MODULE SketchProofs ----------------------------
(* Theorems about the sketch, for every number of buckets and every width. *)
EXTENDS MCSketch, SequenceTheorems, TLAPS

(* |+| stays in the cell and never returns to a smaller value. *)
LEMMA SatAddBounds ==
  ASSUME NEW max \in Nat, NEW x \in 0 .. max
  PROVE  /\ SatAdd(x, 1, max) \in x .. max
         /\ x < max => SatAdd(x, 1, max) = x + 1
         /\ x = max => SatAdd(x, 1, max) = max
BY DEF SatAdd

(* The registers hold values of their width in every reachable state. *)
THEOREM SketchTypeCorrect == SketchSpec => []SketchTypeOK
<1>1. SketchInit => SketchTypeOK
  BY SketchAssumption DEF SketchInit, SketchTypeOK
<1>2. SketchTypeOK /\ [SketchNext]_sketchVars => SketchTypeOK'
  <2> SUFFICES ASSUME SketchTypeOK, [SketchNext]_sketchVars
               PROVE  SketchTypeOK'
    OBVIOUS
  <2>1. ASSUME NEW b \in Bucket, NEW fp \in Fingerprint, SketchApply(b, fp)
        PROVE  SketchTypeOK'
    <3>1. CsCount(b, fp) \in 1 .. CountMax
      BY SketchAssumption, SatAddBounds DEF CsCount, SketchTypeOK
    <3>2. pkt_num' \in 0 .. PktMax
      BY <2>1, SketchAssumption, SatAddBounds DEF SketchApply, SketchTypeOK
    <3>3. hash1_1' \in [Bucket -> Fingerprint \cup {0}]
      BY <2>1 DEF SketchApply, SketchTypeOK
    <3>4. hash1_1_n' \in [Bucket -> 1 .. CountMax]
      BY <2>1, <3>1 DEF SketchApply, SketchTypeOK
    <3>5. sketched' \in [bucket : Bucket \cup {0}, fp : Fingerprint \cup {0}, eflag : BOOLEAN]
      BY <2>1 DEF SketchApply
    <3>6. QED
      BY <3>2, <3>3, <3>4, <3>5 DEF SketchTypeOK
  <2>2. CASE UNCHANGED sketchVars
    BY <2>2 DEF sketchVars, SketchTypeOK
  <2>3. QED
    BY <2>1, <2>2 DEF SketchNext
<1>3. QED
  BY <1>1, <1>2, PTL DEF SketchSpec

(***************************************************************************)
(* One packet of the sketch is one arrival of the abstract specification.  *)
(***************************************************************************)
LEMMA ApplyIsArrive ==
  ASSUME 0 \notin Fingerprint, SketchTypeOK,
         NEW b \in Bucket, NEW fp \in Fingerprint, SketchApply(b, fp)
  PROVE  A!Arrive(b, fp)
<1> USE SketchAssumption DEF NoFp
<1>1. fp # 0 /\ fp \in Nat
  OBVIOUS
<1>2. hash1_1_n[b] \in 1 .. CountMax
  BY DEF SketchTypeOK
<1>3. hash1_1' = [hash1_1 EXCEPT ![b] = fp] /\ hash1_1'[b] = fp
  BY DEF SketchApply, SketchTypeOK
<1>4. hash1_1_n'[b] = CsCount(b, fp)
  BY DEF SketchApply, SketchTypeOK
<1>5. AbsStreak'[b] = A!Extended(b, fp)
  <2>1. CASE hash1_1[b] = fp
    <3>1. CsCount(b, fp) = SatAdd(hash1_1_n[b], 1, CountMax)
      BY <2>1 DEF CsCount, FpCmpRe
    <3>2. AbsStreak[b] = IF hash1_1_n[b] <= HIT_COUNT THEN hash1_1_n[b] ELSE HIT_COUNT + 1
      BY <2>1, <1>1 DEF AbsStreak
    <3>3. AbsStreak'[b] = IF CsCount(b, fp) <= HIT_COUNT THEN CsCount(b, fp) ELSE HIT_COUNT + 1
      BY <1>1, <1>3, <1>4 DEF AbsStreak
    <3>4. A!Extended(b, fp) = IF AbsStreak[b] <= HIT_COUNT THEN AbsStreak[b] + 1 ELSE HIT_COUNT + 1
      BY <2>1 DEF A!Extended
    <3>5. QED
      BY <1>2, <3>1, <3>2, <3>3, <3>4 DEF SatAdd
  <2>2. CASE hash1_1[b] # fp
    BY <1>1, <1>3, <1>4, <2>2 DEF AbsStreak, CsCount, FpCmpRe, A!Extended
  <2>3. QED
    BY <2>1, <2>2
<1>6. AbsStreak' = [AbsStreak EXCEPT ![b] = A!Extended(b, fp)]
  <2>1. \A c \in Bucket : c # b => AbsStreak'[c] = AbsStreak[c]
    BY DEF SketchApply, SketchTypeOK, AbsStreak
  <2>2. QED
    BY <1>5, <2>1 DEF AbsStreak
<1>7. (CsCount(b, fp) = HIT_COUNT) <=> (A!Extended(b, fp) = HIT_COUNT)
  <2>1. AbsStreak'[b] = IF CsCount(b, fp) <= HIT_COUNT THEN CsCount(b, fp) ELSE HIT_COUNT + 1
    BY <1>1, <1>3, <1>4 DEF AbsStreak
  <2>2. CsCount(b, fp) \in Nat
    BY <1>2 DEF CsCount, SatAdd
  <2>3. QED
    BY <1>5, <2>1, <2>2
<1>8. sketched' = [bucket |-> b, fp |-> fp, eflag |-> A!Extended(b, fp) = HIT_COUNT]
  BY <1>7 DEF SketchApply
<1>9. QED
  BY <1>3, <1>6, <1>8 DEF A!Arrive

(***************************************************************************)
(* For every bucket count, threshold and width with HIT_COUNT < CountMax,  *)
(* and as long as no flow has the fingerprint 0, the register code reports *)
(* each run once, at its HIT_COUNT-th packet.                              *)
(***************************************************************************)
THEOREM SketchRefinesActiveFlow ==
  ASSUME 0 \notin Fingerprint
  PROVE  SketchSpec => RefinesActiveFlow
<1>1. SketchInit => A!AInit
  BY DEF SketchInit, A!AInit, AbsStreak, NoFp
<1>2. SketchTypeOK /\ [SketchNext]_sketchVars => [A!ANext]_(A!avars)
  <2> SUFFICES ASSUME SketchTypeOK, [SketchNext]_sketchVars
               PROVE  [A!ANext]_(A!avars)
    OBVIOUS
  <2>1. ASSUME NEW b \in Bucket, NEW fp \in Fingerprint, SketchApply(b, fp)
        PROVE  A!ANext
    BY <2>1, ApplyIsArrive DEF A!ANext
  <2>2. CASE UNCHANGED sketchVars
    BY <2>2 DEF sketchVars, A!avars, AbsStreak
  <2>3. QED
    BY <2>1, <2>2 DEF SketchNext
<1>3. QED
  BY <1>1, <1>2, SketchTypeCorrect, PTL DEF SketchSpec, RefinesActiveFlow, A!ASpec

-----------------------------------------------------------------------------
(* What a count means: the packets that were counted.                      *)

(* The history keeps the newest n elements, in order. *)
LEMMA LastNOfAppend ==
  ASSUME NEW S, NEW s \in Seq(S), NEW e \in S, NEW n \in Nat \ {0}, Len(s) <= n
  PROVE  LET t == LastN(Append(s, e), n)
         IN  /\ t \in Seq(S) /\ Len(t) = IF Len(s) < n THEN Len(s) + 1 ELSE n
             /\ t[Len(t)] = e
             /\ \A k \in 1 .. Len(t) - 1 : t[Len(t) - k] = s[Len(s) - (k - 1)]
<1> DEFINE a == Append(s, e)
           t == LastN(a, n)
<1>1. a \in Seq(S) /\ Len(a) = Len(s) + 1 /\ a[Len(s) + 1] = e
      /\ \A i \in 1 .. Len(s) : a[i] = s[i]
  BY AppendProperties
<1>2. Len(s) \in Nat
  BY LenProperties
<1> HIDE DEF a
<1>3. CASE Len(s) < n
  <2>1. t = a
    BY <1>1, <1>2, <1>3 DEF LastN
  <2>2. QED
    BY <2>1, <1>1, <1>2, <1>3 DEF a
<1>4. CASE Len(s) = n
  <2>1. t = SubSeq(a, 2, n + 1)
    BY <1>1, <1>4 DEF LastN
  <2>2. \A i \in 2 .. n + 1 : a[i] \in S
    BY <1>1, <1>4, ElementOfSeq
  <2>3. /\ t \in Seq(S) /\ Len(t) = n
        /\ \A i \in 1 .. n : t[i] = a[i + 1]
    BY <2>1, <2>2, SubSeqProperties
  <2>4. \A k \in 1 .. n - 1 : t[n - k] = s[n - (k - 1)]
    <3> SUFFICES ASSUME NEW k \in 1 .. n - 1 PROVE t[n - k] = s[n - (k - 1)]
      OBVIOUS
    <3>1. n - k \in 1 .. n /\ n - k + 1 \in 1 .. Len(s) /\ n - k + 1 = n - (k - 1)
      BY <1>4
    <3>2. QED
      BY <3>1, <2>3, <1>1
  <2>5. QED
    BY <2>3, <2>4, <1>1, <1>4 DEF a
<1>5. QED
  BY <1>2, <1>3, <1>4

(* A count says how many of the newest packets carried the fingerprint.   *)
CountIsRun(b) ==
  hash1_1[b] # 0 =>
    \A k \in 0 .. HIT_COUNT - 1 :
      k < hash1_1_n[b] => k < Len(recent[b]) /\ recent[b][Len(recent[b]) - k] = hash1_1[b]

RunInv ==
  /\ recent \in [Bucket -> Seq(Fingerprint)]
  /\ \A b \in Bucket : Len(recent[b]) <= HIT_COUNT /\ CountIsRun(b)
  /\ sketched.eflag =>
       /\ sketched.bucket \in Bucket /\ sketched.fp # 0
       /\ hash1_1[sketched.bucket] = sketched.fp
       /\ hash1_1_n[sketched.bucket] = HIT_COUNT

LEMMA RunInvNext ==
  ASSUME 0 \notin Fingerprint, SketchTypeOK, RunInv,
         NEW b \in Bucket, NEW fp \in Fingerprint, SketchApply(b, fp),
         recent' = [recent EXCEPT ![b] = LastN(Append(@, fp), HIT_COUNT)]
  PROVE  RunInv'
<1> DEFINE s == recent[b]
           t == LastN(Append(s, fp), HIT_COUNT)
<1>1. HIT_COUNT \in Nat \ {0} /\ CountMax \in Nat /\ HIT_COUNT < CountMax
  BY SketchAssumption
<1>2. s \in Seq(Fingerprint) /\ Len(s) <= HIT_COUNT /\ Len(s) \in Nat
  BY LenProperties DEF RunInv
<1>3. /\ t \in Seq(Fingerprint) /\ Len(t) = (IF Len(s) < HIT_COUNT THEN Len(s) + 1 ELSE HIT_COUNT)
      /\ t[Len(t)] = fp
      /\ \A k \in 1 .. Len(t) - 1 : t[Len(t) - k] = s[Len(s) - (k - 1)]
  <2> HIDE DEF s
  <2>1. QED
    BY <1>1, <1>2, LastNOfAppend
<1>4. /\ recent' \in [Bucket -> Seq(Fingerprint)] /\ recent'[b] = t
      /\ \A c \in Bucket \ {b} : recent'[c] = recent[c]
  BY <1>3 DEF RunInv
<1>5. /\ hash1_1'[b] = fp /\ hash1_1_n'[b] = CsCount(b, fp)
      /\ \A c \in Bucket \ {b} : hash1_1'[c] = hash1_1[c] /\ hash1_1_n'[c] = hash1_1_n[c]
  BY DEF SketchApply, SketchTypeOK
<1>6. fp # 0
  OBVIOUS
<1> HIDE DEF t
<1>7. CountIsRun(b)'
  <2> SUFFICES ASSUME NEW k \in 0 .. HIT_COUNT - 1, k < CsCount(b, fp)
               PROVE  k < Len(t) /\ t[Len(t) - k] = fp
    BY <1>4, <1>5 DEF CountIsRun
  <2>1. CASE k = 0
    BY <2>1, <1>1, <1>2, <1>3
  <2>2. CASE k # 0
    <3>1. hash1_1[b] = fp /\ CsCount(b, fp) = SatAdd(hash1_1_n[b], 1, CountMax)
      BY <2>2 DEF CsCount, FpCmpRe
    <3>2. hash1_1_n[b] \in 1 .. CountMax
      BY DEF SketchTypeOK
    <3>3. k - 1 < hash1_1_n[b] /\ k - 1 \in 0 .. HIT_COUNT - 1
      BY <1>1, <2>2, <3>1, <3>2 DEF SatAdd
    <3>4. k - 1 < Len(s) /\ s[Len(s) - (k - 1)] = fp
      BY <1>6, <3>1, <3>3 DEF RunInv, CountIsRun
    <3>5. k \in 1 .. Len(t) - 1
      BY <1>1, <1>2, <1>3, <2>2, <3>4
    <3>6. QED
      BY <3>4, <3>5, <1>1, <1>2, <1>3
  <2>3. QED
    BY <2>1, <2>2
<1>8. \A c \in Bucket : Len(recent'[c]) <= HIT_COUNT
  BY <1>1, <1>2, <1>3, <1>4 DEF RunInv
<1>9. ASSUME NEW c \in Bucket \ {b} PROVE CountIsRun(c)'
  BY <1>4, <1>5 DEF RunInv, CountIsRun
<1>10. sketched' = [bucket |-> b, fp |-> fp, eflag |-> CsCount(b, fp) = HIT_COUNT]
  BY DEF SketchApply
<1>11. QED
  BY <1>4, <1>5, <1>6, <1>7, <1>8, <1>9, <1>10 DEF RunInv

LEMMA FullRun ==
  ASSUME RunInv, sketched.eflag
  PROVE  recent[sketched.bucket] = [i \in 1 .. HIT_COUNT |-> sketched.fp]
<1> DEFINE s == recent[sketched.bucket]
<1>1. HIT_COUNT \in Nat \ {0}
  BY SketchAssumption
<1>2. s \in Seq(Fingerprint) /\ Len(s) <= HIT_COUNT
  BY DEF RunInv
<1>3. Len(s) \in Nat /\ s = [i \in 1 .. Len(s) |-> s[i]]
  BY <1>2, LenProperties
<1>4. ASSUME NEW k \in 0 .. HIT_COUNT - 1
      PROVE  k < Len(s) /\ s[Len(s) - k] = sketched.fp
  <2> DEFINE b == sketched.bucket
  <2>1. b \in Bucket /\ hash1_1[b] # 0 /\ hash1_1[b] = sketched.fp /\ hash1_1_n[b] = HIT_COUNT
    BY DEF RunInv
  <2>2. CountIsRun(b)
    BY <2>1 DEF RunInv
  <2>3. k < hash1_1_n[b]
    BY <1>1, <2>1
  <2>4. QED
    BY <2>1, <2>2, <2>3 DEF CountIsRun
<1> HIDE DEF s
<1>5. Len(s) = HIT_COUNT
  <2>1. HIT_COUNT - 1 < Len(s)
    BY <1>1, <1>4
  <2>2. QED
    BY <2>1, <1>1, <1>2, <1>3
<1>6. \A i \in 1 .. HIT_COUNT : s[i] = sketched.fp
  <2> SUFFICES ASSUME NEW i \in 1 .. HIT_COUNT PROVE s[i] = sketched.fp
    OBVIOUS
  <2>1. HIT_COUNT - i \in 0 .. HIT_COUNT - 1 /\ HIT_COUNT - (HIT_COUNT - i) = i
    BY <1>1
  <2>2. QED
    BY <2>1, <1>4, <1>5
<1>7. QED
  BY <1>3, <1>5, <1>6 DEF s

(***************************************************************************)
(* A raised eflag means HIT_COUNT consecutive packets of the reported      *)
(* fingerprint at that bucket, for every threshold below the maximum of    *)
(* the 8-bit count and every interleaving of flows, unless a flow has the  *)
(* fingerprint 0.                                                          *)
(***************************************************************************)
THEOREM FlagIsFullRun ==
  ASSUME 0 \notin Fingerprint
  PROVE  MCSpec => []FlagMeansFullRun
<1>1. MCSpec => SketchSpec
  <2>1. MCInit => SketchInit
    BY DEF MCInit
  <2>2. [MCNext]_mcVars => [SketchNext]_sketchVars
    BY DEF MCNext, mcVars, SketchNext, sketchVars
  <2>3. QED
    BY <2>1, <2>2, PTL DEF MCSpec, SketchSpec
<1>2. MCInit => RunInv
  <2> SUFFICES ASSUME MCInit PROVE RunInv
    OBVIOUS
  <2>1. \A b \in Bucket : recent[b] = <<>> /\ hash1_1[b] = 0
    BY DEF MCInit, SketchInit
  <2>2. recent \in [Bucket -> Seq(Fingerprint)] /\ ~sketched.eflag
    BY EmptySeq DEF MCInit, SketchInit
  <2>3. QED
    BY <2>1, <2>2, SketchAssumption DEF RunInv, CountIsRun
<1>3. SketchTypeOK /\ RunInv /\ [MCNext]_mcVars => RunInv'
  <2> SUFFICES ASSUME SketchTypeOK, RunInv, [MCNext]_mcVars PROVE RunInv'
    OBVIOUS
  <2>1. CASE MCNext
    BY <2>1, RunInvNext DEF MCNext
  <2>2. CASE UNCHANGED mcVars
    BY <2>2 DEF mcVars, RunInv, CountIsRun
  <2>3. QED
    BY <2>1, <2>2
<1>4. RunInv => FlagMeansFullRun
  BY FullRun DEF FlagMeansFullRun
<1>5. QED
  BY <1>1, <1>2, <1>3, <1>4, SketchTypeCorrect, PTL DEF MCSpec
=============================================================================
