---------------------------- MODULE OffloadProofs ---------------------------
(***************************************************************************)
(* The offloading loop implements the control plane's specification, so    *)
(* the theorems about Hal hold for it, with packets instead of arbitrary   *)
(* reports; and what ties the table to the sketch: a hit updates the       *)
(* bucket of its own entry.                                                *)
(***************************************************************************)
EXTENDS Offload, HalProofs

-----------------------------------------------------------------------------
(* The pipeline, seen by the control plane.                                *)

LEMMA FlowKeyType ==
  ASSUME NEW p \in Traffic
  PROVE  I!FlowKey(p) \in Flow
BY TrafficAssumption DEF I!FlowKey, I!Packet

(* A packet reports a flow that is not in the table, or nothing at all. *)
LEMMA PacketReports ==
  ASSUME NEW p \in Traffic, PacketArrives(p)
  PROVE  (\E f \in Flow : Report(f)) \/ UNCHANGED halVars
<1>1. UNCHANGED <<driverVars, modeVars, callVars, registered, batch, statVars, th, ghost>>
  BY DEF PacketArrives
<1>2. CASE digests' = digests
  BY <1>1, <1>2 DEF halVars, queueVars
<1>3. CASE digests' # digests
  <2> DEFINE f == I!FlowKey(p)
  <2>1. f \in Flow /\ I!Ingress(p)
    BY <1>3, FlowKeyType DEF PacketArrives, I!IngressNotIpv4
  <2>2. last_pkt'.digest /\ digests' = IF Len(digests) < QueueMax
                                       THEN Append(digests, f) ELSE digests
    BY <1>3, <2>1 DEF I!Ingress
  <2>3. ~InTable(f)
    BY <2>1, <2>2 DEF I!Ingress, I!Hit, InTable
  <2>4. Report(f)
    BY <1>1, <2>2, <2>3 DEF Report, PacketArrives
  <2>5. QED
    BY <2>1, <2>4
<1>4. QED
  BY <1>2, <1>3

LEMMA StepIsHalStep == [OffloadNext]_offloadVars => [HalNext]_halVars
BY PacketReports DEF OffloadNext, HalNext, offloadVars

(***************************************************************************)
(* The loop of switch and control plane is a behaviour of Hal: every       *)
(* packet is a report of a flow that misses the table at that moment, or   *)
(* leaves the control plane alone.                                         *)
(***************************************************************************)
THEOREM LoopRefinesHal == OffloadSpec => RefinesHal
<1>1. OffloadInit => HalInit
  BY DEF OffloadInit
<1>2. QED
  BY <1>1, StepIsHalStep, PTL DEF OffloadSpec, RefinesHal, HalSpec

(***************************************************************************)
(* With real packets as with arbitrary reports: the key the driver reads   *)
(* is its caller's, entries carry their own index, and the counters        *)
(* describe the table and balance with the totals.                         *)
(***************************************************************************)
THEOREM LoopIsSafe ==
  ASSUME EarlyTraffic = FALSE
  PROVE  OffloadSpec => []( /\ BufferIsCallers /\ EntryCarriesIndex
                            /\ CountersDescribeTable /\ CountsConserved )
BY LoopRefinesHal, BufferSafe, IndexCoupled, CountersCorrect, LedgerBalances, PTL DEF RefinesHal

-----------------------------------------------------------------------------
(* The bucket of a packet.                                                 *)

LEMMA BucketType ==
  ASSUME HalTypeOK, NEW p \in Traffic
  PROVE  I!BucketIndex(p) \in Bucket
<1> DEFINE f == I!FlowKey(p)
           h == IF I!CuckooHashesValid(p)
                THEN IF I!Hit(f) THEN I!Nhop(f) ELSE I!ChosenHash(f)
                ELSE Hash1[f] % HashMask
<1>1. f \in Flow
  BY FlowKeyType
<1>2. ASSUME I!Hit(f) PROVE I!Nhop(f) \in Nat
  <2>1. PICK s \in Slot : s = CHOOSE x \in Slot : route_tbl[x].flow = f
    BY <1>2 DEF I!Hit
  <2>2. route_tbl[s].nhop_id \in Nat
    BY DEF HalTypeOK
  <2>3. QED
    BY <2>1, <2>2 DEF I!Nhop
<1>3. Hash1[f] \in Nat
  BY <1>1, OffloadAssumption
<1>4. I!ChosenHash(f) \in Nat
  <2>1. 1 + (Hash1[f] % 4) \in 1 .. 4
    BY <1>3
  <2>2. QED
    BY <2>1, <1>1, OffloadAssumption DEF I!ChosenHash
<1>5. Hash1[f] % HashMask \in Nat
  BY <1>3, OffloadAssumption
<1>6. h \in Nat
  BY <1>2, <1>4, <1>5
<1>7. I!BucketIndex(p) = h % HASH_BUCKET
  BY DEF I!BucketIndex
<1> HIDE DEF h
<1>8. QED
  BY <1>6, <1>7, OffloadAssumption

(* A tagged packet that hits addresses the bucket with its entry's number. *)
LEMMA HitBucket ==
  ASSUME HalTypeOK, EntryCarriesIndex, NEW p \in Traffic,
         I!CuckooHashesValid(p), I!Hit(I!FlowKey(p))
  PROVE  I!BucketIndex(p) \in Slot /\ route_tbl[I!BucketIndex(p)].flow = I!FlowKey(p)
<1> DEFINE f == I!FlowKey(p)
<1>1. f \in Flow /\ f # NoFlow
  BY FlowKeyType, HalAssumption
<1>2. PICK s \in Slot : /\ s = CHOOSE x \in Slot : route_tbl[x].flow = f
                        /\ route_tbl[s].flow = f
  BY DEF I!Hit
<1>3. route_tbl[s].nhop_id = s
  BY <1>1, <1>2 DEF EntryCarriesIndex, Occupied
<1>4. I!BucketIndex(p) = s % HASH_BUCKET
  BY <1>2, <1>3 DEF I!BucketIndex, I!Nhop
<1>5. s \in 0 .. HASH_BUCKET - 1 /\ HASH_BUCKET \in Nat
  BY OffloadAssumption
<1>6. s % HASH_BUCKET = s
  BY <1>5
<1>7. QED
  BY <1>2, <1>4, <1>6

-----------------------------------------------------------------------------
(* Types.                                                                  *)

LEMMA SketchStepType ==
  ASSUME I!SketchTypeOK, NEW b \in Bucket, NEW fp \in Fingerprint, I!SketchApply(b, fp)
  PROVE  I!SketchTypeOK'
<1>1. CountMax \in Nat /\ PktMax \in Nat /\ 0 < CountMax
  BY OffloadAssumption
<1>2. I!CsCount(b, fp) \in 1 .. CountMax
  BY <1>1 DEF I!CsCount, I!SatAdd, I!SketchTypeOK
<1>3. pkt_num' \in 0 .. PktMax
  BY <1>1 DEF I!SketchApply, I!SatAdd, I!SketchTypeOK
<1>4. hash1_1' \in [Bucket -> Fingerprint \cup {0}]
  BY DEF I!SketchApply, I!SketchTypeOK
<1>5. hash1_1_n' \in [Bucket -> 1 .. CountMax]
  BY <1>2 DEF I!SketchApply, I!SketchTypeOK
<1>6. sketched' \in [bucket : Bucket \cup {0}, fp : Fingerprint \cup {0}, eflag : BOOLEAN]
  BY DEF I!SketchApply
<1>7. QED
  BY <1>3, <1>4, <1>5, <1>6 DEF I!SketchTypeOK

LEMMA PacketType ==
  ASSUME HalTypeOK, I!IngressTypeOK, NEW p \in Traffic, PacketArrives(p)
  PROVE  I!IngressTypeOK'
<1>1. CASE I!Ingress(p)
  <2> DEFINE f == I!FlowKey(p)
             b == I!BucketIndex(p)
  <2>1. f \in Flow /\ b \in Bucket /\ Crc16[f] \in Fingerprint
    BY FlowKeyType, BucketType, OffloadAssumption
  <2>2. I!SketchTypeOK'
    <3>1. I!SketchApply(b, Crc16[f]) /\ I!SketchTypeOK
      BY <1>1 DEF I!Ingress, I!IngressTypeOK
    <3> HIDE DEF f, b
    <3>2. QED
      BY <2>1, <3>1, SketchStepType
  <2>3. last_pkt' = [flow |-> f, table_hit |-> I!Hit(f), tagged |-> I!CuckooHashesValid(p),
                     digest |-> sketched'.eflag /\ ~I!Hit(f)]
    BY <1>1 DEF I!Ingress
  <2>4. I!Hit(f) \in BOOLEAN /\ I!CuckooHashesValid(p) \in BOOLEAN
        /\ (sketched'.eflag /\ ~I!Hit(f)) \in BOOLEAN
    BY DEF I!Hit, I!CuckooHashesValid, I!InnerValid, I!Ipv4Valid
  <2>5. last_pkt' \in [flow : Flow \cup {NoFlow}, table_hit : BOOLEAN,
                       tagged : BOOLEAN, digest : BOOLEAN]
    BY <2>1, <2>3, <2>4
  <2>6. QED
    BY <2>2, <2>5 DEF I!IngressTypeOK
<1>2. CASE I!IngressNotIpv4(p)
  BY <1>2 DEF I!IngressNotIpv4, I!IngressTypeOK, I!SketchTypeOK, I!sketchVars
<1>3. QED
  BY <1>1, <1>2 DEF PacketArrives

(***************************************************************************)
(* Registers, metadata, tables and counters keep their types, and every    *)
(* bucket a packet addresses exists, for any hash functions.               *)
(***************************************************************************)
THEOREM OffloadTypeCorrect == OffloadSpec => []OffloadTypeOK
<1>1. OffloadInit => I!IngressTypeOK
  BY OffloadAssumption DEF OffloadInit, I!IngressInit, I!SketchInit, I!IngressTypeOK,
                           I!SketchTypeOK
<1>2. HalTypeOK /\ I!IngressTypeOK /\ [OffloadNext]_offloadVars => I!IngressTypeOK'
  <2> SUFFICES ASSUME HalTypeOK, I!IngressTypeOK, [OffloadNext]_offloadVars
               PROVE  I!IngressTypeOK'
    OBVIOUS
  <2>1. CASE UNCHANGED switchVars
    BY <2>1 DEF switchVars, I!IngressTypeOK, I!SketchTypeOK
  <2>2. QED
    BY <2>1, PacketType DEF OffloadNext, offloadVars
<1>3. QED
  BY <1>1, <1>2, LoopRefinesHal, HalTypeCorrect, PTL
     DEF OffloadSpec, OffloadTypeOK, RefinesHal

-----------------------------------------------------------------------------
(***************************************************************************)
(* A tagged packet that hits updates the bucket with the number of the     *)
(* slot that holds its own flow, whichever thread installed that entry and *)
(* however often the slot was reused before.                               *)
(***************************************************************************)
THEOREM HitsOwnBucket ==
  ASSUME EarlyTraffic = FALSE
  PROVE  OffloadSpec => HitTouchesOwnBucket
<1> DEFINE Own == last_pkt'.table_hit /\ last_pkt'.tagged =>
                    /\ sketched'.bucket \in Slot
                    /\ route_tbl[sketched'.bucket].flow = last_pkt'.flow
<1>1. HalTypeOK /\ EntryCarriesIndex /\ [OffloadNext]_offloadVars => [Own]_<<sketched, last_pkt>>
  <2> SUFFICES ASSUME HalTypeOK, EntryCarriesIndex, [OffloadNext]_offloadVars,
                      <<sketched, last_pkt>>' # <<sketched, last_pkt>>,
                      last_pkt'.table_hit, last_pkt'.tagged
               PROVE  /\ sketched'.bucket \in Slot
                      /\ route_tbl[sketched'.bucket].flow = last_pkt'.flow
    OBVIOUS
  <2>1. PICK p \in Traffic : PacketArrives(p)
    BY DEF OffloadNext, offloadVars, switchVars
  <2>2. CASE I!IngressNotIpv4(p)
    BY <2>2 DEF I!IngressNotIpv4
  <2>3. CASE I!Ingress(p)
    <3>1. /\ last_pkt'.flow = I!FlowKey(p) /\ last_pkt'.table_hit = I!Hit(I!FlowKey(p))
          /\ last_pkt'.tagged = I!CuckooHashesValid(p)
      BY <2>3 DEF I!Ingress
    <3>2. sketched'.bucket = I!BucketIndex(p)
      BY <2>3 DEF I!Ingress, I!SketchApply
    <3>3. QED
      BY <3>1, <3>2, HitBucket
  <2>4. QED
    BY <2>1, <2>2, <2>3 DEF PacketArrives
<1>2. QED
  BY <1>1, LoopRefinesHal, HalTypeCorrect, IndexCoupled, PTL
     DEF OffloadSpec, RefinesHal, HitTouchesOwnBucket

-----------------------------------------------------------------------------
(* The sketch in the loop.                                                 *)

(* A packet at a bucket is one arrival of ActiveFlow. *)
LEMMA PacketIsArrival ==
  ASSUME 0 \notin Fingerprint, I!SketchTypeOK,
         NEW b \in Bucket, NEW fp \in Fingerprint, I!SketchApply(b, fp)
  PROVE  I!A!Arrive(b, fp)
<1> USE OffloadAssumption DEF I!NoFp
<1>1. fp # 0 /\ fp \in Nat
  OBVIOUS
<1>2. hash1_1_n[b] \in 1 .. CountMax
  BY DEF I!SketchTypeOK
<1>3. hash1_1' = [hash1_1 EXCEPT ![b] = fp] /\ hash1_1'[b] = fp
  BY DEF I!SketchApply, I!SketchTypeOK
<1>4. hash1_1_n'[b] = I!CsCount(b, fp)
  BY DEF I!SketchApply, I!SketchTypeOK
<1>5. I!AbsStreak'[b] = IF I!CsCount(b, fp) <= HIT_COUNT THEN I!CsCount(b, fp) ELSE HIT_COUNT + 1
  BY <1>1, <1>3, <1>4 DEF I!AbsStreak
<1>6. I!AbsStreak'[b] = I!A!Extended(b, fp)
  <2>1. CASE hash1_1[b] = fp
    <3>1. I!CsCount(b, fp) = I!SatAdd(hash1_1_n[b], 1, CountMax)
      BY <2>1 DEF I!CsCount, I!FpCmpRe
    <3>2. I!AbsStreak[b] = IF hash1_1_n[b] <= HIT_COUNT THEN hash1_1_n[b] ELSE HIT_COUNT + 1
      BY <2>1, <1>1 DEF I!AbsStreak
    <3>3. I!A!Extended(b, fp) =
            IF I!AbsStreak[b] <= HIT_COUNT THEN I!AbsStreak[b] + 1 ELSE HIT_COUNT + 1
      BY <2>1 DEF I!A!Extended
    <3>4. QED
      BY <1>2, <1>5, <3>1, <3>2, <3>3 DEF I!SatAdd
  <2>2. CASE hash1_1[b] # fp
    BY <1>1, <1>3, <1>4, <2>2 DEF I!AbsStreak, I!CsCount, I!FpCmpRe, I!A!Extended
  <2>3. QED
    BY <2>1, <2>2
<1>7. I!AbsStreak' = [I!AbsStreak EXCEPT ![b] = I!A!Extended(b, fp)]
  <2>1. \A c \in Bucket : c # b => I!AbsStreak'[c] = I!AbsStreak[c]
    BY DEF I!SketchApply, I!SketchTypeOK, I!AbsStreak
  <2>2. QED
    BY <1>6, <2>1 DEF I!AbsStreak
<1>8. (I!CsCount(b, fp) = HIT_COUNT) <=> (I!A!Extended(b, fp) = HIT_COUNT)
  <2>1. I!CsCount(b, fp) \in Nat
    BY <1>2 DEF I!CsCount, I!SatAdd
  <2>2. QED
    BY <1>5, <1>6, <2>1
<1>9. sketched' = [bucket |-> b, fp |-> fp, eflag |-> I!A!Extended(b, fp) = HIT_COUNT]
  BY <1>8 DEF I!SketchApply
<1>10. QED
  BY <1>3, <1>7, <1>9 DEF I!A!Arrive

(***************************************************************************)
(* The threads change the table between any two packets, and with it the   *)
(* bucket the next packet of a flow goes to; whatever they do, each run at *)
(* a bucket is reported once, at its HIT_COUNT-th packet.                  *)
(***************************************************************************)
THEOREM LoopReportsEachRun ==
  ASSUME 0 \notin Fingerprint
  PROVE  OffloadSpec => LoopReportsRuns
<1>1. OffloadInit => I!A!AInit
  BY DEF OffloadInit, I!IngressInit, I!SketchInit, I!A!AInit, I!AbsStreak, I!NoFp
<1>2. OffloadTypeOK /\ [OffloadNext]_offloadVars => [I!A!ANext]_(I!A!avars)
  <2> SUFFICES ASSUME OffloadTypeOK, [OffloadNext]_offloadVars
               PROVE  I!A!ANext \/ UNCHANGED I!A!avars
    OBVIOUS
  <2>1. ASSUME UNCHANGED <<hash1_1, hash1_1_n, sketched>>
        PROVE  UNCHANGED I!A!avars
    BY <2>1 DEF I!A!avars, I!AbsStreak
  <2>2. CASE UNCHANGED switchVars
    BY <2>1, <2>2 DEF switchVars
  <2>3. ASSUME NEW p \in Traffic, I!IngressNotIpv4(p)
        PROVE  UNCHANGED I!A!avars
    BY <2>1, <2>3 DEF I!IngressNotIpv4, I!sketchVars
  <2>4. ASSUME NEW p \in Traffic, I!Ingress(p)
        PROVE  I!A!ANext
    <3> DEFINE f == I!FlowKey(p)
               b == I!BucketIndex(p)
    <3>1. f \in Flow /\ b \in Bucket /\ Crc16[f] \in Fingerprint
      BY FlowKeyType, BucketType, OffloadAssumption DEF OffloadTypeOK
    <3>2. I!SketchApply(b, Crc16[f]) /\ I!SketchTypeOK
      BY <2>4 DEF I!Ingress, OffloadTypeOK, I!IngressTypeOK
    <3> HIDE DEF f, b
    <3>3. I!A!Arrive(b, Crc16[f])
      BY <3>1, <3>2, PacketIsArrival
    <3>4. QED
      BY <3>1, <3>3 DEF I!A!ANext
  <2>5. QED
    BY <2>2, <2>3, <2>4 DEF OffloadNext, PacketArrives, offloadVars
<1>3. QED
  BY <1>1, <1>2, OffloadTypeCorrect, PTL
     DEF OffloadSpec, LoopReportsRuns, I!RefinesActiveFlow, I!A!ASpec
=============================================================================
