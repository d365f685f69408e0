------------------------------- MODULE Sketch -------------------------------
(***************************************************************************)
(* control Sketch of platform/p4src/shc_real_time_sketch.p4: two register  *)
(* arrays indexed by bucket.  hash1_1 holds the fingerprint of the last    *)
(* packet, hash1_1_n how many packets of that fingerprint came in a row.   *)
(* Each RegisterAction is one stateful ALU access of the switch pipeline,  *)
(* and packets pass the pipeline in order, so a packet is one step.        *)
(***************************************************************************)
EXTENDS Naturals

CONSTANTS Bucket,       \* the register index, 0 .. HASH_BUCKET - 1
          Fingerprint,  \* the values CRC16(src, dst) takes
          HIT_COUNT,    \* the reporting threshold
          CountMax,     \* the largest value of a bit<8> cell: 255
          PktMax        \* the largest value of pkt_num: 2^32 - 1

ASSUME SketchAssumption ==
  /\ Fingerprint \subseteq Nat
  /\ HIT_COUNT \in Nat /\ CountMax \in Nat /\ PktMax \in Nat
  /\ 1 < HIT_COUNT /\ HIT_COUNT < CountMax

VARIABLES hash1_1,    \* fingerprint register array, initially zero
          hash1_1_n,  \* consecutive-arrival register array, initially one
          pkt_num,    \* total number of packets
          sketched    \* the metadata the last packet left the sketch with

sketchVars == <<hash1_1, hash1_1_n, pkt_num, sketched>>

SketchInit ==
  /\ hash1_1   = [b \in Bucket |-> 0]
  /\ hash1_1_n = [b \in Bucket |-> 1]
  /\ pkt_num   = 0
  /\ sketched  = [bucket |-> 0, fp |-> 0, eflag |-> FALSE]

(* Mutant of SatAdd: plain bit<8> addition, which wraps. *)
WrapAdd(x, y, max) == (x + y) % (max + 1)

(* |+| : addition that saturates at the width of the cell. *)
SatAdd(x, y, max) == IF x + y <= max THEN x + y ELSE max

(* pkt_update_1: compares the fingerprint and leaves the packet's one behind. *)
FpCmpRe(b, fp) == hash1_1[b] = fp

(* Mutant of CsCount: a new fingerprint inherits the old one's count. *)
InheritCount(b, fp) == SatAdd(hash1_1_n[b], 1, CountMax)

(* pkt_num_1: the consecutive-arrival count after this packet. *)
CsCount(b, fp) ==
  IF FpCmpRe(b, fp) THEN SatAdd(hash1_1_n[b], 1, CountMax) ELSE 1

(* apply: count the packet, compare, update the count, raise eflag. *)
SketchApply(b, fp) ==
  /\ pkt_num'   = SatAdd(pkt_num, 1, PktMax)
  /\ hash1_1'   = [hash1_1 EXCEPT ![b] = fp]
  /\ hash1_1_n' = [hash1_1_n EXCEPT ![b] = CsCount(b, fp)]
  /\ sketched'  = [bucket |-> b, fp |-> fp, eflag |-> CsCount(b, fp) = HIT_COUNT]

SketchNext == \E b \in Bucket, fp \in Fingerprint : SketchApply(b, fp)

SketchSpec == SketchInit /\ [][SketchNext]_sketchVars

-----------------------------------------------------------------------------
(* Every register holds a value of its width and the metadata names a bucket. *)
SketchTypeOK ==
  /\ hash1_1   \in [Bucket -> Fingerprint \cup {0}]
  /\ hash1_1_n \in [Bucket -> 1 .. CountMax]
  /\ pkt_num   \in 0 .. PktMax
  /\ sketched  \in [bucket : Bucket \cup {0}, fp : Fingerprint \cup {0}, eflag : BOOLEAN]

(***************************************************************************)
(* The refinement: a cell whose fingerprint is still 0 has seen no packet  *)
(* (sound only where no flow has the fingerprint 0), and a count above     *)
(* HIT_COUNT, saturated or not, is a run already reported.                 *)
(***************************************************************************)
NoFp == 0

AbsStreak ==
  [b \in Bucket |-> IF hash1_1[b] = 0 THEN 0
                    ELSE IF hash1_1_n[b] <= HIT_COUNT THEN hash1_1_n[b]
                    ELSE HIT_COUNT + 1]

A == INSTANCE ActiveFlow WITH last <- hash1_1, streak <- AbsStreak, report <- sketched

(***************************************************************************)
(* A run of one fingerprint at a bucket is reported exactly once, at its   *)
(* HIT_COUNT-th packet: neither the 8-bit count saturating nor the initial *)
(* values of the registers report early, late or again.                    *)
(***************************************************************************)
RefinesActiveFlow == A!ASpec
=============================================================================
