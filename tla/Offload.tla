------------------------------- MODULE Offload ------------------------------
(***************************************************************************)
(* The whole offloading loop: packets pass the switch pipeline while the   *)
(* learn, idle-time and main threads change the table they are matched     *)
(* against.                                                                *)
(***************************************************************************)
EXTENDS Hal

CONSTANTS Bucket, Fingerprint, HIT_COUNT, CountMax, PktMax,
          Crc16, Hash1, Cuckoo, HashMask, HASH_BUCKET,
          Traffic   \* the packets that may arrive

ASSUME OffloadAssumption ==
  /\ HASH_BUCKET \in Nat /\ HashMask \in Nat /\ 0 < HashMask
  /\ Bucket = 0 .. HASH_BUCKET - 1 /\ 0 < HASH_BUCKET
  /\ Slot \subseteq Bucket                \* route_tbl has as many slots as buckets
  /\ Fingerprint \subseteq Nat
  /\ CountMax \in Nat /\ PktMax \in Nat /\ HIT_COUNT \in Nat
  /\ 1 < HIT_COUNT /\ HIT_COUNT < CountMax
  /\ Crc16 \in [Flow -> Fingerprint]
  /\ Hash1 \in [Flow -> Nat]
  /\ Cuckoo \in [Flow -> [1 .. 4 -> Nat]]

VARIABLES hash1_1, hash1_1_n, pkt_num, sketched, last_pkt

I == INSTANCE ShcIngress

ASSUME TrafficAssumption == Traffic \subseteq I!Packet

switchVars  == <<hash1_1, hash1_1_n, pkt_num, sketched, last_pkt>>
offloadVars == <<halVars, switchVars>>

OffloadInit == HalInit /\ I!IngressInit

(* A packet arrives; the driver's state is not touched by the pipeline. *)
PacketArrives(p) ==
  /\ MayArrive
  /\ I!Ingress(p) \/ I!IngressNotIpv4(p)
  /\ UNCHANGED <<driverVars, modeVars, callVars, registered, batch, statVars, th, ghost>>

OffloadNext ==
  \/ \E t \in Thread : ThreadStep(t) /\ UNCHANGED switchVars
  \/ \E p \in Traffic : PacketArrives(p)

OffloadSpec == OffloadInit /\ [][OffloadNext]_offloadVars

-----------------------------------------------------------------------------
(* The types of both halves. *)
OffloadTypeOK == HalTypeOK /\ I!IngressTypeOK

(***************************************************************************)
(* Seen by the control plane, the pipeline does nothing but report flows   *)
(* that are absent from the table at that moment: with real packets the    *)
(* loop is still a behaviour of Hal, so all that holds there holds here.   *)
(***************************************************************************)
RefinesHal == HalSpec

(***************************************************************************)
(* In the loop, too, the sketch reports each run at a bucket once, at its  *)
(* HIT_COUNT-th packet, although entries that the threads install, replace *)
(* and delete between two packets of a flow send it to other buckets.      *)
(***************************************************************************)
LoopReportsRuns == I!RefinesActiveFlow

(***************************************************************************)
(* A tagged packet that hits updates the bucket of its own entry's slot,   *)
(* whoever installed the entry and whenever: candidates for that slot are  *)
(* interrupted by the packets of the entry's owner.                        *)
(***************************************************************************)
HitTouchesOwnBucket ==
  [][last_pkt'.table_hit /\ last_pkt'.tagged =>
       /\ sketched'.bucket \in Slot
       /\ route_tbl[sketched'.bucket].flow = last_pkt'.flow]_<<sketched, last_pkt>>
=============================================================================
