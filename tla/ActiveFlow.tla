----------------------------- MODULE ActiveFlow -----------------------------
(***************************************************************************)
(* What the sketch promises to the control plane.  Packets arrive at       *)
(* buckets, each with the fingerprint of its flow.  A run is a maximal     *)
(* stretch of consecutive arrivals of one fingerprint at one bucket.  A    *)
(* run is reported once, by the arrival that makes it HIT_COUNT long.      *)
(***************************************************************************)
EXTENDS Naturals

CONSTANTS Bucket,       \* the buckets
          Fingerprint,  \* the fingerprints flows may have
          NoFp,         \* no packet has arrived at the bucket yet
          HIT_COUNT     \* the length at which a run is reported

VARIABLES last,    \* the fingerprint of each bucket's current run
          streak,  \* its length, HIT_COUNT + 1 standing for "already reported"
          report   \* the last arrival and whether it was reported

avars == <<last, streak, report>>

AInit ==
  /\ last   = [b \in Bucket |-> NoFp]
  /\ streak = [b \in Bucket |-> 0]
  /\ report = [bucket |-> 0, fp |-> 0, eflag |-> FALSE]

(* The length of the bucket's run once fp has arrived. *)
Extended(b, fp) ==
  IF last[b] # fp THEN 1
  ELSE IF streak[b] <= HIT_COUNT THEN streak[b] + 1 ELSE HIT_COUNT + 1

Arrive(b, fp) ==
  /\ last'   = [last EXCEPT ![b] = fp]
  /\ streak' = [streak EXCEPT ![b] = Extended(b, fp)]
  /\ report' = [bucket |-> b, fp |-> fp, eflag |-> Extended(b, fp) = HIT_COUNT]

ANext == \E b \in Bucket, fp \in Fingerprint : Arrive(b, fp)

ASpec == AInit /\ [][ANext]_avars
=============================================================================
