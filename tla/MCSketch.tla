------------------------------ MODULE MCSketch ------------------------------
(* The sketch with a history of the fingerprints each bucket received last. *)
EXTENDS Sketch, Sequences

VARIABLE recent   \* the last HIT_COUNT fingerprints of each bucket

mcVars == <<hash1_1, hash1_1_n, pkt_num, sketched, recent>>

LastN(s, n) == IF Len(s) <= n THEN s ELSE SubSeq(s, Len(s) - n + 1, Len(s))

MCInit == SketchInit /\ recent = [b \in Bucket |-> <<>>]

MCNext ==
  \E b \in Bucket, fp \in Fingerprint :
    /\ SketchApply(b, fp)
    /\ recent' = [recent EXCEPT ![b] = LastN(Append(@, fp), HIT_COUNT)]

MCSpec == MCInit /\ [][MCNext]_mcVars

(***************************************************************************)
(* A raised eflag means that the last HIT_COUNT packets of the bucket all  *)
(* had the reported fingerprint: consecutive arrivals, counted exactly.    *)
(***************************************************************************)
FlagMeansFullRun ==
  sketched.eflag =>
    recent[sketched.bucket] = [i \in 1 .. HIT_COUNT |-> sketched.fp]
=============================================================================
