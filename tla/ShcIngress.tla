----------------------------- MODULE ShcIngress -----------------------------
(***************************************************************************)
(* The ingress pipeline of platform/p4src/shc_real_time_sketch.p4: parser, *)
(* flow key, lookup in route_tbl, choice of the bucket, sketch, digest.    *)
(* A packet traverses the pipeline as one step; the driver changes         *)
(* route_tbl between packets.                                              *)
(***************************************************************************)
EXTENDS Sketch, Sequences

CONSTANTS Flow, NoFlow, Slot,
          Crc16,        \* fingerprint of each flow
          Hash1,        \* the RANDOM hash of each flow (16 bits)
          Cuckoo,       \* the four hash values a tagged packet of the flow carries
          HashMask,     \* untagged packets use Hash1 modulo this: 0x4000
          HASH_BUCKET,  \* number of buckets: 65536
          QueueMax      \* digests the hardware holds before it drops

VARIABLES route_tbl,  \* the hardware table, written by the driver
          digests,    \* learn messages waiting for the control plane
          last_pkt    \* what the last packet met

ingressVars == <<sketchVars, digests, last_pkt>>

(* The headers the parser looks at; a payload it does not parse is "other". *)
Packet ==
  [etherType  : {"ipv4", "other"}, protocol      : {"vxlan", "cuckoo", "other"},
   innerEther : {"ipv4", "other"}, innerProtocol : {"cuckoo", "other"},
   outer : Flow, inner : Flow]

(* ShcIngressParser: which headers are valid when it accepts. *)
Ipv4Valid(p)  == p.etherType = "ipv4"
InnerValid(p) == Ipv4Valid(p) /\ p.protocol = "vxlan" /\ p.innerEther = "ipv4"
CuckooHashesValid(p) ==
  \/ Ipv4Valid(p) /\ p.protocol = "cuckoo"
  \/ InnerValid(p) /\ p.innerProtocol = "cuckoo"

(* The flow is that of the innermost IPv4 header. *)
FlowKey(p) == IF InnerValid(p) THEN p.inner ELSE p.outer

Hit(f) == \E s \in Slot : route_tbl[s].flow = f
Nhop(f) == route_tbl[CHOOSE s \in Slot : route_tbl[s].flow = f].nhop_id

(* cuckoo_hash_chose_table: the two low bits of Hash1 pick one of the four. *)
ChosenHash(f) == Cuckoo[f][1 + (Hash1[f] % 4)]

(* cuckoo_hash_index, cut to the 16 bits the registers are addressed with. *)
BucketIndex(p) ==
  LET f == FlowKey(p)
  IN  (IF CuckooHashesValid(p)
       THEN IF Hit(f) THEN Nhop(f) ELSE ChosenHash(f)
       ELSE Hash1[f] % HashMask) % HASH_BUCKET

IngressInit ==
  /\ SketchInit
  /\ last_pkt = [flow |-> NoFlow, table_hit |-> FALSE, tagged |-> FALSE, digest |-> FALSE]

(* Mutant of Ingress: the flow is reported whether or not it is offloaded. *)
IngressReportsHits(p) ==
  LET f == FlowKey(p)
  IN  /\ Ipv4Valid(p)
      /\ SketchApply(BucketIndex(p), Crc16[f])
      /\ last_pkt' = [flow |-> f, table_hit |-> Hit(f), tagged |-> CuckooHashesValid(p),
                      digest |-> sketched'.eflag]
      /\ digests' = IF last_pkt'.digest /\ Len(digests) < QueueMax
                    THEN Append(digests, f) ELSE digests

(* apply of ShcIngress on an IPv4 packet, and the digest of the deparser. *)
Ingress(p) ==
  LET f == FlowKey(p)
  IN  /\ Ipv4Valid(p)
      /\ SketchApply(BucketIndex(p), Crc16[f])
      /\ last_pkt' = [flow |-> f, table_hit |-> Hit(f), tagged |-> CuckooHashesValid(p),
                      digest |-> sketched'.eflag /\ ~Hit(f)]
      /\ digests' = IF last_pkt'.digest /\ Len(digests) < QueueMax
                    THEN Append(digests, f) ELSE digests

(* Any other packet passes the control untouched. *)
IngressNotIpv4(p) ==
  /\ ~Ipv4Valid(p)
  /\ last_pkt' = [flow |-> NoFlow, table_hit |-> FALSE, tagged |-> FALSE, digest |-> FALSE]
  /\ UNCHANGED <<sketchVars, digests>>

IngressTypeOK ==
  /\ SketchTypeOK
  /\ last_pkt \in [flow : Flow \cup {NoFlow}, table_hit : BOOLEAN,
                   tagged : BOOLEAN, digest : BOOLEAN]
=============================================================================
