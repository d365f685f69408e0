----------------------------- MODULE PrefixTable -----------------------------
(* What a longest-prefix table promises, without masks or lengths: a route  *)
(* belongs to the set of addresses it covers, and an address takes the      *)
(* route of the smallest set that contains it.  The result variable names   *)
(* the call it answers.                                                     *)
EXTENDS Integers, FiniteSets

CONSTANTS Block, Info
VARIABLES routes, out

vars == <<routes, out>>
Result(op, ok) == [op |-> op, ok |-> ok]

PTInit == routes = [b \in {} |-> {}] /\ out = Result("none", TRUE)

SetRoute(b, i, op) ==
  /\ out' = Result(op, TRUE)
  /\ LET r == routes
     IN routes' = [x \in DOMAIN r \cup {b} |-> IF x = b THEN i ELSE r[x]]
Change(b, i) == b \in DOMAIN routes /\ SetRoute(b, i, "modify")
Unset(b) ==
  /\ out' = Result("delete", TRUE)
  /\ LET r == routes IN routes' = [x \in DOMAIN r \ {b} |-> r[x]]
Missing(b) == out' = Result("modify", FALSE) /\ b \notin DOMAIN routes /\ UNCHANGED routes
Refuse == out' = Result("text", FALSE) /\ UNCHANGED routes

PTNext ==
  \/ \E b \in Block : \/ Unset(b) \/ Missing(b)
                       \/ \E i \in Info : SetRoute(b, i, "insert") \/ Change(b, i)
  \/ Refuse

PTSpec == PTInit /\ [][PTNext]_vars

(* The routes an address takes: at most one. *)
Best(a) ==
  LET r == routes
      S == {b \in DOMAIN r : a \in b}
  IN {r[b] : b \in {c \in S : \A d \in S : Cardinality(c) <= Cardinality(d)}}
==============================================================================
