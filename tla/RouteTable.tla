----------------------------- MODULE RouteTable -----------------------------
(***************************************************************************)
(* What the agent's route API promises (ntb_route_nhop_insert,             *)
(* ntb_route_nhop_delete, ntb_route_delete, ntb_route_cleanup): a table    *)
(* from (vrf, prefix) to a type and a list of distinct next hops.  A call  *)
(* that cannot be served leaves the table as it was.                       *)
(***************************************************************************)
EXTENDS Naturals, Sequences, SequencesExt

CONSTANTS Vrf, Prefix, Encap, RibType,
          MaxPaths     \* MaxPaths[t]: next hops a route of type t may have

VARIABLE routes        \* partial function (vrf, prefix) -> [type, paths]

Holds(k, e) == \E i \in DOMAIN routes[k].paths : routes[k].paths[i] = e
Drop(f, k) == [x \in DOMAIN f \ {k} |-> f[x]]
Set(f, k, r) == [x \in DOMAIN f \cup {k} |-> IF x = k THEN r ELSE f[x]]

RTInit == routes = [k \in {} |-> {}]

(* A new prefix gets its first next hop, an existing one another. *)
AddPath(k, t, e) ==
  \/ /\ k \notin DOMAIN routes
     /\ routes' = Set(routes, k, [type |-> t, paths |-> <<e>>])
  \/ /\ k \in DOMAIN routes /\ routes[k].type = t
     /\ Len(routes[k].paths) < MaxPaths[t] /\ ~Holds(k, e)
     /\ routes' = [routes EXCEPT ![k].paths = Append(@, e)]

(* Removing the last next hop removes the prefix. *)
DelPath(k, e) ==
  /\ k \in DOMAIN routes /\ Holds(k, e)
  /\ routes' = IF Len(routes[k].paths) = 1 THEN Drop(routes, k)
               ELSE [routes EXCEPT ![k].paths = RemoveFirst(@, e)]

DelRoute(k) == k \in DOMAIN routes /\ routes' = Drop(routes, k)

(* Deleting a VRF removes its routes and no others. *)
DelVrf(v) == routes' = [k \in {x \in DOMAIN routes : x[1] # v} |-> routes[k]]

RTNext ==
  \/ \E k \in Vrf \X Prefix :
       \/ \E e \in Encap, t \in RibType : AddPath(k, t, e)
       \/ \E e \in Encap : DelPath(k, e)
       \/ DelRoute(k)
  \/ \E v \in Vrf : DelVrf(v)

RTSpec == RTInit /\ [][RTNext]_routes
=============================================================================
