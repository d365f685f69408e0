---------------------------- MODULE Forwarding -----------------------------
(***************************************************************************)
(* The agent at run time: the main thread starts the packet thread, waits  *)
(* until it is ready and then changes routes and neighbours; the packet    *)
(* thread (pmd.c, netio.c) initialises the tables and then looks up every  *)
(* received packet in them.  The two share the tables under dp_locker, a   *)
(* readers-writer lock.                                                    *)
(*                                                                         *)
(* RouteFib takes a table call as one step.  Here it is one step per       *)
(* object, as another thread sees it: w.todo is the rest of the call.      *)
(* There is one VRF, one prefix P and one destination without a route.     *)
(***************************************************************************)
EXTENDS Integers, Sequences, FiniteSets, FiniteSetsExt, SequencesExt

CONSTANTS
  Encap,        \* the next hops
  Paths,        \* which next hop calls give to which type of route
  Gateway,      \* Gateway[e]: 0 when e has none
  Tgre,         \* the next hops of type NTB_ENCAP_TGRE; the others are VXLAN
  MaxPaths,     \* MaxPaths[t]: next hops a result of type t may have
  NrFibRes,     \* results besides the blackhole
  Mac,          \* MACs given to static neighbours
  DefGwMac,     \* ntb_def_gw_mac_get()
  NbMbuf        \* size of the mbuf pool

ASSUME PoolAssumption == NbMbuf \in Nat \ {0}

RibTypes == {"RT_DEFAULT", "RT_MROUTE"}
ASSUME PathsAssumption == Paths \subseteq Encap \X RibTypes
ASSUME MaxPathsAssumption == MaxPaths \in [RibTypes -> Nat \ {0}]
ASSUME TablesAssumption == IsFiniteSet(Encap) /\ NrFibRes \in Nat
ASSUME MacAssumption == Mac \subseteq Nat \ {0} /\ DefGwMac \in Nat \ {0}  \* 0: none

VARIABLES
  main,         \* where the main thread is
  w,            \* its table call
  pmd,          \* the packet thread: pc and the packet it works on
  tables,       \* the tables ntb_dp_init has created
  pmd_thr_stat,
  lock,         \* dp_locker
  mapped,       \* the VNI of the VRF is in the tunnel map
  fib, res, nhop, neigh,
  kv,           \* key_value_info: which next hop each part came from
  mbufs         \* free mbufs of the pool

mainvars == <<main, w>>
tablevars == <<mapped, fib, res, nhop, neigh>>
vars == <<mainvars, pmd, tables, pmd_thr_stat, lock, tablevars, kv, mbufs>>

Blackhole == 0
Torn == -1                    \* a MAC of which some bytes are written

(* What is received: a packet for P, one for a destination without a route *)
(* and any other.  The socket's filter passes VXLAN only, but packets that *)
(* came before it was attached are read too, and a VXLAN packet may be of  *)
(* another VNI or ether type.                                              *)
Kinds == {"other", "to_P", "to_nowhere"}
Boot == <<"ctx", "eal", "mbuf", "vrf", "tunnel", "neigh", "netio">>

Gateways == {Gateway[e] : e \in Encap} \ {0}
NoCall == [op |-> "none", e |-> 0, t |-> "RT_DEFAULT", mac |-> 0,
           victim |-> 0, old |-> 0, new |-> 0, todo |-> <<>>]
NoPacket == [pc |-> "idle", kind |-> "none", res |-> 0, sel |-> 1, mac |-> 0, mac_of |-> 0]

FwdInit ==
  /\ main = "start" /\ w = NoCall
  /\ pmd = [NoPacket EXCEPT !.pc = "none"]
  /\ tables = {} /\ pmd_thr_stat = "PTS_INIT"
  /\ lock = [readers |-> 0, writer |-> FALSE]
  /\ mapped = FALSE /\ fib = Blackhole
  /\ res = [i \in 0 .. NrFibRes |->
              [used |-> i = Blackhole, mpath |-> <<>>,
               flags |-> IF i = Blackhole THEN {"REJECT"} ELSE {}]]
  /\ nhop = [e \in Encap |-> 0]                \* ref_count, 0: freed
  /\ neigh = [g \in Gateways |-> [refs |-> 0, valid |-> FALSE, mac |-> 0]]
  /\ kv = [mac_of |-> 0, mac |-> 0, tunnel |-> 0, outer |-> 0]
  /\ mbufs = 0

-----------------------------------------------------------------------------
(* Start-up.                                                               *)

MainCreates ==
  /\ main = "start" /\ main' = "poll"
  /\ pmd' = [pmd EXCEPT !.pc = "boot"]
  /\ UNCHANGED <<w, tables, pmd_thr_stat, lock, tablevars, kv, mbufs>>

MainSkipsPoll ==                    \* mutation: main does not wait
  /\ main = "poll" /\ main' = "api"
  /\ UNCHANGED <<w, pmd, tables, pmd_thr_stat, lock, tablevars, kv, mbufs>>

MainPolls ==
  /\ main = "poll" /\ pmd_thr_stat = "PTS_RUNNING" /\ main' = "api"
  /\ UNCHANGED <<w, pmd, tables, pmd_thr_stat, lock, tablevars, kv, mbufs>>

Booting == pmd.pc = "boot" /\ Cardinality(tables) < Len(Boot)

(* One table or library after the other. *)
PmdInit ==
  /\ Booting
  /\ LET t == Boot[Cardinality(tables) + 1] IN
       /\ tables' = tables \cup {t}
       /\ mbufs' = IF t = "mbuf" THEN NbMbuf ELSE mbufs
  /\ UNCHANGED <<mainvars, pmd, pmd_thr_stat, lock, tablevars, kv>>

(* The context and the EAL are the two steps that are checked: rte_exit. *)
PmdInitFails ==
  /\ Booting /\ Boot[Cardinality(tables) + 1] \in {"ctx", "eal"}
  /\ main' = "exited" /\ pmd' = [pmd EXCEPT !.pc = "exited"]
  /\ UNCHANGED <<w, tables, pmd_thr_stat, lock, tablevars, kv, mbufs>>

RunningNotTold ==                   \* mutation: the state stays PTS_INIT
  /\ pmd.pc = "boot" /\ ~Booting /\ pmd' = [pmd EXCEPT !.pc = "idle"]
  /\ UNCHANGED <<mainvars, tables, pmd_thr_stat, lock, tablevars, kv, mbufs>>

PmdRunning ==
  /\ pmd.pc = "boot" /\ ~Booting
  /\ pmd_thr_stat' = "PTS_RUNNING" /\ pmd' = [pmd EXCEPT !.pc = "idle"]
  /\ UNCHANGED <<mainvars, tables, lock, tablevars, kv, mbufs>>

-----------------------------------------------------------------------------
(* A received packet.                                                      *)

PmdStep(from, to) == pmd.pc = from /\ pmd' = [pmd EXCEPT !.pc = to]
LeavesRest == UNCHANGED <<mainvars, tables, pmd_thr_stat, tablevars>>

(* The socket is readable: an mbuf is taken, or the packet stays queued. *)
NetioRx ==
  /\ PmdStep("idle", "recv")
  /\ mbufs > 0 /\ mbufs' = mbufs - 1
  /\ LeavesRest /\ UNCHANGED <<lock, kv>>

(* A failed recv leaves in the mbuf what an earlier packet left there: the *)
(* event_loopbreak it calls has no event base to break, and the mbuf is    *)
(* looked at all the same.                                                 *)
Recv(kind) ==
  /\ pmd.pc = "recv" /\ pmd' = [pmd EXCEPT !.pc = "rlock", !.kind = kind]
  /\ LeavesRest /\ UNCHANGED <<lock, kv, mbufs>>

ReadLockAlways ==                   \* mutation: the read lock is not taken
  PmdStep("rlock", "tunnel") /\ LeavesRest /\ UNCHANGED <<lock, kv, mbufs>>

ReadLock ==
  /\ PmdStep("rlock", "tunnel")
  /\ ~lock.writer /\ lock' = [lock EXCEPT !.readers = @ + 1]
  /\ LeavesRest /\ UNCHANGED <<kv, mbufs>>

(* The filter passes only VXLAN, but it is attached after the socket is    *)
(* open, so the port is checked again.                                     *)
TunnelRcv ==
  /\ PmdStep("tunnel", IF pmd.kind \in {"to_P", "to_nowhere"} /\ mapped THEN "route"
                       ELSE "runlock")
  /\ LeavesRest /\ UNCHANGED <<lock, kv, mbufs>>

RouteLookup ==
  /\ pmd.pc = "route"
  /\ pmd' = [pmd EXCEPT !.pc = "result", !.res = IF pmd.kind = "to_P" THEN fib ELSE Blackhole]
  /\ LeavesRest /\ UNCHANGED <<lock, kv, mbufs>>

(* hash is calc_l3_flow_rss of the outer header: any number. *)
OlIpRcv(hash) ==
  LET r == res[pmd.res] IN
  /\ pmd.pc = "result" /\ LeavesRest /\ UNCHANGED <<lock, kv, mbufs>>
  /\ \/ /\ "REJECT" \in r.flags
        /\ pmd' = [pmd EXCEPT !.pc = "runlock"]
     \/ /\ "REJECT" \notin r.flags /\ "MROUTE" \in r.flags
        /\ pmd' = [pmd EXCEPT !.pc = "mhop", !.sel = 1]
     \/ /\ r.flags \cap {"REJECT", "MROUTE"} = {}
        /\ pmd' = [pmd EXCEPT !.pc = "hop",
                              !.sel = IF r.mpath = <<>> THEN 1 ELSE (hash % Len(r.mpath)) + 1]

(* f_res->mpath[nhsel], read anew for every use. *)
Hop == res[pmd.res].mpath[pmd.sel]

(* The MAC for e, 0 when the neighbour has none yet: then a probe is sent. *)
MacFor(e) ==
  IF Gateway[e] = 0 THEN DefGwMac
  ELSE IF neigh[Gateway[e]].refs > 0 /\ neigh[Gateway[e]].valid
       THEN neigh[Gateway[e]].mac ELSE 0

(* A TGRE next hop gets no inner header. *)
InnerEtherNeed(e) == e \notin Tgre

IpForward ==
  LET mac == IF InnerEtherNeed(Hop) THEN MacFor(Hop) ELSE 0 IN
  /\ pmd.pc = "hop" /\ LeavesRest /\ UNCHANGED <<lock, kv, mbufs>>
  /\ pmd' = IF mac = 0 THEN [pmd EXCEPT !.pc = "runlock"]
            ELSE [pmd EXCEPT !.pc = "kvmac", !.mac = mac, !.mac_of = Hop]

KvMac ==
  /\ PmdStep("kvmac", "kvtunnel")
  /\ kv' = [kv EXCEPT !.mac = pmd.mac, !.mac_of = pmd.mac_of]
  /\ LeavesRest /\ UNCHANGED <<lock, mbufs>>

KvTunnel ==
  /\ PmdStep("kvtunnel", "kvouter")
  /\ kv' = [kv EXCEPT !.tunnel = Hop]
  /\ LeavesRest /\ UNCHANGED <<lock, mbufs>>

KvOuter ==
  /\ PmdStep("kvouter", "runlock")
  /\ kv' = [kv EXCEPT !.outer = Hop]
  /\ LeavesRest /\ UNCHANGED <<lock, mbufs>>

(* A multicast packet gets an inner header per next hop and stops at the   *)
(* first one without a MAC; key_value_info is not filled.                  *)
IpForwardM ==
  /\ pmd.pc = "mhop" /\ LeavesRest /\ UNCHANGED <<lock, kv, mbufs>>
  /\ \/ /\ pmd.sel > Len(res[pmd.res].mpath)
        /\ pmd' = [pmd EXCEPT !.pc = "runlock"]
     \/ /\ pmd.sel <= Len(res[pmd.res].mpath)
        /\ pmd' = IF InnerEtherNeed(Hop) /\ MacFor(Hop) = 0
                  THEN [pmd EXCEPT !.pc = "runlock"]
                  ELSE [pmd EXCEPT !.sel = @ + 1]

UnlockForgotten ==                  \* mutation: the lock is kept
  PmdStep("runlock", "free") /\ LeavesRest /\ UNCHANGED <<lock, kv, mbufs>>

ReadUnlock ==
  /\ PmdStep("runlock", "free")
  /\ lock' = [lock EXCEPT !.readers = @ - 1]
  /\ LeavesRest /\ UNCHANGED <<kv, mbufs>>

FreeForgotten ==                    \* mutation: a dropped packet keeps its mbuf
  /\ pmd.pc = "free" /\ pmd' = NoPacket
  /\ mbufs' = IF pmd.kind = "to_nowhere" THEN mbufs ELSE mbufs + 1
  /\ LeavesRest /\ UNCHANGED <<lock, kv>>

MbufFree ==
  /\ pmd.pc = "free" /\ pmd' = NoPacket
  /\ mbufs' = mbufs + 1
  /\ LeavesRest /\ UNCHANGED <<lock, kv>>

-----------------------------------------------------------------------------
(* A table call of the main thread, under the write lock.                  *)

LeavesPmd == UNCHANGED <<pmd, tables, pmd_thr_stat, kv, mbufs>>

Begin(c) ==
  /\ main = "api" /\ main' = "wlock" /\ w' = c
  /\ LeavesPmd /\ UNCHANGED <<lock, tablevars>>

Calls ==
  \/ \E o \in {"insert", "delete"}, p \in Paths :
       Begin([NoCall EXCEPT !.op = o, !.e = p[1], !.t = p[2]])
  \/ \E e \in {x \in Encap : Gateway[x] # 0}, m \in Mac :
       Begin([NoCall EXCEPT !.op = "static", !.e = e, !.mac = m])
  \/ Begin([NoCall EXCEPT !.op = "map"])

LockIgnoresReaders ==               \* mutation: the writer does not wait for readers
  /\ main = "wlock" /\ ~lock.writer /\ lock' = [lock EXCEPT !.writer = TRUE]
  /\ main' = "check" /\ LeavesPmd /\ UNCHANGED <<w, tablevars>>

WriteLock ==
  /\ main = "wlock" /\ ~lock.writer /\ lock.readers = 0
  /\ lock' = [lock EXCEPT !.writer = TRUE]
  /\ main' = "check" /\ LeavesPmd /\ UNCHANGED <<w, tablevars>>

RTypeOf(r) == IF "MROUTE" \in r.flags THEN "RT_MROUTE" ELSE "RT_DEFAULT"

(* What is left to do after the sanity checks, in order. *)
Plan ==
  LET r == res[fib]
      exists == fib # Blackhole
  IN CASE w.op = "map" -> <<"map">>
       [] w.op = "static" -> <<"mac_begin", "mac_end", "valid">>
       [] w.op = "insert" ->
            IF exists /\ \/ RTypeOf(r) # w.t
                         \/ Len(r.mpath) >= MaxPaths[w.t]
                         \/ w.e \in ToSet(r.mpath)
            THEN <<>> ELSE <<"nhop", "result", "update">>
       [] OTHER ->
            IF ~exists \/ RTypeOf(r) # w.t \/ w.e \notin ToSet(r.mpath) THEN <<>>
            ELSE IF Len(r.mpath) = 1 THEN <<"prefix", "drop", "release">>
            ELSE <<"result", "update">>

Check ==
  /\ main = "check" /\ main' = "steps"
  /\ w' = [w EXCEPT !.todo = Plan, !.old = fib, !.victim = fib]
  /\ LeavesPmd /\ UNCHANGED <<lock, tablevars>>

Doing(step) == main = "steps" /\ w.todo # <<>> /\ Head(w.todo) = step
Continue(todo) == w' = [w EXCEPT !.todo = todo] /\ LeavesPmd /\ UNCHANGED <<main, lock>>

AddRef(g, n) == [neigh EXCEPT ![g].refs = @ + n]

NhopCreate ==
  /\ Doing("nhop")
  /\ \/ /\ nhop' = [nhop EXCEPT ![w.e] = @ + 1]
        /\ neigh' = IF nhop[w.e] = 0 /\ Gateway[w.e] # 0
                    THEN AddRef(Gateway[w.e], 1) ELSE neigh
        /\ Continue(Tail(w.todo))
     \/ Continue(<<>>) /\ UNCHANGED <<nhop, neigh>>     \* out of memory or oids
  /\ UNCHANGED <<mapped, fib, res>>

FreeRes == {i \in 0 .. NrFibRes : ~res[i].used}

(* The lowest free index is filled while nobody can reach it. *)
FibResCreate ==
  LET paths == IF w.op = "delete" THEN RemoveFirst(res[w.old].mpath, w.e)
               ELSE Append(res[w.old].mpath, w.e)
  IN /\ Doing("result")
     /\ \/ /\ FreeRes # {}
           /\ res' = [res EXCEPT ![Min(FreeRes)] =
                        [used |-> TRUE, mpath |-> paths,
                         flags |-> IF w.t = "RT_MROUTE" THEN {"MROUTE"} ELSE {}]]
           /\ w' = [w EXCEPT !.new = Min(FreeRes), !.todo = Tail(@)]
        \/ /\ FreeRes = {} /\ UNCHANGED res
           /\ w' = [w EXCEPT !.todo = IF w.op = "insert" THEN <<"release">> ELSE <<>>]
     /\ LeavesPmd /\ UNCHANGED <<main, lock, mapped, fib, nhop, neigh>>

(* After the switch the old result goes, after a failure the new one. *)
RtPrefixUpdate ==
  /\ Doing("update")
  /\ \/ /\ fib' = w.new
        /\ w' = [w EXCEPT !.victim = w.old,
                   !.todo = CASE w.op = "delete" -> <<"drop", "release">>
                              [] w.op = "insert" /\ w.old # Blackhole -> <<"drop">>
                              [] OTHER -> <<>>]
     \/ /\ UNCHANGED fib
        /\ w' = [w EXCEPT !.victim = w.new,
                   !.todo = IF w.op = "insert" THEN <<"drop", "release">> ELSE <<"drop">>]
  /\ LeavesPmd /\ UNCHANGED <<main, lock, mapped, res, nhop, neigh>>

RtPrefixDelete ==
  /\ Doing("prefix") /\ fib' = Blackhole
  /\ Continue(Tail(w.todo)) /\ UNCHANGED <<mapped, res, nhop, neigh>>

(* Only the index is freed, its content stays. *)
FibResDelete ==
  /\ Doing("drop") /\ res' = [res EXCEPT ![w.victim].used = FALSE]
  /\ Continue(Tail(w.todo)) /\ UNCHANGED <<mapped, fib, nhop, neigh>>

Unref(g) ==
  IF neigh[g].refs > 1 THEN AddRef(g, -1)
  ELSE [neigh EXCEPT ![g] = [refs |-> 0, valid |-> FALSE, mac |-> 0]]

NhopDelete ==
  /\ Doing("release")
  /\ nhop' = [nhop EXCEPT ![w.e] = @ - 1]
  /\ neigh' = IF nhop[w.e] = 1 /\ Gateway[w.e] # 0 THEN Unref(Gateway[w.e]) ELSE neigh
  /\ Continue(Tail(w.todo)) /\ UNCHANGED <<mapped, fib, res>>

(* A static neighbour holds a reference of its own, taken once.  The MAC   *)
(* is copied byte by byte, the entry made valid last.                      *)
NeighStatic ==
  LET g == Gateway[w.e] IN
  /\ \/ Doing("mac_begin") /\ neigh' = [neigh EXCEPT
          ![g].mac = Torn, ![g].refs = @ + IF neigh[g].valid THEN 0 ELSE 1]
     \/ Doing("mac_end") /\ neigh' = [neigh EXCEPT ![g].mac = w.mac]
     \/ Doing("valid") /\ neigh' = [neigh EXCEPT ![g].valid = TRUE]
  /\ Continue(Tail(w.todo)) /\ UNCHANGED <<mapped, fib, res, nhop>>

TunnelMap ==
  /\ Doing("map") /\ mapped' = TRUE
  /\ Continue(Tail(w.todo)) /\ UNCHANGED <<fib, res, nhop, neigh>>

WriteUnlock ==
  /\ main = "steps" /\ w.todo = <<>>
  /\ lock' = [lock EXCEPT !.writer = FALSE]
  /\ main' = "api" /\ w' = NoCall /\ LeavesPmd /\ UNCHANGED tablevars

-----------------------------------------------------------------------------
(* Steps the threads take by themselves.  Packets and calls come or not,   *)
(* and the spinning lock operations get their turn by luck.                *)
PmdRuns ==
  \/ PmdInit \/ PmdRunning
  \/ \E k \in Kinds : Recv(k)
  \/ TunnelRcv \/ RouteLookup \/ IpForward \/ IpForwardM
  \/ \E h \in 0 .. Cardinality(Encap) - 1 : OlIpRcv(h)
  \/ KvMac \/ KvTunnel \/ KvOuter \/ ReadUnlock \/ MbufFree

MainRuns ==
  \/ MainCreates \/ MainPolls \/ Check
  \/ NhopCreate \/ FibResCreate \/ RtPrefixUpdate \/ RtPrefixDelete
  \/ FibResDelete \/ NhopDelete \/ NeighStatic \/ TunnelMap \/ WriteUnlock

FwdNext ==
  \/ PmdRuns \/ PmdInitFails \/ NetioRx \/ ReadLock
  \/ MainRuns \/ WriteLock \/ Calls

FwdFairness ==
  /\ WF_vars(PmdRuns) /\ WF_vars(MainRuns)
  /\ SF_vars(ReadLock) /\ SF_vars(WriteLock)

FwdSpec == FwdInit /\ [][FwdNext]_vars /\ FwdFairness

-----------------------------------------------------------------------------
(* Type correctness of the tables, the lock and the pool. *)
FwdTypeOK ==
  /\ main \in {"start", "poll", "api", "wlock", "check", "steps", "exited"}
  /\ tables \subseteq ToSet(Boot) /\ mbufs \in 0 .. NbMbuf
  /\ lock \in [readers : {0, 1}, writer : BOOLEAN]
  /\ fib \in 0 .. NrFibRes /\ nhop \in [Encap -> 0 .. 2]
  /\ \A i \in 0 .. NrFibRes : ToSet(res[i].mpath) \subseteq Encap
  /\ \A g \in Gateways : neigh[g].refs \in 0 .. Cardinality(Encap) + 1
  /\ pmd.res \in 0 .. NrFibRes /\ pmd.sel \in 1 .. Cardinality(Encap) + 1

(* netio_rx keeps pointers into the tables over several steps while route  *)
(* calls free results, next hops and neighbours: whatever the packet       *)
(* thread is about to read is still allocated.                             *)
ReadsLive ==
  /\ pmd.pc \in {"result", "hop", "mhop", "kvtunnel", "kvouter"} => res[pmd.res].used
  /\ \/ pmd.pc \in {"hop", "kvtunnel", "kvouter"}
     \/ pmd.pc = "mhop" /\ pmd.sel <= Len(res[pmd.res].mpath)
     => pmd.sel \in DOMAIN res[pmd.res].mpath /\ nhop[Hop] > 0

(* key_value_info is filled in three pieces, each through the result       *)
(* again: when the packet is done they describe one and the same next hop. *)
KvCoherent ==
  pmd.pc \notin {"kvtunnel", "kvouter"} =>
    kv.mac_of = kv.tunnel /\ kv.tunnel = kv.outer

(* A static neighbour is given a new MAC in place while it is in use: no   *)
(* half-written MAC reaches a packet or key_value_info.                    *)
MacWhole == kv.mac # Torn /\ pmd.mac # Torn

(* ntb_dp_init creates the tables in the packet thread while main waits    *)
(* for PTS_RUNNING: no table is used before it exists.                     *)
TablesReady ==
  main \in {"api", "wlock", "check", "steps"} \/ pmd.pc \notin {"none", "boot", "exited"}
    => tables = ToSet(Boot)

(* A received packet is let go of, whatever is found out about it, and its *)
(* mbuf is back in the pool.                                               *)
PacketFreed == pmd.pc = "recv" ~> (pmd.pc = "idle" /\ mbufs = NbMbuf)

(* A table call gets the lock between packets and returns. *)
CallReturns == main = "wlock" ~> main = "api"

(* main leaves its polling loop, unless the initialisation ended the       *)
(* process.                                                                *)
MainGetsReady == <>(main \in {"api", "wlock", "check", "steps", "exited"})
=============================================================================
