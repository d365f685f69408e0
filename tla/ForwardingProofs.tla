-------------------------- MODULE ForwardingProofs --------------------------
(***************************************************************************)
(* Proofs about the packet thread and its lock, for any set of next hops,  *)
(* any size of the result array and of the mbuf pool.                      *)
(***************************************************************************)
EXTENDS Forwarding, ListTheorems

-----------------------------------------------------------------------------
(* A step inside a table call is one of main alone and keeps the lock. *)
LEMMA TableStepsKeep ==
  ASSUME \/ NhopCreate \/ FibResCreate \/ RtPrefixUpdate \/ RtPrefixDelete
         \/ FibResDelete \/ NhopDelete \/ NeighStatic \/ TunnelMap
  PROVE  main = "steps" /\ UNCHANGED <<main, lock, pmd, tables, pmd_thr_stat, kv, mbufs>>
BY DEF NhopCreate, FibResCreate, RtPrefixUpdate, RtPrefixDelete, FibResDelete,
       NhopDelete, NeighStatic, TunnelMap, Doing, Continue, LeavesPmd

-----------------------------------------------------------------------------
(* Start-up.                                                               *)

BootSet == {"ctx", "eal", "mbuf", "vrf", "tunnel", "neigh", "netio"}
Started == {"api", "wlock", "check", "steps"}
NotRunning == {"none", "boot", "exited"}

(* The order of the threads at start-up: TablesReady needs to know what    *)
(* PTS_RUNNING means to the two of them.                                   *)
BootInv ==
  /\ DOMAIN pmd = {"pc", "kind", "res", "sel", "mac", "mac_of"}
  /\ pmd_thr_stat \in {"PTS_INIT", "PTS_RUNNING"}
  /\ tables \subseteq BootSet
  /\ main = "start" <=> pmd.pc = "none"
  /\ pmd_thr_stat = "PTS_RUNNING" <=> pmd.pc \notin NotRunning
  /\ pmd_thr_stat = "PTS_RUNNING" => tables = BootSet
  /\ main \in Started => pmd_thr_stat = "PTS_RUNNING"
  /\ main \in Started \cup {"start", "poll", "exited"}

LEMMA BootIsSet == ToSet(Boot) = BootSet /\ Len(Boot) = 7
<1>1. Len(Boot) = 7 /\ DOMAIN Boot = 1 .. 7
  BY DEF Boot
<1>2. QED
  BY <1>1 DEF ToSet, Boot, BootSet

(* One element more makes a finite set at most one larger. *)
LEMMA OneMore ==
  ASSUME NEW S, NEW x, IsFiniteSet(S)
  PROVE  /\ IsFiniteSet(S \cup {x})
         /\ Cardinality(S) \in Nat /\ Cardinality(S \cup {x}) \in Nat
         /\ Cardinality(S \cup {x}) <= Cardinality(S) + 1
<1>1. IsFiniteSet(S \cup {x})
  BY FS_AddElement
<1>2. Cardinality(S) \in Nat /\ Cardinality(S \cup {x}) \in Nat
  BY <1>1, FS_CardinalityType
<1>3. Cardinality(S \cup {x}) = Cardinality(S) \/ Cardinality(S \cup {x}) = Cardinality(S) + 1
  BY FS_AddElement, Zenon
<1>4. QED
  BY <1>1, <1>2, <1>3

LEMMA BootSetSize == IsFiniteSet(BootSet) /\ Cardinality(BootSet) <= 7
<1> DEFINE S0 == {}
           S1 == S0 \cup {"ctx"}
           S2 == S1 \cup {"eal"}
           S3 == S2 \cup {"mbuf"}
           S4 == S3 \cup {"vrf"}
           S5 == S4 \cup {"tunnel"}
           S6 == S5 \cup {"neigh"}
           S7 == S6 \cup {"netio"}
<1>0. IsFiniteSet(S0) /\ Cardinality(S0) = 0
  BY FS_EmptySet
<1>8. S7 = BootSet
  BY DEF BootSet
<1> HIDE DEF S0
<1>1. IsFiniteSet(S1) /\ Cardinality(S1) \in Nat /\ Cardinality(S1) <= 1
  <2>1. /\ IsFiniteSet(S1) /\ Cardinality(S0) \in Nat /\ Cardinality(S1) \in Nat
        /\ Cardinality(S1) <= Cardinality(S0) + 1
    BY <1>0, OneMore, Zenon
  <2>2. QED
    BY <1>0, <2>1
<1> HIDE DEF S1
<1>2. IsFiniteSet(S2) /\ Cardinality(S2) \in Nat /\ Cardinality(S2) <= 2
  <2>1. /\ IsFiniteSet(S2) /\ Cardinality(S1) \in Nat /\ Cardinality(S2) \in Nat
        /\ Cardinality(S2) <= Cardinality(S1) + 1
    BY <1>1, OneMore, Zenon
  <2>2. QED
    BY <1>1, <2>1
<1> HIDE DEF S2
<1>3. IsFiniteSet(S3) /\ Cardinality(S3) \in Nat /\ Cardinality(S3) <= 3
  <2>1. /\ IsFiniteSet(S3) /\ Cardinality(S2) \in Nat /\ Cardinality(S3) \in Nat
        /\ Cardinality(S3) <= Cardinality(S2) + 1
    BY <1>2, OneMore, Zenon
  <2>2. QED
    BY <1>2, <2>1
<1> HIDE DEF S3
<1>4. IsFiniteSet(S4) /\ Cardinality(S4) \in Nat /\ Cardinality(S4) <= 4
  <2>1. /\ IsFiniteSet(S4) /\ Cardinality(S3) \in Nat /\ Cardinality(S4) \in Nat
        /\ Cardinality(S4) <= Cardinality(S3) + 1
    BY <1>3, OneMore, Zenon
  <2>2. QED
    BY <1>3, <2>1
<1> HIDE DEF S4
<1>5. IsFiniteSet(S5) /\ Cardinality(S5) \in Nat /\ Cardinality(S5) <= 5
  <2>1. /\ IsFiniteSet(S5) /\ Cardinality(S4) \in Nat /\ Cardinality(S5) \in Nat
        /\ Cardinality(S5) <= Cardinality(S4) + 1
    BY <1>4, OneMore, Zenon
  <2>2. QED
    BY <1>4, <2>1
<1> HIDE DEF S5
<1>6. IsFiniteSet(S6) /\ Cardinality(S6) \in Nat /\ Cardinality(S6) <= 6
  <2>1. /\ IsFiniteSet(S6) /\ Cardinality(S5) \in Nat /\ Cardinality(S6) \in Nat
        /\ Cardinality(S6) <= Cardinality(S5) + 1
    BY <1>5, OneMore, Zenon
  <2>2. QED
    BY <1>5, <2>1
<1> HIDE DEF S6
<1>7. IsFiniteSet(S7) /\ Cardinality(S7) \in Nat /\ Cardinality(S7) <= 7
  <2>1. /\ IsFiniteSet(S7) /\ Cardinality(S6) \in Nat /\ Cardinality(S7) \in Nat
        /\ Cardinality(S7) <= Cardinality(S6) + 1
    BY <1>6, OneMore, Zenon
  <2>2. QED
    BY <1>6, <2>1
<1> HIDE DEF S7
<1>9. QED
  BY <1>7, <1>8

(* When the last step of ntb_dp_init is done, every table exists. *)
LEMMA BootComplete ==
  ASSUME tables \subseteq BootSet, pmd.pc = "boot", ~Booting
  PROVE  tables = BootSet
<1>1. /\ IsFiniteSet(tables) /\ Cardinality(tables) <= Cardinality(BootSet)
      /\ Cardinality(BootSet) = Cardinality(tables) => BootSet = tables
  BY BootSetSize, FS_Subset
<1>2. Cardinality(tables) \in Nat /\ Cardinality(BootSet) \in Nat
  BY <1>1, BootSetSize, FS_CardinalityType
<1>3. ~(Cardinality(tables) < 7)
  BY BootIsSet DEF Booting
<1>4. QED
  BY <1>1, <1>2, <1>3, BootSetSize

(* ntb_dp_init goes through the elements of Boot. *)
LEMMA BootStep ==
  ASSUME tables \subseteq BootSet, Booting
  PROVE  Boot[Cardinality(tables) + 1] \in BootSet
<1>1. Cardinality(tables) \in Nat
  BY BootSetSize, FS_Subset, FS_CardinalityType
<1>2. Cardinality(tables) + 1 \in 1 .. 7
  BY <1>1, BootIsSet DEF Booting
<1>3. QED
  BY <1>2 DEF Boot, BootSet

LEMMA BootInit == FwdInit => BootInv
BY DEF FwdInit, BootInv, NoPacket, BootSet, Started, NotRunning
LEMMA BootNext == BootInv /\ [FwdNext]_vars => BootInv'
<1> SUFFICES ASSUME BootInv, [FwdNext]_vars
             PROVE  BootInv'
  OBVIOUS
<1> USE DEF BootInv
<1>1. CASE MainCreates
  BY <1>1 DEF MainCreates, Started, NotRunning
<1>2. CASE MainPolls
  BY <1>2 DEF MainPolls, Started, NotRunning
<1>3. CASE PmdInit
  BY <1>3, BootStep DEF PmdInit, mainvars, NotRunning, Booting
<1>4. CASE PmdInitFails
  BY <1>4 DEF PmdInitFails, Booting, Started, NotRunning
<1>5. CASE PmdRunning
  BY <1>5, BootComplete DEF PmdRunning, mainvars, NotRunning
<1>6. CASE NetioRx \/ ReadLock \/ TunnelRcv \/ KvMac \/ KvTunnel \/ KvOuter
           \/ ReadUnlock
  BY <1>6 DEF NetioRx, ReadLock, TunnelRcv, KvMac, KvTunnel, KvOuter, ReadUnlock,
              PmdStep, LeavesRest, mainvars, NotRunning
<1>7. CASE (\E k \in Kinds : Recv(k)) \/ RouteLookup \/ IpForward
  BY <1>7 DEF Recv, RouteLookup, IpForward, LeavesRest, mainvars, NotRunning
<1>8. ASSUME NEW h \in 0 .. Cardinality(Encap) - 1, OlIpRcv(h)
      PROVE  BootInv'
  BY <1>8 DEF OlIpRcv, LeavesRest, mainvars, NotRunning
<1>9. CASE IpForwardM
  BY <1>9 DEF IpForwardM, LeavesRest, mainvars, NotRunning
<1>10. CASE MbufFree
  BY <1>10 DEF MbufFree, NoPacket, LeavesRest, mainvars, NotRunning
<1>11. CASE Calls
  BY <1>11 DEF Calls, Begin, LeavesPmd, Started
<1>12. CASE WriteLock \/ Check \/ WriteUnlock
  BY <1>12 DEF WriteLock, Check, WriteUnlock, LeavesPmd, Started
<1>13. CASE NhopCreate \/ FibResCreate \/ RtPrefixUpdate \/ RtPrefixDelete
            \/ FibResDelete \/ NhopDelete \/ NeighStatic \/ TunnelMap
  <2>1. UNCHANGED <<main, pmd, tables, pmd_thr_stat>>
    BY <1>13, TableStepsKeep
  <2>2. QED
    BY <2>1
<1>14. CASE UNCHANGED vars
  BY <1>14 DEF vars, mainvars
<1>15. QED
  BY <1>1, <1>2, <1>3, <1>4, <1>5, <1>6, <1>7, <1>8, <1>9, <1>10, <1>11, <1>12,
     <1>13, <1>14 DEF FwdNext, PmdRuns, MainRuns

(* main and the packets use no table before ntb_dp_init has created all of *)
(* them, for every mbuf pool and whatever is received.                     *)
THEOREM TablesReadyCorrect == FwdSpec => []TablesReady
<1>1. BootInv => TablesReady
  BY BootIsSet DEF BootInv, TablesReady, Started, NotRunning
<1>2. QED
  BY <1>1, BootInit, BootNext, PTL DEF FwdSpec

-----------------------------------------------------------------------------
(* The lock and what the packet thread reports.                            *)

Holding == {"tunnel", "route", "result", "hop", "kvmac", "kvtunnel", "kvouter",
            "mhop", "runlock"}
Writing == {"check", "steps"}

(* dp_locker is held by the thread that is inside, and by one side alone. *)
LockInv ==
  /\ lock \in [readers : {0, 1}, writer : BOOLEAN]
  /\ lock.readers = 1 <=> pmd.pc \in Holding
  /\ lock.writer <=> main \in Writing
  /\ ~(pmd.pc \in Holding /\ main \in Writing)

(* The pieces of key_value_info written so far came from the next hop the  *)
(* result still leads to.                                                  *)
KvInv ==
  /\ DOMAIN kv = {"mac_of", "mac", "tunnel", "outer"}
  /\ pmd.pc \in {"kvmac", "kvtunnel", "kvouter"} => pmd.mac_of = Hop
  /\ pmd.pc = "kvtunnel" => kv.mac_of = pmd.mac_of
  /\ pmd.pc = "kvouter" => kv.mac_of = pmd.mac_of /\ kv.tunnel = pmd.mac_of
  /\ KvCoherent

FwdInv == BootInv /\ LockInv /\ KvInv

LEMMA FwdInvInit == FwdInit => FwdInv
<1> SUFFICES ASSUME FwdInit PROVE LockInv /\ KvInv
  BY BootInit DEF FwdInv
<1>1. LockInv
  BY DEF FwdInit, LockInv, NoPacket, Holding, Writing
<1>2. KvInv
  BY DEF FwdInit, KvInv, KvCoherent, NoPacket
<1>3. QED
  BY <1>1, <1>2

LEMMA LockNext == BootInv /\ LockInv /\ [FwdNext]_vars => LockInv'
<1> SUFFICES ASSUME BootInv, LockInv, [FwdNext]_vars
             PROVE  LockInv'
  OBVIOUS
<1>0. DOMAIN pmd = {"pc", "kind", "res", "sel", "mac", "mac_of"}
  BY DEF BootInv
<1> USE DEF LockInv, Holding, Writing
<1>1. CASE MainCreates
  BY <1>1, <1>0 DEF MainCreates, BootInv, Started, NotRunning
<1>2. CASE MainPolls
  BY <1>2 DEF MainPolls
<1>3. CASE PmdInit
  BY <1>3 DEF PmdInit, mainvars
<1>4. CASE PmdInitFails
  BY <1>4, <1>0 DEF PmdInitFails, Booting, BootInv, Started, NotRunning
<1>5. CASE PmdRunning
  BY <1>5, <1>0 DEF PmdRunning, mainvars
<1>6. CASE NetioRx \/ TunnelRcv \/ KvMac \/ KvTunnel \/ KvOuter
  BY <1>6, <1>0 DEF NetioRx, TunnelRcv, KvMac, KvTunnel, KvOuter,
                    PmdStep, LeavesRest, mainvars
<1>7. CASE ReadLock \/ ReadUnlock
  BY <1>7, <1>0 DEF ReadLock, ReadUnlock, PmdStep, LeavesRest, mainvars
<1>8. CASE (\E k \in Kinds : Recv(k)) \/ RouteLookup \/ IpForward
  BY <1>8, <1>0 DEF Recv, RouteLookup, IpForward, LeavesRest, mainvars
<1>9. ASSUME NEW h \in 0 .. Cardinality(Encap) - 1, OlIpRcv(h)
      PROVE  LockInv'
  BY <1>9, <1>0 DEF OlIpRcv, LeavesRest, mainvars
<1>10. CASE IpForwardM \/ MbufFree
  BY <1>10, <1>0 DEF IpForwardM, MbufFree, NoPacket, LeavesRest, mainvars
<1>11. CASE Calls
  BY <1>11 DEF Calls, Begin, LeavesPmd
<1>12. CASE WriteLock \/ WriteUnlock
  <2>1. CASE WriteLock
    <3>1. main' = "check" /\ pmd' = pmd /\ lock.readers = 0
      BY <2>1 DEF WriteLock, LeavesPmd
    <3>2. lock' = [readers |-> 0, writer |-> TRUE]
      BY <2>1, <3>1 DEF WriteLock
    <3>3. QED
      BY <3>1, <3>2
  <2>2. CASE WriteUnlock
    <3>1. main' = "api" /\ pmd' = pmd /\ pmd.pc \notin Holding
      BY <2>2 DEF WriteUnlock, LeavesPmd
    <3>2. lock' = [readers |-> 0, writer |-> FALSE]
      <4>1. lock.readers = 0
        BY <2>2, <3>1
      <4>2. QED
        BY <2>2, <4>1 DEF WriteUnlock
    <3>3. QED
      BY <3>1, <3>2
  <2>3. QED
    BY <1>12, <2>1, <2>2
<1>13. CASE Check
  BY <1>13 DEF Check, LeavesPmd
<1>14. CASE NhopCreate \/ FibResCreate \/ RtPrefixUpdate \/ RtPrefixDelete
            \/ FibResDelete \/ NhopDelete \/ NeighStatic \/ TunnelMap
  <2>1. UNCHANGED <<main, pmd, lock>>
    BY <1>14, TableStepsKeep
  <2>2. QED
    BY <2>1
<1>15. CASE UNCHANGED vars
  BY <1>15 DEF vars, mainvars
<1>16. QED
  BY <1>1, <1>2, <1>3, <1>4, <1>5, <1>6, <1>7, <1>8, <1>9, <1>10, <1>11, <1>12,
     <1>13, <1>14, <1>15 DEF FwdNext, PmdRuns, MainRuns
(* The writer is out while the packet thread is inside, so the result it   *)
(* reads through does not change between the three pieces.                 *)
LEMMA KvNext == FwdInv /\ [FwdNext]_vars => KvInv'
<1> SUFFICES ASSUME FwdInv, [FwdNext]_vars
             PROVE  KvInv'
  OBVIOUS
<1>0. DOMAIN pmd = {"pc", "kind", "res", "sel", "mac", "mac_of"} /\ LockInv /\ KvInv
  BY DEF FwdInv, BootInv
<1> USE DEF KvInv, KvCoherent, Hop
<1>1. CASE MainCreates
  BY <1>1, <1>0 DEF MainCreates, tablevars, FwdInv, BootInv
<1>2. CASE MainPolls
  BY <1>2, <1>0 DEF MainPolls, tablevars
<1>3. CASE PmdInit
  BY <1>3, <1>0 DEF PmdInit, tablevars
<1>4. CASE PmdInitFails
  BY <1>4, <1>0 DEF PmdInitFails, Booting, tablevars
<1>5. CASE PmdRunning
  BY <1>5, <1>0 DEF PmdRunning, tablevars
<1>6. CASE NetioRx \/ TunnelRcv \/ ReadLock \/ ReadUnlock
  BY <1>6, <1>0 DEF NetioRx, TunnelRcv, ReadLock, ReadUnlock, PmdStep, LeavesRest, tablevars
<1>7. CASE KvMac
  BY <1>7, <1>0 DEF KvMac, PmdStep, LeavesRest, tablevars
<1>8. CASE KvTunnel
  BY <1>8, <1>0 DEF KvTunnel, PmdStep, LeavesRest, tablevars
<1>9. CASE KvOuter
  BY <1>9, <1>0 DEF KvOuter, PmdStep, LeavesRest, tablevars
<1>10. CASE (\E k \in Kinds : Recv(k)) \/ RouteLookup
  BY <1>10, <1>0 DEF Recv, RouteLookup, LeavesRest, tablevars
<1>11. CASE IpForward
  BY <1>11, <1>0 DEF IpForward, LeavesRest, tablevars
<1>12. ASSUME NEW h \in 0 .. Cardinality(Encap) - 1, OlIpRcv(h)
       PROVE  KvInv'
  BY <1>12, <1>0 DEF OlIpRcv, LeavesRest, tablevars
<1>13. CASE IpForwardM \/ MbufFree
  BY <1>13, <1>0 DEF IpForwardM, MbufFree, NoPacket, LeavesRest, tablevars
<1>14. CASE Calls \/ WriteLock \/ WriteUnlock \/ Check
  BY <1>14, <1>0 DEF Calls, Begin, WriteLock, WriteUnlock, Check, LeavesPmd, tablevars
<1>15. CASE NhopCreate \/ FibResCreate \/ RtPrefixUpdate \/ RtPrefixDelete
            \/ FibResDelete \/ NhopDelete \/ NeighStatic \/ TunnelMap
  <2>1. main = "steps" /\ UNCHANGED <<pmd, kv>>
    BY <1>15, TableStepsKeep
  <2>2. pmd.pc \notin {"kvmac", "kvtunnel", "kvouter"}
    BY <2>1, <1>0 DEF LockInv, Holding, Writing
  <2>3. QED
    BY <2>1, <2>2, <1>0
<1>16. CASE UNCHANGED vars
  BY <1>16, <1>0 DEF vars, tablevars
<1>17. QED
  BY <1>1, <1>2, <1>3, <1>4, <1>5, <1>6, <1>7, <1>8, <1>9, <1>10, <1>11, <1>12,
     <1>13, <1>14, <1>15, <1>16 DEF FwdNext, PmdRuns, MainRuns

LEMMA FwdInvNext == FwdInv /\ [FwdNext]_vars => FwdInv'
BY BootNext, LockNext, KvNext DEF FwdInv

(* dp_locker excludes: while the packet thread is between its lock and its *)
(* unlock no table call is past its write lock, and the reader count is    *)
(* exact, however the two threads are scheduled.                           *)
THEOREM LockExcludes == FwdSpec => []LockInv
<1>1. FwdInv => LockInv
  BY DEF FwdInv
<1>2. QED
  BY <1>1, FwdInvInit, FwdInvNext, PTL DEF FwdSpec

(* The three pieces ip_forward reports for a packet describe one next hop, *)
(* for any number of next hops, results and concurrent table calls.        *)
THEOREM KvCoherentCorrect == FwdSpec => []KvCoherent
<1>1. FwdInv => KvCoherent
  BY DEF FwdInv, KvInv
<1>2. QED
  BY <1>1, FwdInvInit, FwdInvNext, PTL DEF FwdSpec

-----------------------------------------------------------------------------
(* The tables while a call is under way.                                   *)

(* What may be left of a call. *)
TodoDone == <<>>
TodoMap == <<"map">>
TodoStatic == <<"mac_begin", "mac_end", "valid">>
TodoMacEnd == <<"mac_end", "valid">>
TodoValid == <<"valid">>
TodoInsert == <<"nhop", "result", "update">>
TodoResult == <<"result", "update">>
TodoUpdate == <<"update">>
TodoPrefix == <<"prefix", "drop", "release">>
TodoDropRelease == <<"drop", "release">>
TodoRelease == <<"release">>
TodoDrop == <<"drop">>

LEMMA Todos ==
  /\ TodoDone = <<>>
  /\ TodoMap # <<>> /\ Head(TodoMap) = "map" /\ Tail(TodoMap) = TodoDone
  /\ TodoStatic # <<>> /\ Head(TodoStatic) = "mac_begin" /\ Tail(TodoStatic) = TodoMacEnd
  /\ TodoMacEnd # <<>> /\ Head(TodoMacEnd) = "mac_end" /\ Tail(TodoMacEnd) = TodoValid
  /\ TodoValid # <<>> /\ Head(TodoValid) = "valid" /\ Tail(TodoValid) = TodoDone
  /\ TodoInsert # <<>> /\ Head(TodoInsert) = "nhop" /\ Tail(TodoInsert) = TodoResult
  /\ TodoResult # <<>> /\ Head(TodoResult) = "result" /\ Tail(TodoResult) = TodoUpdate
  /\ TodoUpdate # <<>> /\ Head(TodoUpdate) = "update"
  /\ TodoPrefix # <<>> /\ Head(TodoPrefix) = "prefix" /\ Tail(TodoPrefix) = TodoDropRelease
  /\ TodoDropRelease # <<>> /\ Head(TodoDropRelease) = "drop"
  /\ Tail(TodoDropRelease) = TodoRelease
  /\ TodoRelease # <<>> /\ Head(TodoRelease) = "release" /\ Tail(TodoRelease) = TodoDone
  /\ TodoDrop # <<>> /\ Head(TodoDrop) = "drop" /\ Tail(TodoDrop) = TodoDone
BY DEF TodoDone, TodoMap, TodoStatic, TodoMacEnd, TodoValid, TodoInsert, TodoResult,
       TodoUpdate, TodoPrefix, TodoDropRelease, TodoRelease, TodoDrop

(* The next hops of the route to P. *)
Hops == ToSet(res[fib].mpath)
Refs(S) == [e \in Encap |-> IF e \in S THEN 1 ELSE 0]

(* Every next hop of the route holds one reference, and perhaps the one    *)
(* the call is about, which is not or no longer in the route.              *)
Exact == nhop = Refs(Hops)
Extra == w.e \in Encap /\ w.e \notin Hops /\ nhop = Refs(Hops \cup {w.e})

(* The result that is about to be freed cannot be reached, and the one     *)
(* that is about to be switched to has the next hops S.                    *)
Victim == w.victim \in 1 .. NrFibRes /\ w.victim # fib
NewRes(S) == /\ w.new \in 1 .. NrFibRes /\ w.new # fib /\ res[w.new].used
             /\ S # {} /\ ToSet(res[w.new].mpath) = S

ResultsInv ==
  /\ DOMAIN res = 0 .. NrFibRes
  /\ \A i \in 0 .. NrFibRes : /\ DOMAIN res[i] = {"used", "mpath", "flags"}
                              /\ IsListOf(res[i].mpath, Encap)
                              /\ i # 0 => "REJECT" \notin res[i].flags
  /\ res[0].used /\ res[0].mpath = <<>> /\ "REJECT" \in res[0].flags
  /\ fib \in 0 .. NrFibRes /\ res[fib].used /\ (fib # 0 => Hops # {})

Inserting == w.op = "insert" /\ w.old = fib
Deleting == w.op = "delete" /\ w.old = fib /\ w.e \in Hops /\ Hops # {w.e}

(* One disjunct for everything that can be left of a call. *)
Phase ==
  \/ w.todo \in {TodoDone, TodoMap} /\ Exact
  \/ w.todo \in {TodoStatic, TodoMacEnd, TodoValid} /\ Exact /\ w.op = "static"
  \/ w.todo = TodoInsert /\ Inserting /\ w.e \notin Hops /\ Exact
  \/ w.todo = TodoResult /\ Inserting /\ Extra
  \/ w.todo = TodoUpdate /\ Inserting /\ Extra /\ NewRes(Hops \cup {w.e})
  \/ w.todo = TodoResult /\ Deleting /\ Exact
  \/ w.todo = TodoUpdate /\ Deleting /\ Exact /\ NewRes(Hops \ {w.e})
  \/ w.todo = TodoPrefix /\ Exact /\ Hops = {w.e} /\ w.victim = fib /\ fib # 0
  \/ w.todo = TodoDropRelease /\ Extra /\ Victim
  \/ w.todo = TodoRelease /\ Extra
  \/ w.todo = TodoDrop /\ Exact /\ Victim

CallInv ==
  /\ DOMAIN w = {"op", "e", "t", "mac", "victim", "old", "new", "todo"}
  /\ w.op \in {"insert", "delete", "static"} => w.e \in Encap
  /\ w.op = "static" => Gateway[w.e] \in Gateways /\ w.mac \in Mac
  /\ main \in {"wlock", "check", "steps"} => w.op \in {"insert", "delete", "static", "map"}

TablesInv ==
  /\ ResultsInv /\ CallInv
  /\ main = "steps" => Phase
  /\ main # "steps" => Exact

LEMMA TablesInit == FwdInit => TablesInv
<1> SUFFICES ASSUME FwdInit PROVE TablesInv
  OBVIOUS
<1>1. /\ res = [i \in 0 .. NrFibRes |->
                  [used |-> i = Blackhole, mpath |-> <<>>,
                   flags |-> IF i = Blackhole THEN {"REJECT"} ELSE {}]]
      /\ fib = 0 /\ nhop = [e \in Encap |-> 0] /\ main = "start" /\ w = NoCall
  BY DEF FwdInit, Blackhole
<1>2. 0 \in 0 .. NrFibRes
  BY TablesAssumption
<1>3. \A i \in 0 .. NrFibRes : /\ DOMAIN res[i] = {"used", "mpath", "flags"}
                               /\ res[i].mpath = <<>>
                               /\ i # 0 => res[i].flags = {}
  BY <1>1 DEF Blackhole
<1>4. res[0].used /\ res[0].flags = {"REJECT"}
  BY <1>1, <1>2 DEF Blackhole
<1>5. Hops = {}
  BY <1>1, <1>2, <1>3, EmptyIsList DEF Hops
<1>6. ResultsInv
  BY <1>1, <1>2, <1>3, <1>4, EmptyIsList DEF ResultsInv
<1>7. Exact
  BY <1>1, <1>5 DEF Exact, Refs
<1>8. CallInv
  BY <1>1 DEF CallInv, NoCall
<1>9. QED
  BY <1>1, <1>6, <1>7, <1>8 DEF TablesInv

(* Steps of the packet thread, of start-up and of the lock. *)
LEMMA TablesFrame ==
  ASSUME TablesInv, UNCHANGED <<w, res, fib, nhop>>,
         \/ main' = main
         \/ main # "steps" /\ main' \notin {"wlock", "check", "steps"}
         \/ main = "wlock" /\ main' = "check"
  PROVE  TablesInv'
<1>1. ResultsInv' /\ CallInv'
  BY DEF TablesInv, ResultsInv, CallInv, Hops
<1>2. Exact' = Exact
  BY DEF Exact, Hops, Refs
<1>3. Phase' = Phase
  BY DEF Phase, Exact, Extra, Hops, Refs, Inserting, Deleting, Victim, NewRes
<1>4. QED
  BY <1>1, <1>2, <1>3 DEF TablesInv

IsCall(c) ==
  /\ DOMAIN c = {"op", "e", "t", "mac", "victim", "old", "new", "todo"}
  /\ \/ c.op \in {"insert", "delete"} /\ c.e \in Encap
     \/ c.op = "static" /\ c.e \in Encap /\ Gateway[c.e] # 0 /\ c.mac \in Mac
     \/ c.op = "map"

LEMMA CallsBegin == ASSUME Calls PROVE \E c : IsCall(c) /\ Begin(c)
<1>1. DOMAIN NoCall = {"op", "e", "t", "mac", "victim", "old", "new", "todo"}
  BY DEF NoCall
<1>2. ASSUME NEW o \in {"insert", "delete"}, NEW p \in Paths
      PROVE  IsCall([NoCall EXCEPT !.op = o, !.e = p[1], !.t = p[2]])
  BY <1>1, PathsAssumption DEF IsCall
<1>3. ASSUME NEW e \in Encap, Gateway[e] # 0, NEW m \in Mac
      PROVE  IsCall([NoCall EXCEPT !.op = "static", !.e = e, !.mac = m])
  BY <1>1, <1>3 DEF IsCall
<1>4. IsCall([NoCall EXCEPT !.op = "map"])
  BY <1>1 DEF IsCall
<1>5. CASE \E o \in {"insert", "delete"}, p \in Paths :
             Begin([NoCall EXCEPT !.op = o, !.e = p[1], !.t = p[2]])
  BY <1>2, <1>5, Zenon
<1>6. CASE \E e \in {x \in Encap : Gateway[x] # 0}, m \in Mac :
             Begin([NoCall EXCEPT !.op = "static", !.e = e, !.mac = m])
  BY <1>3, <1>6, Zenon
<1>7. CASE Begin([NoCall EXCEPT !.op = "map"])
  BY <1>4, <1>7, Zenon
<1>8. QED
  BY <1>5, <1>6, <1>7, Zenon DEF Calls

LEMMA TablesBegin == ASSUME TablesInv, Calls PROVE TablesInv'
<1>1. PICK c : IsCall(c) /\ Begin(c)
  BY CallsBegin
<1>2. main = "api" /\ main' = "wlock" /\ w' = c /\ UNCHANGED <<res, fib, nhop>>
  BY <1>1 DEF Begin, tablevars
<1>3. CallInv'
  BY <1>1, <1>2 DEF IsCall, CallInv, Gateways
<1>4. QED
  BY <1>2, <1>3 DEF TablesInv, ResultsInv, Exact, Hops, Refs

(* The sanity checks find out what is left to do. *)
LEMMA TablesCheck == ASSUME TablesInv, Check PROVE TablesInv'
<1>1. /\ main = "check" /\ main' = "steps" /\ UNCHANGED <<res, fib, nhop>>
      /\ w' = [w EXCEPT !.todo = Plan, !.old = fib, !.victim = fib]
  BY DEF Check, tablevars
<1>2. /\ w'.todo = Plan /\ w'.old = fib /\ w'.victim = fib /\ DOMAIN w' = DOMAIN w
      /\ w'.op = w.op /\ w'.e = w.e /\ w'.mac = w.mac
  BY <1>1 DEF TablesInv, CallInv
<1>3. ResultsInv' /\ CallInv'
  BY <1>1, <1>2 DEF TablesInv, ResultsInv, CallInv, Hops
<1>4. Exact' /\ Hops' = Hops
  BY <1>1 DEF TablesInv, Exact, Hops, Refs
<1>5. IsListOf(res[fib].mpath, Encap) /\ fib \in 0 .. NrFibRes
  BY DEF TablesInv, ResultsInv
<1>6. Len(res[fib].mpath) = 1 <=> \E e : Hops = {e}
  <2>1. Cardinality(Hops) = Len(res[fib].mpath) /\ IsFiniteSet(Hops)
    BY <1>5 DEF IsListOf, Hops
  <2>2. QED
    BY <2>1, FS_Singleton
<1>7. Phase'
  <2>1. CASE w.op = "map"
    BY <2>1, <1>2, <1>4 DEF Plan, Phase, TodoMap
  <2>2. CASE w.op = "static"
    BY <2>2, <1>2, <1>4 DEF Plan, Phase, TodoStatic
  <2>3. CASE w.op = "insert"
    <3>1. Plan = TodoDone \/ (Plan = TodoInsert /\ (fib # Blackhole => w.e \notin Hops))
      BY <2>3 DEF Plan, TodoDone, TodoInsert, Hops
    <3>2. fib = Blackhole => Hops = {}
      BY EmptyIsList DEF TablesInv, ResultsInv, Hops, Blackhole
    <3>3. QED
      BY <2>3, <3>1, <3>2, <1>1, <1>2, <1>4 DEF Phase, Inserting
  <2>4. CASE w.op = "delete"
    <3>1. \/ Plan = TodoDone
          \/ Plan = TodoPrefix /\ fib # 0 /\ w.e \in Hops /\ Len(res[fib].mpath) = 1
          \/ Plan = TodoResult /\ w.e \in Hops /\ Len(res[fib].mpath) # 1
      BY <2>4 DEF Plan, TodoDone, TodoPrefix, TodoResult, Hops, Blackhole
    <3>2. CASE Plan = TodoPrefix /\ fib # 0 /\ w.e \in Hops /\ Len(res[fib].mpath) = 1
      <4>1. Hops = {w.e}
        BY <3>2, <1>6
      <4>2. QED
        BY <3>2, <4>1, <1>1, <1>2, <1>4 DEF Phase
    <3>3. CASE Plan = TodoResult /\ w.e \in Hops /\ Len(res[fib].mpath) # 1
      <4>1. Hops # {w.e}
        BY <3>3, <1>6
      <4>2. QED
        BY <2>4, <3>3, <4>1, <1>1, <1>2, <1>4 DEF Phase, Deleting
    <3>4. QED
      BY <3>1, <3>2, <3>3, <1>2, <1>4 DEF Phase
  <2>5. QED
    BY <2>1, <2>2, <2>3, <2>4, <1>1 DEF TablesInv, CallInv
<1>8. QED
  BY <1>1, <1>3, <1>7 DEF TablesInv

(* The steps of a call, by what is left of it. *)
LEMMA TablesNhopCreate == ASSUME TablesInv, NhopCreate PROVE TablesInv'
<1>1. w.todo = TodoInsert /\ Inserting /\ w.e \notin Hops /\ Exact /\ w.e \in Encap
  BY Todos DEF NhopCreate, Doing, TablesInv, Phase, CallInv, Inserting
<1>2. UNCHANGED <<fib, res, main>> /\ main = "steps"
  BY DEF NhopCreate, Continue, Doing
<1>3. Hops' = Hops /\ ResultsInv'
  BY <1>2 DEF TablesInv, ResultsInv, Hops
<1>4. CASE nhop' = [nhop EXCEPT ![w.e] = @ + 1] /\ Continue(Tail(w.todo))
  <2>1. /\ w'.todo = TodoResult /\ DOMAIN w' = DOMAIN w /\ w'.op = w.op /\ w'.e = w.e
        /\ w'.mac = w.mac /\ w'.old = w.old
    BY <1>1, <1>4, Todos DEF Continue, TablesInv, CallInv
  <2>2. CallInv'
    BY <1>2, <2>1 DEF TablesInv, CallInv
  <2>3. nhop' = Refs(Hops \cup {w.e})
    BY <1>1, <1>4 DEF Exact, Refs
  <2>4. Extra' /\ Inserting'
    BY <1>1, <1>2, <1>3, <2>1, <2>3 DEF Extra, Inserting, Refs
  <2>5. QED
    BY <1>2, <1>3, <2>1, <2>2, <2>4 DEF TablesInv, Phase
<1>5. CASE Continue(<<>>) /\ UNCHANGED nhop
  <2>1. /\ w'.todo = TodoDone /\ DOMAIN w' = DOMAIN w /\ w'.op = w.op /\ w'.e = w.e
        /\ w'.mac = w.mac
    BY <1>5, Todos DEF Continue, TablesInv, CallInv
  <2>2. CallInv' /\ Exact'
    BY <1>1, <1>2, <1>3, <1>5, <2>1 DEF TablesInv, CallInv, Exact, Refs
  <2>3. QED
    BY <1>2, <1>3, <2>1, <2>2 DEF TablesInv, Phase
<1>6. QED
  BY <1>4, <1>5 DEF NhopCreate

(* The new result lies in a free index and has one next hop more or less. *)
LEMMA TablesResCreate == ASSUME TablesInv, FibResCreate PROVE TablesInv'
<1>1. /\ w.todo = TodoResult /\ w.old = fib /\ w.e \in Encap
      /\ (Inserting /\ Extra) \/ (Deleting /\ Exact)
  BY Todos DEF FibResCreate, Doing, TablesInv, Phase, CallInv, Inserting, Deleting
<1>2. UNCHANGED <<main, fib, nhop>> /\ main = "steps"
  BY DEF FibResCreate, Doing
<1> DEFINE paths == IF w.op = "delete" THEN RemoveFirst(res[w.old].mpath, w.e)
                    ELSE Append(res[w.old].mpath, w.e)
           fl == IF w.t = "RT_MROUTE" THEN {"MROUTE"} ELSE {}
           m == Min(FreeRes)
<1>3. IsListOf(res[fib].mpath, Encap)
  BY DEF TablesInv, ResultsInv
<1>4. /\ IsListOf(paths, Encap)
      /\ w.op = "insert" => ToSet(paths) = Hops \cup {w.e}
      /\ w.op = "delete" => ToSet(paths) = Hops \ {w.e}
  <2>1. CASE Inserting /\ Extra
    <3>1. paths = Append(res[fib].mpath, w.e)
      BY <2>1 DEF Inserting
    <3>2. IsListOf(paths, Encap) /\ ToSet(paths) = Hops \cup {w.e}
      <4>1. w.e \in Encap /\ w.e \notin ToSet(res[fib].mpath)
        BY <2>1 DEF Extra, Hops
      <4> HIDE DEF paths
      <4>2. QED
        BY <3>1, <4>1, <1>3, ListAppend DEF Hops
    <3>3. QED
      BY <2>1, <3>2 DEF Inserting
  <2>2. CASE Deleting /\ Exact
    <3>1. paths = RemoveFirst(res[fib].mpath, w.e)
      BY <2>2 DEF Deleting
    <3>2. IsListOf(paths, Encap) /\ ToSet(paths) = Hops \ {w.e}
      BY <2>2, <3>1, <1>3, ListRemove DEF Deleting, Hops
    <3>3. QED
      BY <2>2, <3>2 DEF Deleting
  <2>3. QED
    BY <1>1, <2>1, <2>2
<1> HIDE DEF paths, fl
<1>5. CASE /\ FreeRes # {}
           /\ res' = [res EXCEPT ![m] = [used |-> TRUE, mpath |-> paths, flags |-> fl]]
           /\ w' = [w EXCEPT !.new = m, !.todo = Tail(@)]
  <2>1. m \in 1 .. NrFibRes /\ m # fib
    <3>1. FreeRes \in SUBSET Nat
      BY TablesAssumption DEF FreeRes
    <3>2. m \in FreeRes
      BY <1>5, <3>1, MinIn
    <3>3. m \in 0 .. NrFibRes /\ ~res[m].used
      BY <3>2 DEF FreeRes
    <3>4. QED
      BY <3>3, TablesAssumption DEF TablesInv, ResultsInv
  <2> HIDE DEF m
  <2>2. /\ DOMAIN res' = DOMAIN res /\ \A i \in DOMAIN res : i # m => res'[i] = res[i]
        /\ res'[m] = [used |-> TRUE, mpath |-> paths, flags |-> fl]
    BY <1>5, <2>1, TablesAssumption DEF TablesInv, ResultsInv
  <2>3. /\ DOMAIN res'[m] = {"used", "mpath", "flags"}
        /\ res'[m].used /\ res'[m].mpath = paths /\ res'[m].flags = fl
    BY <2>2
  <2>4. "REJECT" \notin fl
    BY DEF fl
  <2>5. Hops' = Hops
    BY <1>2, <2>1, <2>2 DEF TablesInv, ResultsInv, Hops
  <2>6. ResultsInv'
    <3>1. ASSUME NEW i \in 0 .. NrFibRes
          PROVE  /\ DOMAIN res'[i] = {"used", "mpath", "flags"}
                 /\ IsListOf(res'[i].mpath, Encap)
                 /\ i # 0 => "REJECT" \notin res'[i].flags
      <4>1. CASE i = m
        BY <4>1, <1>4, <2>3, <2>4
      <4>2. CASE i # m
        BY <4>2, <2>2 DEF TablesInv, ResultsInv
      <4>3. QED
        BY <4>1, <4>2
    <3>2. res'[0] = res[0] /\ res'[fib] = res[fib]
      BY <2>1, <2>2, TablesAssumption DEF TablesInv, ResultsInv
    <3>3. QED
      BY <3>1, <3>2, <1>2, <2>2, <2>5 DEF TablesInv, ResultsInv
  <2>7. /\ w'.todo = TodoUpdate /\ w'.new = m /\ DOMAIN w' = DOMAIN w
        /\ w'.op = w.op /\ w'.e = w.e /\ w'.mac = w.mac /\ w'.old = w.old
    BY <1>1, <1>5, Todos DEF TablesInv, CallInv
  <2>8. CallInv'
    BY <1>2, <2>7 DEF TablesInv, CallInv
  <2>9. CASE Inserting /\ Extra
    <3>1. Inserting' /\ Extra'
      BY <2>9, <1>2, <2>5, <2>7 DEF Inserting, Extra, Refs
    <3>2. NewRes(Hops \cup {w.e})'
      BY <2>9, <1>2, <1>4, <2>1, <2>3, <2>5, <2>7 DEF NewRes, Inserting
    <3>3. QED
      BY <1>2, <2>6, <2>7, <2>8, <3>1, <3>2 DEF TablesInv, Phase
  <2>10. CASE Deleting /\ Exact
    <3>1. Deleting' /\ Exact'
      BY <2>10, <1>2, <2>5, <2>7 DEF Deleting, Exact, Refs
    <3>2. Hops \ {w.e} # {}
      BY <2>10 DEF Deleting
    <3>3. NewRes(Hops \ {w.e})'
      BY <2>10, <1>2, <1>4, <2>1, <2>3, <2>5, <2>7, <3>2 DEF NewRes, Deleting
    <3>4. QED
      BY <1>2, <2>6, <2>7, <2>8, <3>1, <3>3 DEF TablesInv, Phase
  <2>11. QED
    BY <1>1, <2>9, <2>10
<1>6. CASE /\ UNCHANGED res
           /\ w' = [w EXCEPT !.todo = IF w.op = "insert" THEN <<"release">> ELSE <<>>]
  <2>1. /\ w'.todo = IF w.op = "insert" THEN TodoRelease ELSE TodoDone
        /\ DOMAIN w' = DOMAIN w /\ w'.op = w.op /\ w'.e = w.e /\ w'.mac = w.mac
    BY <1>6 DEF TablesInv, CallInv, TodoRelease, TodoDone
  <2>2. Hops' = Hops /\ ResultsInv' /\ CallInv'
    BY <1>2, <1>6, <2>1 DEF TablesInv, ResultsInv, CallInv, Hops
  <2>3. (Inserting /\ Extra) \/ (Deleting /\ Exact)
    BY <1>1
  <2>4. (w.op = "insert" /\ Extra') \/ (w.op = "delete" /\ Exact')
    BY <2>3, <1>2, <2>1, <2>2 DEF Extra, Exact, Inserting, Deleting, Refs
  <2>5. QED
    BY <1>2, <2>1, <2>2, <2>4 DEF TablesInv, Phase
<1>7. QED
  BY <1>5, <1>6 DEF FibResCreate, paths, fl

LEMMA TablesUpdate == ASSUME TablesInv, RtPrefixUpdate PROVE TablesInv'
<1>1. /\ w.todo = TodoUpdate /\ w.old = fib /\ w.e \in Encap
      /\ \/ Inserting /\ Extra /\ NewRes(Hops \cup {w.e})
         \/ Deleting /\ Exact /\ NewRes(Hops \ {w.e})
  BY Todos DEF RtPrefixUpdate, Doing, TablesInv, Phase, CallInv, Inserting, Deleting
<1>2. UNCHANGED <<main, res, nhop>> /\ main = "steps"
  BY DEF RtPrefixUpdate, Doing
<1>3. w.new \in 1 .. NrFibRes /\ w.new # fib /\ res[w.new].used
  BY <1>1 DEF NewRes
<1>4. w.op \in {"insert", "delete"}
  BY <1>1 DEF Inserting, Deleting
<1>5. CASE /\ fib' = w.new
           /\ w' = [w EXCEPT !.victim = w.old,
                      !.todo = CASE w.op = "delete" -> <<"drop", "release">>
                                 [] w.op = "insert" /\ w.old # Blackhole -> <<"drop">>
                                 [] OTHER -> <<>>]
  <2>1. /\ w'.victim = fib /\ DOMAIN w' = DOMAIN w /\ w'.op = w.op /\ w'.e = w.e
        /\ w'.mac = w.mac
        /\ w.op = "delete" => w'.todo = TodoDropRelease
        /\ w.op = "insert" => w'.todo = IF fib # 0 THEN TodoDrop ELSE TodoDone
    BY <1>1, <1>5 DEF TablesInv, CallInv, TodoDropRelease, TodoDrop, TodoDone, Blackhole
  <2>2. Hops' = ToSet(res[w.new].mpath) /\ Hops' # {}
    BY <1>1, <1>2, <1>5 DEF Hops, NewRes
  <2>3. ResultsInv' /\ CallInv'
    <3>1. ResultsInv'
      BY <1>2, <1>3, <1>5, <2>2, TablesAssumption DEF TablesInv, ResultsInv
    <3>2. CallInv'
      BY <1>2, <2>1 DEF TablesInv, CallInv
    <3>3. QED
      BY <3>1, <3>2
  <2>4. fib # 0 => Victim'
    BY <1>3, <1>5, <2>1, TablesAssumption DEF Victim, TablesInv, ResultsInv
  <2>5. CASE Inserting /\ Extra /\ NewRes(Hops \cup {w.e})
    <3>1. Hops' = Hops \cup {w.e}
      BY <2>5, <2>2 DEF NewRes
    <3>2. Exact'
      BY <2>5, <3>1, <1>2 DEF Extra, Exact, Refs
    <3>3. Phase'
      BY <2>5, <2>1, <2>4, <3>2 DEF Phase, Inserting
    <3>4. QED
      BY <1>2, <2>3, <3>3 DEF TablesInv
  <2>6. CASE Deleting /\ Exact /\ NewRes(Hops \ {w.e})
    <3>1. Hops' = Hops \ {w.e}
      BY <2>6, <2>2 DEF NewRes
    <3>2. fib # 0
      BY <2>6, EmptyIsList DEF Deleting, TablesInv, ResultsInv, Hops
    <3>3. Hops' \cup {w.e} = Hops
      BY <2>6, <3>1 DEF Deleting
    <3>4. Extra'
      BY <2>6, <3>1, <3>3, <1>1, <1>2, <2>1 DEF Extra, Exact, Refs
    <3>5. Phase'
      BY <2>6, <2>1, <2>4, <3>2, <3>4 DEF Phase, Deleting
    <3>6. QED
      BY <1>2, <2>3, <3>5 DEF TablesInv
  <2>7. QED
    BY <1>1, <2>5, <2>6
<1>6. CASE /\ UNCHANGED fib
           /\ w' = [w EXCEPT !.victim = w.new,
                      !.todo = IF w.op = "insert" THEN <<"drop", "release">> ELSE <<"drop">>]
  <2>1. /\ w'.victim = w.new /\ DOMAIN w' = DOMAIN w /\ w'.op = w.op /\ w'.e = w.e
        /\ w'.mac = w.mac
        /\ w'.todo = IF w.op = "insert" THEN TodoDropRelease ELSE TodoDrop
    BY <1>6 DEF TablesInv, CallInv, TodoDropRelease, TodoDrop
  <2>2. Hops' = Hops /\ ResultsInv' /\ CallInv'
    BY <1>2, <1>6, <2>1 DEF TablesInv, ResultsInv, CallInv, Hops
  <2>3. Victim'
    BY <1>3, <1>6, <2>1 DEF Victim
  <2>4. (w.op = "insert" /\ Extra') \/ (w.op = "delete" /\ Exact')
    BY <1>1, <1>2, <2>1, <2>2 DEF Extra, Exact, Inserting, Deleting, Refs
  <2>5. QED
    BY <1>2, <2>1, <2>2, <2>3, <2>4 DEF TablesInv, Phase
<1>7. QED
  BY <1>5, <1>6 DEF RtPrefixUpdate

LEMMA TablesPrefixDelete == ASSUME TablesInv, RtPrefixDelete PROVE TablesInv'
<1>1. /\ w.todo = TodoPrefix /\ Exact /\ Hops = {w.e} /\ w.victim = fib /\ fib # 0
  BY Todos DEF RtPrefixDelete, Doing, TablesInv, Phase
<1>2. UNCHANGED <<main, res, nhop>> /\ main = "steps" /\ fib' = 0
  BY DEF RtPrefixDelete, Doing, Continue, Blackhole
<1>3. /\ w'.todo = TodoDropRelease /\ DOMAIN w' = DOMAIN w /\ w'.op = w.op /\ w'.e = w.e
      /\ w'.mac = w.mac /\ w'.victim = w.victim
  BY <1>1, Todos DEF RtPrefixDelete, Continue, TablesInv, CallInv
<1>4. Hops' = {}
  BY <1>2, EmptyIsList DEF TablesInv, ResultsInv, Hops
<1>5. w.e \in Encap
  BY <1>1, ToSetIs DEF TablesInv, ResultsInv, Hops, IsListOf
<1>6. Extra' /\ Victim'
  <2>1. Hops' \cup {w.e} = Hops
    BY <1>1, <1>4
  <2>2. Extra'
    BY <1>1, <1>2, <1>3, <1>4, <1>5, <2>1 DEF Extra, Exact, Refs
  <2>3. Victim'
    BY <1>1, <1>2, <1>3, TablesAssumption DEF Victim, TablesInv, ResultsInv
  <2>4. QED
    BY <2>2, <2>3
<1>7. ResultsInv' /\ CallInv'
  <2>1. ResultsInv'
    BY <1>2, TablesAssumption DEF TablesInv, ResultsInv
  <2>2. QED
    BY <2>1, <1>2, <1>3 DEF TablesInv, CallInv
<1>8. QED
  BY <1>2, <1>3, <1>6, <1>7 DEF TablesInv, Phase

LEMMA TablesResDelete == ASSUME TablesInv, FibResDelete PROVE TablesInv'
<1>1. /\ Victim /\ \/ w.todo = TodoDropRelease /\ Extra
                   \/ w.todo = TodoDrop /\ Exact
  BY Todos DEF FibResDelete, Doing, TablesInv, Phase
<1>2. UNCHANGED <<main, fib, nhop>> /\ main = "steps"
  BY DEF FibResDelete, Doing, Continue
<1>3. /\ DOMAIN w' = DOMAIN w /\ w'.op = w.op /\ w'.e = w.e /\ w'.mac = w.mac
      /\ w'.todo = Tail(w.todo)
  BY DEF FibResDelete, Continue, TablesInv, CallInv
<1>4. w.victim \in DOMAIN res
  BY <1>1, TablesAssumption DEF Victim, TablesInv, ResultsInv
<1>5. /\ DOMAIN res' = DOMAIN res
      /\ \A i \in 0 .. NrFibRes : /\ DOMAIN res'[i] = DOMAIN res[i]
                                  /\ res'[i].mpath = res[i].mpath
                                  /\ res'[i].flags = res[i].flags
                                  /\ i # w.victim => res'[i] = res[i]
  BY <1>4 DEF FibResDelete, TablesInv, ResultsInv
<1>6. Hops' = Hops
  BY <1>2, <1>5 DEF TablesInv, ResultsInv, Hops
<1>7. res'[0] = res[0] /\ res'[fib] = res[fib]
  BY <1>1, <1>5, TablesAssumption DEF Victim, TablesInv, ResultsInv
<1>8. ResultsInv'
  BY <1>2, <1>5, <1>6, <1>7 DEF TablesInv, ResultsInv
<1>9. CallInv'
  BY <1>2, <1>3 DEF TablesInv, CallInv
<1>10. (w'.todo = TodoRelease /\ Extra') \/ (w'.todo = TodoDone /\ Exact')
  BY <1>1, <1>2, <1>3, <1>6, Todos DEF Extra, Exact, Refs
<1>11. QED
  BY <1>2, <1>8, <1>9, <1>10 DEF TablesInv, Phase

LEMMA TablesNhopDelete == ASSUME TablesInv, NhopDelete PROVE TablesInv'
<1>1. w.todo = TodoRelease /\ Extra
  BY Todos DEF NhopDelete, Doing, TablesInv, Phase
<1>2. UNCHANGED <<main, fib, res>> /\ main = "steps" /\ nhop' = [nhop EXCEPT ![w.e] = @ - 1]
  BY DEF NhopDelete, Doing, Continue
<1>3. /\ w'.todo = TodoDone /\ DOMAIN w' = DOMAIN w /\ w'.op = w.op /\ w'.e = w.e
      /\ w'.mac = w.mac
  BY <1>1, Todos DEF NhopDelete, Continue, TablesInv, CallInv
<1>4. Hops' = Hops /\ ResultsInv' /\ CallInv'
  BY <1>2, <1>3 DEF TablesInv, ResultsInv, CallInv, Hops
<1>5. Exact'
  BY <1>1, <1>2, <1>4 DEF Extra, Exact, Refs
<1>6. QED
  BY <1>2, <1>3, <1>4, <1>5 DEF TablesInv, Phase

(* The calls that leave routes and next hops alone. *)
LEMMA TablesOther ==
  ASSUME TablesInv, NeighStatic \/ TunnelMap
  PROVE  TablesInv'
<1>1. Exact /\ (w.todo = TodoMap \/ (w.todo \in {TodoStatic, TodoMacEnd, TodoValid} /\ w.op = "static"))
  BY Todos DEF NeighStatic, TunnelMap, Doing, TablesInv, Phase
<1>2. UNCHANGED <<main, fib, res, nhop>> /\ main = "steps"
  BY DEF NeighStatic, TunnelMap, Doing, Continue
<1>3. /\ w'.todo = Tail(w.todo) /\ DOMAIN w' = DOMAIN w /\ w'.op = w.op /\ w'.e = w.e
      /\ w'.mac = w.mac
  BY DEF NeighStatic, TunnelMap, Continue, TablesInv, CallInv
<1>4. ResultsInv' /\ CallInv' /\ Exact'
  BY <1>1, <1>2, <1>3 DEF TablesInv, ResultsInv, CallInv, Exact, Refs, Hops
<1>5. w'.todo = TodoDone \/ (w'.todo \in {TodoMacEnd, TodoValid} /\ w'.op = "static")
  BY <1>1, <1>3, Todos
<1>6. QED
  BY <1>2, <1>4, <1>5 DEF TablesInv, Phase

LEMMA TablesUnlock == ASSUME TablesInv, WriteUnlock PROVE TablesInv'
<1>1. Exact
  BY Todos DEF WriteUnlock, TablesInv, Phase
<1>2. UNCHANGED <<fib, res, nhop>> /\ main' = "api" /\ w' = NoCall
  BY DEF WriteUnlock, tablevars
<1>3. CallInv'
  BY <1>2 DEF CallInv, NoCall
<1>4. ResultsInv' /\ Exact'
  BY <1>1, <1>2 DEF TablesInv, ResultsInv, Exact, Refs, Hops
<1>5. QED
  BY <1>2, <1>3, <1>4 DEF TablesInv

LEMMA TablesNext == BootInv /\ TablesInv /\ [FwdNext]_vars => TablesInv'
<1> SUFFICES ASSUME BootInv, TablesInv, [FwdNext]_vars PROVE TablesInv'
  OBVIOUS
<1>1. CASE MainCreates \/ MainPolls \/ PmdInitFails \/ WriteLock
  <2>1. UNCHANGED <<w, res, fib, nhop>>
    BY <1>1 DEF MainCreates, MainPolls, PmdInitFails, WriteLock, tablevars
  <2>2. \/ main # "steps" /\ main' \notin {"wlock", "check", "steps"}
        \/ main = "wlock" /\ main' = "check"
    BY <1>1 DEF MainCreates, MainPolls, PmdInitFails, WriteLock, Booting,
                BootInv, Started, NotRunning
  <2>3. QED
    BY <2>1, <2>2, TablesFrame
<1>2. CASE PmdRuns \/ NetioRx \/ ReadLock \/ UNCHANGED vars
  <2>1. UNCHANGED <<mainvars, tablevars>>
    BY <1>2 DEF PmdRuns, PmdInit, PmdRunning, Recv, TunnelRcv, RouteLookup, IpForward,
                IpForwardM, OlIpRcv, KvMac, KvTunnel, KvOuter, ReadUnlock, MbufFree,
                NetioRx, ReadLock, LeavesRest, vars
  <2>2. QED
    BY <2>1, TablesFrame DEF mainvars, tablevars
<1>3. QED
  BY <1>1, <1>2, TablesBegin, TablesCheck, TablesNhopCreate, TablesResCreate, TablesUpdate,
     TablesPrefixDelete, TablesResDelete, TablesNhopDelete, TablesOther, TablesUnlock
     DEF FwdNext, MainRuns

-----------------------------------------------------------------------------
(* What the packet thread reads.                                           *)

(* The packet thread is at a result of the route or at the blackhole and,  *)
(* in its list of next hops, at one it has.                                *)
ReaderInv ==
  /\ pmd.res \in 0 .. NrFibRes /\ pmd.sel \in 1 .. Cardinality(Encap) + 1
  /\ pmd.pc \in {"result", "hop", "kvmac", "kvtunnel", "kvouter", "mhop"} => pmd.res \in {0, fib}
  /\ pmd.pc \in {"hop", "kvmac", "kvtunnel", "kvouter"} =>
       pmd.sel \in 1 .. Len(res[pmd.res].mpath)
  /\ pmd.pc = "mhop" => pmd.sel \in 1 .. Len(res[pmd.res].mpath) + 1

(* A list of next hops is no longer than there are next hops. *)
LEMMA MpathLen ==
  ASSUME ResultsInv, NEW i \in 0 .. NrFibRes
  PROVE  /\ Len(res[i].mpath) \in Nat /\ Len(res[i].mpath) <= Cardinality(Encap)
         /\ Cardinality(Encap) \in Nat
         /\ i # 0 /\ i = fib => Len(res[i].mpath) > 0
         /\ Len(res[i].mpath) > 0 => res[i].mpath # <<>>
         /\ "REJECT" \notin res[i].flags => i # 0
<1> DEFINE s == res[i].mpath
<1>1. s \in Seq(Encap) /\ IsFiniteSet(ToSet(s)) /\ Cardinality(ToSet(s)) = Len(s)
  BY DEF ResultsInv, IsListOf
<1>2. Len(s) \in Nat /\ ToSet(s) \subseteq Encap
  BY <1>1, ToSetIs, LenProperties
<1>3. Len(s) <= Cardinality(Encap)
  BY <1>1, <1>2, FS_Subset, TablesAssumption
<1>4. Cardinality(Encap) \in Nat
  BY FS_CardinalityType, TablesAssumption
<1>5. i # 0 /\ i = fib => Len(s) > 0
  <2>1. SUFFICES ASSUME i # 0, i = fib PROVE Len(s) # 0
    BY <1>2
  <2>2. ToSet(s) # {}
    BY <2>1 DEF ResultsInv, Hops
  <2>3. QED
    BY <1>1, <2>2, FS_EmptySet
<1>6. Len(s) > 0 => s # <<>>
  BY <1>1
<1>7. "REJECT" \notin res[i].flags => i # 0
  BY DEF ResultsInv
<1>8. QED
  BY <1>2, <1>3, <1>4, <1>5, <1>6, <1>7

LEMMA ReaderInit == FwdInit => ReaderInv
<1> SUFFICES ASSUME FwdInit PROVE ReaderInv
  OBVIOUS
<1>1. pmd.pc = "none" /\ pmd.res = 0 /\ pmd.sel = 1
  BY DEF FwdInit, NoPacket
<1>2. Cardinality(Encap) \in Nat
  BY FS_CardinalityType, TablesAssumption
<1>3. QED
  BY <1>1, <1>2, TablesAssumption DEF ReaderInv

(* hash modulo the number of next hops, counted from 1. *)
LEMMA HashSelects ==
  ASSUME NEW n \in Nat, n > 0, NEW h \in Nat
  PROVE  (h % n) + 1 \in 1 .. n
OBVIOUS

LEMMA ReaderResult ==
  ASSUME BootInv, ResultsInv, ReaderInv, NEW h \in 0 .. Cardinality(Encap) - 1, OlIpRcv(h)
  PROVE  ReaderInv'
<1> DEFINE n == Len(res[pmd.res].mpath)
<1>1. /\ DOMAIN pmd = {"pc", "kind", "res", "sel", "mac", "mac_of"} /\ pmd.pc = "result"
      /\ UNCHANGED <<res, fib>> /\ pmd.res \in 0 .. NrFibRes /\ pmd.res \in {0, fib}
  BY DEF BootInv, ReaderInv, OlIpRcv, LeavesRest, tablevars
<1>2. /\ n \in Nat /\ n <= Cardinality(Encap) /\ Cardinality(Encap) \in Nat
      /\ "REJECT" \notin res[pmd.res].flags => n > 0
      /\ n > 0 => res[pmd.res].mpath # <<>>
  BY <1>1, MpathLen
<1>3. h \in Nat
  BY <1>2
<1>4. CASE pmd' = [pmd EXCEPT !.pc = "runlock"]
  BY <1>1, <1>4 DEF ReaderInv
<1>5. CASE pmd' = [pmd EXCEPT !.pc = "mhop", !.sel = 1]
  <2>1. pmd'.pc = "mhop" /\ pmd'.sel = 1 /\ pmd'.res = pmd.res
    BY <1>1, <1>5
  <2>2. QED
    BY <1>1, <1>2, <2>1 DEF ReaderInv
<1>6. CASE /\ "REJECT" \notin res[pmd.res].flags
           /\ pmd' = [pmd EXCEPT !.pc = "hop",
                      !.sel = IF res[pmd.res].mpath = <<>> THEN 1 ELSE (h % n) + 1]
  <2>1. pmd'.pc = "hop" /\ pmd'.sel = (h % n) + 1 /\ pmd'.res = pmd.res
    BY <1>1, <1>2, <1>6
  <2>2. pmd'.sel \in 1 .. n
    BY <2>1, <1>2, <1>3, <1>6, HashSelects
  <2>3. pmd'.pc = "hop" /\ pmd'.res = pmd.res /\ pmd'.sel \in 1 .. Cardinality(Encap) + 1
    <3>1. pmd'.sel \in 1 .. Cardinality(Encap) + 1
      BY <1>2, <2>2
    <3>2. QED
      BY <2>1, <3>1, Zenon
  <2>4. Len(res'[pmd'.res].mpath) = n
    BY <1>1, <2>3
  <2> HIDE DEF n
  <2>5. QED
    BY <1>1, <2>2, <2>3, <2>4 DEF ReaderInv
<1>7. QED
  BY <1>4, <1>5, <1>6 DEF OlIpRcv

LEMMA ReaderNext ==
  BootInv /\ LockInv /\ TablesInv /\ ReaderInv /\ [FwdNext]_vars => ReaderInv'
<1> SUFFICES ASSUME BootInv, LockInv, TablesInv, ReaderInv, [FwdNext]_vars
             PROVE  ReaderInv'
  OBVIOUS
<1>0. /\ DOMAIN pmd = {"pc", "kind", "res", "sel", "mac", "mac_of"} /\ ResultsInv
      /\ Cardinality(Encap) \in Nat
  BY FS_CardinalityType, TablesAssumption DEF BootInv, TablesInv
<1>1. CASE \/ MainCreates \/ PmdInitFails \/ PmdRunning \/ NetioRx \/ ReadLock
           \/ TunnelRcv \/ ReadUnlock \/ \E k \in Kinds : Recv(k)
  <2>1. /\ pmd'.res = pmd.res /\ pmd'.sel = pmd.sel
        /\ pmd'.pc \in {"boot", "exited", "idle", "recv", "rlock", "tunnel", "route",
                        "runlock", "free"}
    BY <1>1, <1>0 DEF MainCreates, PmdInitFails, PmdRunning, NetioRx, ReadLock, TunnelRcv,
                      ReadUnlock, Recv, PmdStep
  <2>2. QED
    BY <2>1 DEF ReaderInv
<1>2. CASE MbufFree
  <2>1. pmd' = NoPacket
    BY <1>2 DEF MbufFree
  <2>2. QED
    BY <2>1, <1>0, TablesAssumption DEF ReaderInv, NoPacket
<1>3. CASE RouteLookup
  <2>1. /\ pmd'.sel = pmd.sel /\ pmd'.pc = "result" /\ pmd'.res \in {0, fib}
        /\ UNCHANGED fib
    BY <1>3, <1>0 DEF RouteLookup, LeavesRest, tablevars, Blackhole
  <2>2. pmd'.res \in 0 .. NrFibRes
    BY <2>1, <1>0, TablesAssumption DEF ResultsInv
  <2>3. QED
    BY <2>1, <2>2 DEF ReaderInv
<1>4. ASSUME NEW h \in 0 .. Cardinality(Encap) - 1, OlIpRcv(h)
      PROVE  ReaderInv'
  BY <1>4, <1>0, ReaderResult
<1>5. CASE IpForward \/ KvMac \/ KvTunnel \/ KvOuter
  <2>1. /\ pmd'.res = pmd.res /\ pmd'.sel = pmd.sel /\ UNCHANGED <<res, fib>>
        /\ pmd.pc \in {"hop", "kvmac", "kvtunnel"} \/ pmd'.pc = "runlock"
        /\ pmd'.pc \in {"kvmac", "kvtunnel", "kvouter", "runlock"}
    BY <1>5, <1>0 DEF IpForward, KvMac, KvTunnel, KvOuter, PmdStep, LeavesRest, tablevars
  <2>2. QED
    BY <2>1 DEF ReaderInv
<1>6. CASE IpForwardM
  <2>1. UNCHANGED <<res, fib>> /\ pmd.pc = "mhop" /\ pmd.res \in 0 .. NrFibRes
    BY <1>6 DEF IpForwardM, LeavesRest, tablevars, ReaderInv
  <2>2. CASE pmd' = [pmd EXCEPT !.pc = "runlock"]
    BY <2>1, <2>2, <1>0 DEF ReaderInv
  <2>3. CASE pmd.sel <= Len(res[pmd.res].mpath) /\ pmd' = [pmd EXCEPT !.sel = @ + 1]
    <3>1. pmd'.res = pmd.res /\ pmd'.pc = "mhop" /\ pmd'.sel = pmd.sel + 1
      BY <2>1, <2>3, <1>0
    <3>2. Len(res[pmd.res].mpath) \in Nat /\ Len(res[pmd.res].mpath) <= Cardinality(Encap)
      BY <2>1, <1>0, MpathLen
    <3>3. QED
      BY <1>0, <2>1, <2>3, <3>1, <3>2 DEF ReaderInv
  <2>4. QED
    BY <1>6, <2>2, <2>3 DEF IpForwardM
<1>7. CASE \/ NhopCreate \/ FibResCreate \/ RtPrefixUpdate \/ RtPrefixDelete
           \/ FibResDelete \/ NhopDelete \/ NeighStatic \/ TunnelMap
  <2>1. main = "steps" /\ UNCHANGED pmd
    BY <1>7, TableStepsKeep
  <2>2. pmd.pc \notin {"result", "hop", "kvmac", "kvtunnel", "kvouter", "mhop"}
    BY <2>1 DEF LockInv, Holding, Writing
  <2>3. QED
    BY <2>1, <2>2 DEF ReaderInv
<1>8. CASE \/ MainPolls \/ PmdInit \/ Calls \/ WriteLock \/ Check \/ WriteUnlock
           \/ UNCHANGED vars
  <2>1. UNCHANGED <<pmd, res, fib>>
    BY <1>8 DEF MainPolls, PmdInit, Calls, Begin, WriteLock, Check, WriteUnlock, LeavesPmd,
                vars, tablevars
  <2>2. QED
    BY <2>1 DEF ReaderInv
<1>9. QED
  BY <1>1, <1>2, <1>3, <1>4, <1>5, <1>6, <1>7, <1>8 DEF FwdNext, PmdRuns, MainRuns

(* What the packet thread is about to read is allocated: outside a table   *)
(* call every next hop of the route holds exactly its reference.           *)
LEMMA ReadsAllocated == LockInv /\ TablesInv /\ ReaderInv => ReadsLive
<1> SUFFICES ASSUME LockInv, TablesInv, ReaderInv,
                    pmd.pc \in {"result", "hop", "mhop", "kvtunnel", "kvouter"}
             PROVE  ReadsLive
  BY DEF ReadsLive
<1> DEFINE s == res[pmd.res].mpath
<1>1. pmd.res \in 0 .. NrFibRes /\ pmd.res \in {0, fib} /\ main # "steps"
  BY DEF ReaderInv, LockInv, Holding, Writing
<1>2. res[pmd.res].used /\ IsListOf(s, Encap) /\ Exact
  BY <1>1 DEF TablesInv, ResultsInv
<1>3. s \in Seq(Encap) /\ DOMAIN s = 1 .. Len(s) /\ Len(s) \in Nat
  BY <1>2 DEF IsListOf
<1>4. ASSUME NEW k \in 1 .. Len(s)
      PROVE  k \in DOMAIN s /\ nhop[s[k]] > 0
  <2>1. s[k] \in Encap /\ s[k] \in ToSet(s) /\ k \in DOMAIN s
    BY <1>3, ToSetIs
  <2>2. ToSet(s) = Hops
    <3>1. CASE pmd.res = fib
      BY <3>1 DEF Hops
    <3>2. CASE pmd.res = 0
      BY <3>2, <1>3, <1>4 DEF TablesInv, ResultsInv
    <3>3. QED
      BY <1>1, <3>1, <3>2
  <2>3. nhop[s[k]] = 1
    BY <1>2, <2>1, <2>2 DEF Exact, Refs
  <2>4. QED
    BY <2>1, <2>3
<1>5. CASE pmd.pc \in {"hop", "kvtunnel", "kvouter"}
  <2>1. pmd.sel \in 1 .. Len(s)
    BY <1>5 DEF ReaderInv
  <2>2. QED
    BY <1>2, <1>4, <1>5, <2>1 DEF ReadsLive, Hop
<1>6. CASE pmd.pc = "mhop"
  <2>1. pmd.sel <= Len(s) => pmd.sel \in 1 .. Len(s)
    BY <1>3, <1>6 DEF ReaderInv
  <2>2. QED
    BY <1>2, <1>4, <1>6, <2>1 DEF ReadsLive, Hop
<1>7. CASE pmd.pc = "result"
  BY <1>2, <1>7 DEF ReadsLive
<1>8. QED
  BY <1>5, <1>6, <1>7

(* The pointers netio_rx keeps into the tables stay good until it lets go  *)
(* of the lock, for any next hops, any size of the result array and        *)
(* whatever calls the main thread makes.                                   *)
THEOREM ReadsLiveCorrect == FwdSpec => []ReadsLive
<1> DEFINE Inv == FwdInv /\ TablesInv /\ ReaderInv
<1>1. FwdInit => Inv
  BY FwdInvInit, TablesInit, ReaderInit
<1>2. Inv /\ [FwdNext]_vars => Inv'
  BY FwdInvNext, TablesNext, ReaderNext DEF FwdInv
<1>3. Inv => ReadsLive
  BY ReadsAllocated DEF FwdInv
<1>4. QED
  BY <1>1, <1>2, <1>3, PTL DEF FwdSpec

-----------------------------------------------------------------------------
(* The MACs.                                                               *)

(* A MAC is half written only inside the call that writes it. *)
MacInv ==
  /\ DOMAIN neigh = Gateways
  /\ \A g \in Gateways :
       /\ DOMAIN neigh[g] = {"refs", "valid", "mac"}
       /\ neigh[g].mac = Torn => main = "steps" /\ w.todo = TodoMacEnd /\ g = Gateway[w.e]
  /\ MacWhole

LEMMA MacInit == FwdInit => MacInv
<1> SUFFICES ASSUME FwdInit PROVE MacInv
  OBVIOUS
<1>1. neigh = [g \in Gateways |-> [refs |-> 0, valid |-> FALSE, mac |-> 0]]
  BY DEF FwdInit
<1>2. DOMAIN neigh = Gateways /\ \A g \in Gateways : /\ DOMAIN neigh[g] = {"refs", "valid", "mac"}
                                                     /\ neigh[g].mac = 0
  BY <1>1
<1>3. kv.mac = 0 /\ pmd.mac = 0
  BY DEF FwdInit, NoPacket
<1>4. QED
  BY <1>2, <1>3 DEF MacInv, MacWhole, Torn

(* The MAC a packet gets is a whole one. *)
LEMMA MacForWhole ==
  ASSUME LockInv, TablesInv, ReaderInv, MacInv, pmd.pc = "hop"
  PROVE  MacFor(Hop) # Torn
<1>1. main # "steps" /\ pmd.res \in 0 .. NrFibRes /\ pmd.sel \in 1 .. Len(res[pmd.res].mpath)
  BY DEF LockInv, Holding, Writing, ReaderInv
<1>2. res[pmd.res].mpath \in Seq(Encap)
  BY <1>1 DEF TablesInv, ResultsInv, IsListOf
<1>3. Hop \in Encap
  BY <1>1, <1>2 DEF Hop
<1>4. Gateway[Hop] # 0 => neigh[Gateway[Hop]].mac # Torn
  BY <1>1, <1>3 DEF MacInv, Gateways
<1>5. DefGwMac # Torn /\ 0 # Torn
  BY MacAssumption DEF Torn
<1>6. QED
  BY <1>4, <1>5, Zenon DEF MacFor

(* Steps of the packet thread. *)
LEMMA MacPackets ==
  ASSUME BootInv, LockInv, KvInv, TablesInv, ReaderInv, MacInv,
         \/ PmdRuns \/ PmdInitFails \/ NetioRx \/ ReadLock \/ MainCreates \/ MainPolls
  PROVE  MacInv'
<1>0. /\ DOMAIN pmd = {"pc", "kind", "res", "sel", "mac", "mac_of"}
      /\ DOMAIN kv = {"mac_of", "mac", "tunnel", "outer"} /\ MacWhole
  BY DEF BootInv, KvInv, MacInv
<1>1. UNCHANGED neigh /\ (main = "steps" => UNCHANGED main) /\ UNCHANGED w
  BY DEF PmdRuns, PmdInit, PmdRunning, Recv, TunnelRcv, RouteLookup, IpForward,
         IpForwardM, OlIpRcv, KvMac, KvTunnel, KvOuter, ReadUnlock, MbufFree,
         NetioRx, ReadLock, LeavesRest, PmdInitFails, MainCreates, MainPolls,
         mainvars, tablevars, BootInv, Booting, Started, NotRunning
<1>2. MacWhole'
  <2>1. CASE KvMac
    BY <2>1, <1>0 DEF KvMac, PmdStep, MacWhole
  <2>2. CASE IpForward
    <3>1. pmd'.mac \in {pmd.mac, MacFor(Hop)} /\ kv' = kv
      <4>1. CASE pmd' = [pmd EXCEPT !.pc = "runlock"]
        BY <4>1, <1>0, <2>2 DEF IpForward
      <4>2. CASE ~InnerEtherNeed(Hop)
        BY <4>1, <4>2, <2>2 DEF IpForward
      <4>3. CASE InnerEtherNeed(Hop) /\ pmd' # [pmd EXCEPT !.pc = "runlock"]
        <5>1. /\ pmd' = [pmd EXCEPT !.pc = "kvmac", !.mac = MacFor(Hop), !.mac_of = Hop]
              /\ kv' = kv
          BY <4>3, <2>2 DEF IpForward
        <5>2. QED
          BY <5>1, <1>0
      <4>4. QED
        BY <4>1, <4>2, <4>3
    <3>2. MacFor(Hop) # Torn
      BY <2>2, MacForWhole DEF IpForward
    <3>3. QED
      BY <3>1, <3>2, <1>0 DEF MacWhole
  <2>3. CASE MbufFree
    BY <2>3, <1>0 DEF MbufFree, NoPacket, MacWhole, Torn
  <2>4. CASE ~KvMac /\ ~IpForward /\ ~MbufFree
    <3>1. kv'.mac = kv.mac /\ pmd'.mac = pmd.mac
      BY <2>4, <1>0 DEF PmdRuns, PmdInit, PmdRunning, Recv, TunnelRcv, RouteLookup,
         IpForwardM, OlIpRcv, KvTunnel, KvOuter, ReadUnlock, PmdStep,
         NetioRx, ReadLock, PmdInitFails, MainCreates, MainPolls
    <3>2. QED
      BY <3>1, <1>0 DEF MacWhole
  <2>5. QED
    BY <2>1, <2>2, <2>3, <2>4
<1>3. QED
  BY <1>1, <1>2 DEF MacInv

(* Steps of the table calls. *)
LEMMA MacCalls ==
  ASSUME TablesInv, MacInv,
         \/ NhopCreate \/ FibResCreate \/ RtPrefixUpdate \/ RtPrefixDelete
         \/ FibResDelete \/ NhopDelete \/ NeighStatic \/ TunnelMap
  PROVE  MacInv'
<1>1. UNCHANGED <<main, kv, pmd>> /\ main = "steps" /\ MacWhole'
  BY TableStepsKeep DEF MacInv, MacWhole
<1>2. /\ DOMAIN neigh = Gateways
      /\ \A g \in Gateways :
           /\ DOMAIN neigh[g] = {"refs", "valid", "mac"}
           /\ neigh[g].mac = Torn => w.todo = TodoMacEnd /\ g = Gateway[w.e]
      /\ DOMAIN w = {"op", "e", "t", "mac", "victim", "old", "new", "todo"}
  BY DEF MacInv, TablesInv, CallInv
<1>3. CASE NeighStatic
  <2> DEFINE g == Gateway[w.e]
  <2>1. /\ w'.todo = Tail(w.todo) /\ w'.e = w.e
        /\ w.todo \in {TodoStatic, TodoMacEnd, TodoValid}
        /\ g \in Gateways /\ w.mac \in Mac
    <3>1. w.todo \in {TodoStatic, TodoMacEnd, TodoValid} /\ w.op = "static"
      BY <1>3, Todos DEF NeighStatic, Doing, TablesInv, Phase
    <3>2. QED
      BY <1>2, <1>3, <3>1 DEF NeighStatic, Continue, TablesInv, CallInv
  <2>2. /\ DOMAIN neigh' = Gateways /\ \A h \in Gateways : h # g => neigh'[h] = neigh[h]
        /\ DOMAIN neigh'[g] = {"refs", "valid", "mac"}
        /\ w.todo = TodoMacEnd => neigh'[g].mac = w.mac
        /\ w.todo = TodoValid => neigh'[g].mac = neigh[g].mac
    <3>1. CASE w.todo = TodoStatic
      BY <3>1, <1>2, <1>3, <2>1, Todos DEF NeighStatic, Doing
    <3>2. CASE w.todo = TodoMacEnd
      BY <3>2, <1>2, <1>3, <2>1, Todos DEF NeighStatic, Doing
    <3>3. CASE w.todo = TodoValid
      BY <3>3, <1>2, <1>3, <2>1, Todos DEF NeighStatic, Doing
    <3>4. QED
      BY <2>1, <3>1, <3>2, <3>3
  <2>3. w.todo = TodoMacEnd => neigh'[g].mac # Torn
    BY <2>1, <2>2, MacAssumption DEF Torn
  <2>4. w.todo = TodoValid => neigh'[g].mac # Torn
    BY <1>2, <2>1, <2>2, Todos
  <2>5. ASSUME NEW h \in Gateways, neigh'[h].mac = Torn
        PROVE  w'.todo = TodoMacEnd /\ h = Gateway[w'.e]
    <3>1. h = g
      <4>1. SUFFICES ASSUME h # g PROVE FALSE
        OBVIOUS
      <4>2. QED
        BY <4>1, <2>2, <2>5, <1>2
    <3>2. w.todo = TodoStatic
      BY <3>1, <2>1, <2>3, <2>4, <2>5
    <3>3. QED
      BY <3>1, <3>2, <2>1, Todos
  <2>6. \A h \in Gateways : DOMAIN neigh'[h] = {"refs", "valid", "mac"}
    BY <2>2, <1>2
  <2>7. QED
    BY <1>1, <2>2, <2>5, <2>6 DEF MacInv
<1>4. CASE NhopCreate \/ NhopDelete
  <2>1. w.todo # TodoMacEnd
    BY <1>4, Todos DEF NhopCreate, NhopDelete, Doing
  <2>2. \A g \in Gateways : neigh[g].mac # Torn
    BY <1>2, <2>1
  <2>3. \/ UNCHANGED neigh
        \/ Gateway[w.e] \in Gateways /\ \E n \in {1, -1} : neigh' = AddRef(Gateway[w.e], n)
        \/ /\ Gateway[w.e] \in Gateways
           /\ neigh' = [neigh EXCEPT ![Gateway[w.e]] = [refs |-> 0, valid |-> FALSE, mac |-> 0]]
    <3>1. w.e \in Encap
      BY <1>4, Todos DEF NhopCreate, NhopDelete, Doing, TablesInv, CallInv, Phase,
                         Inserting, Extra
    <3>2. Gateway[w.e] # 0 => Gateway[w.e] \in Gateways
      BY <3>1 DEF Gateways
    <3>3. CASE NhopCreate
      BY <3>2, <3>3 DEF NhopCreate
    <3>4. CASE NhopDelete
      BY <3>2, <3>4 DEF NhopDelete, Unref
    <3>5. QED
      BY <1>4, <3>3, <3>4
  <2>4. DOMAIN neigh' = Gateways /\ \A g \in Gateways : /\ DOMAIN neigh'[g] = {"refs", "valid", "mac"}
                                                        /\ neigh'[g].mac \in {neigh[g].mac, 0}
    BY <1>2, <2>3 DEF AddRef
  <2>5. \A g \in Gateways : neigh'[g].mac # Torn
    BY <2>2, <2>4 DEF Torn
  <2>6. QED
    BY <1>1, <2>4, <2>5 DEF MacInv
<1>5. CASE FibResCreate \/ RtPrefixUpdate \/ RtPrefixDelete \/ FibResDelete \/ TunnelMap
  <2>1. w.todo # TodoMacEnd /\ UNCHANGED neigh
    BY <1>5, Todos DEF FibResCreate, RtPrefixUpdate, RtPrefixDelete, FibResDelete, TunnelMap,
                       Doing
  <2>2. QED
    BY <1>1, <1>2, <2>1 DEF MacInv
<1>6. QED
  BY <1>3, <1>4, <1>5

LEMMA MacNext ==
  FwdInv /\ TablesInv /\ ReaderInv /\ MacInv /\ [FwdNext]_vars => MacInv'
<1> SUFFICES ASSUME FwdInv, TablesInv, ReaderInv, MacInv, [FwdNext]_vars
             PROVE  MacInv'
  OBVIOUS
<1>1. CASE Calls \/ WriteLock \/ Check \/ WriteUnlock \/ UNCHANGED vars
  <2>1. UNCHANGED <<pmd, kv, neigh>>
    BY <1>1 DEF Calls, Begin, WriteLock, Check, WriteUnlock, LeavesPmd, vars, tablevars
  <2>2. \A g \in Gateways : neigh[g].mac = Torn => UNCHANGED <<main, w>>
    BY <1>1, Todos DEF Calls, Begin, WriteLock, Check, WriteUnlock, vars, mainvars, MacInv
  <2>3. QED
    BY <2>1, <2>2 DEF MacInv, MacWhole
<1>2. QED
  BY <1>1, MacPackets, MacCalls DEF FwdInv, FwdNext, MainRuns

(* The whole state of the two threads. *)
ThreadsInv == FwdInv /\ TablesInv /\ ReaderInv /\ MacInv

LEMMA ThreadsInit == FwdInit => ThreadsInv
BY FwdInvInit, TablesInit, ReaderInit, MacInit DEF ThreadsInv

LEMMA ThreadsNext == ThreadsInv /\ [FwdNext]_vars => ThreadsInv'
BY FwdInvNext, TablesNext, ReaderNext, MacNext DEF ThreadsInv, FwdInv

(* A static neighbour may be given its MAC, byte by byte, at any time: a   *)
(* packet and what it reports never have a half-written one, for any set   *)
(* of gateways and MACs.                                                   *)
THEOREM MacWholeCorrect == FwdSpec => []MacWhole
<1>1. ThreadsInv => MacWhole
  BY DEF ThreadsInv, MacInv
<1>2. QED
  BY <1>1, ThreadsInit, ThreadsNext, PTL DEF FwdSpec

-----------------------------------------------------------------------------
(* The references of the neighbours.                                       *)

Users(g) == {e \in Encap : Gateway[e] = g /\ nhop[e] > 0}
Pending(g) == main = "steps" /\ w.todo \in {TodoMacEnd, TodoValid} /\ g = Gateway[w.e]
Static(g) == IF neigh[g].valid \/ Pending(g) THEN 1 ELSE 0

(* A neighbour counts the next hops in use that go through it and, once    *)
(* the call that makes it static has begun, itself.                        *)
RefInv == \A g \in Gateways : neigh[g].refs = Cardinality(Users(g)) + Static(g)

(* What may be left of a call outside the writing of a MAC. *)
OtherTodos == {TodoDone, TodoMap, TodoStatic, TodoInsert, TodoResult, TodoUpdate,
               TodoPrefix, TodoDropRelease, TodoRelease, TodoDrop}

LEMMA NotPending ==
  ASSUME NEW t \in OtherTodos
  PROVE  t \notin {TodoMacEnd, TodoValid}
<1>1. /\ \A s \in {TodoMacEnd, TodoValid} : s # <<>> /\ Head(s) \in {"mac_end", "valid"}
      /\ t = <<>> \/ Head(t) \notin {"mac_end", "valid"}
  BY Todos DEF OtherTodos
<1>2. QED
  BY <1>1, Zenon

LEMMA UsersFinite ==
  ASSUME NEW g
  PROVE  /\ IsFiniteSet(Users(g)) /\ Cardinality(Users(g)) \in Nat
         /\ Cardinality(Users(g)) <= Cardinality(Encap)
<1>1. Users(g) \subseteq Encap
  BY DEF Users
<1>2. QED
  BY <1>1, TablesAssumption, FS_Subset, FS_CardinalityType

LEMMA RefInit == FwdInit => RefInv
<1> SUFFICES ASSUME FwdInit, NEW g \in Gateways
             PROVE  neigh[g].refs = Cardinality(Users(g)) + Static(g)
  BY DEF RefInv
<1>1. neigh[g] = [refs |-> 0, valid |-> FALSE, mac |-> 0] /\ main = "start"
  BY DEF FwdInit
<1>2. Users(g) = {}
  BY DEF FwdInit, Users
<1>3. Cardinality(Users(g)) = 0
  BY <1>2, FS_EmptySet
<1>4. Static(g) = 0
  BY <1>1 DEF Static, Pending
<1>5. QED
  BY <1>1, <1>3, <1>4

(* Steps that touch neither the neighbours nor the references. *)
LEMMA RefFrame ==
  ASSUME RefInv, UNCHANGED <<neigh, nhop>>, \A g \in Gateways : Pending(g)' <=> Pending(g)
  PROVE  RefInv'
<1>1. ASSUME NEW g \in Gateways
      PROVE  Users(g)' = Users(g) /\ Static(g)' = Static(g) /\ neigh'[g].refs = neigh[g].refs
  BY <1>1 DEF Users, Static
<1>2. QED
  BY <1>1 DEF RefInv

(* The route calls are not about a static neighbour. *)
LEMMA RouteStepTodos ==
  ASSUME TablesInv,
         \/ NhopCreate \/ FibResCreate \/ RtPrefixUpdate \/ RtPrefixDelete
         \/ FibResDelete \/ NhopDelete \/ TunnelMap
  PROVE  \A g : ~Pending(g) /\ ~Pending(g)'
<1>1. main = "steps" /\ DOMAIN w = {"op", "e", "t", "mac", "victim", "old", "new", "todo"}
  BY TableStepsKeep DEF TablesInv, CallInv
<1>2. w.todo \in {TodoMap, TodoInsert, TodoResult, TodoUpdate, TodoPrefix, TodoDropRelease,
                  TodoRelease, TodoDrop}
  BY <1>1, Todos DEF TablesInv, Phase, NhopCreate, FibResCreate, RtPrefixUpdate,
     RtPrefixDelete, FibResDelete, NhopDelete, TunnelMap, Doing
<1>3. w'.todo \in OtherTodos
  <2>1. CASE w'.todo = Tail(w.todo) /\ w.todo # TodoUpdate
    BY <1>2, <2>1, Todos DEF OtherTodos
  <2>2. CASE w'.todo \in {<<>>, <<"release">>, <<"drop", "release">>, <<"drop">>}
    BY <2>2 DEF OtherTodos, TodoDone, TodoRelease, TodoDropRelease, TodoDrop
  <2>3. CASE NhopCreate \/ RtPrefixDelete \/ FibResDelete \/ NhopDelete \/ TunnelMap
    <3>1. w'.todo = Tail(w.todo) \/ w'.todo = <<>>
      BY <1>1, <2>3 DEF NhopCreate, RtPrefixDelete, FibResDelete, NhopDelete, TunnelMap,
                        Continue
    <3>2. w.todo # TodoUpdate
      BY <2>3, Todos DEF NhopCreate, RtPrefixDelete, FibResDelete, NhopDelete, TunnelMap, Doing
    <3>3. QED
      BY <2>1, <2>2, <3>1, <3>2
  <2>4. CASE FibResCreate
    <3>1. w'.todo \in {Tail(w.todo), <<>>, <<"release">>}
      BY <1>1, <2>4 DEF FibResCreate
    <3>2. w.todo # TodoUpdate
      BY <2>4, Todos DEF FibResCreate, Doing
    <3>3. QED
      BY <2>1, <2>2, <3>1, <3>2
  <2>5. CASE RtPrefixUpdate
    BY <1>1, <2>2, <2>5 DEF RtPrefixUpdate
  <2>6. QED
    BY <2>3, <2>4, <2>5
<1>4. w.todo \in OtherTodos
  BY <1>2 DEF OtherTodos
<1>5. QED
  BY <1>3, <1>4, NotPending DEF Pending

LEMMA RefNhopCreate == ASSUME TablesInv, MacInv, RefInv, NhopCreate PROVE RefInv'
<1>0. \A g : ~Pending(g) /\ ~Pending(g)'
  BY RouteStepTodos
<1>1. /\ w.e \in Encap /\ DOMAIN nhop = Encap /\ nhop[w.e] = 0
      /\ DOMAIN neigh = Gateways /\ \A g \in Gateways : DOMAIN neigh[g] = {"refs", "valid", "mac"}
  BY Todos DEF NhopCreate, Doing, TablesInv, Phase, CallInv, Inserting, Exact, Refs, MacInv
<1>2. CASE UNCHANGED <<nhop, neigh>>
  BY <1>0, <1>2, RefFrame
<1>3. CASE /\ nhop' = [nhop EXCEPT ![w.e] = @ + 1]
           /\ neigh' = IF nhop[w.e] = 0 /\ Gateway[w.e] # 0
                       THEN AddRef(Gateway[w.e], 1) ELSE neigh
  <2> SUFFICES ASSUME NEW g \in Gateways
               PROVE  neigh'[g].refs = Cardinality(Users(g)') + Static(g)'
    BY DEF RefInv
  <2>1. g # 0 /\ neigh[g].refs = Cardinality(Users(g)) + Static(g)
    BY DEF RefInv, Gateways
  <2>2. nhop'[w.e] = 1 /\ \A e \in Encap : e # w.e => nhop'[e] = nhop[e]
    BY <1>1, <1>3
  <2>3. CASE Gateway[w.e] = g
    <3>1. Users(g)' = Users(g) \cup {w.e} /\ w.e \notin Users(g)
      BY <1>1, <2>2, <2>3 DEF Users
    <3>2. Cardinality(Users(g)') = Cardinality(Users(g)) + 1
      BY <3>1, UsersFinite, FS_AddElement
    <3>3. neigh' = [neigh EXCEPT ![g].refs = @ + 1]
      BY <1>1, <1>3, <2>1, <2>3 DEF AddRef
    <3>4. neigh'[g].refs = neigh[g].refs + 1
      BY <1>1, <3>3
    <3>5. neigh'[g].valid = neigh[g].valid
      BY <1>1, <3>3
    <3>6. Static(g)' = Static(g) /\ Static(g) \in Nat
      BY <1>0, <3>5 DEF Static
    <3>7. QED
      BY <2>1, <3>2, <3>4, <3>6, UsersFinite
  <2>4. CASE Gateway[w.e] # g
    <3>1. Users(g)' = Users(g)
      BY <1>1, <2>2, <2>4 DEF Users
    <3>2. neigh'[g] = neigh[g]
      BY <1>1, <1>3, <2>4 DEF AddRef
    <3>3. Static(g)' = Static(g)
      BY <1>0, <3>2 DEF Static
    <3>4. QED
      BY <2>1, <3>1, <3>2, <3>3
  <2>5. QED
    BY <2>3, <2>4
<1>4. QED
  BY <1>2, <1>3 DEF NhopCreate

LEMMA RefNhopDelete == ASSUME TablesInv, MacInv, RefInv, NhopDelete PROVE RefInv'
<1>0. \A g : ~Pending(g) /\ ~Pending(g)'
  BY RouteStepTodos
<1>1. /\ w.e \in Encap /\ DOMAIN nhop = Encap /\ nhop[w.e] = 1
      /\ DOMAIN neigh = Gateways /\ \A g \in Gateways : DOMAIN neigh[g] = {"refs", "valid", "mac"}
  BY Todos DEF NhopDelete, Doing, TablesInv, Phase, Extra, Refs, MacInv
<1>2. /\ nhop' = [nhop EXCEPT ![w.e] = @ - 1]
      /\ neigh' = IF nhop[w.e] = 1 /\ Gateway[w.e] # 0 THEN Unref(Gateway[w.e]) ELSE neigh
  BY DEF NhopDelete
<1> SUFFICES ASSUME NEW g \in Gateways
             PROVE  neigh'[g].refs = Cardinality(Users(g)') + Static(g)'
  BY DEF RefInv
<1>3. g # 0 /\ neigh[g].refs = Cardinality(Users(g)) + Static(g)
  BY DEF RefInv, Gateways
<1>4. nhop'[w.e] = 0 /\ \A e \in Encap : e # w.e => nhop'[e] = nhop[e]
  BY <1>1, <1>2
<1>5. CASE Gateway[w.e] = g
  <2>1. Users(g)' = Users(g) \ {w.e} /\ w.e \in Users(g)
    BY <1>1, <1>4, <1>5 DEF Users
  <2>2. Cardinality(Users(g)') = Cardinality(Users(g)) - 1 /\ Cardinality(Users(g)) > 0
    <3>1. Cardinality(Users(g)') = Cardinality(Users(g)) - 1
      BY <2>1, UsersFinite, FS_RemoveElement
    <3>2. Cardinality(Users(g)) # 0
      BY <2>1, UsersFinite, FS_EmptySet
    <3>3. QED
      BY <3>1, <3>2, UsersFinite
  <2>3. neigh' = Unref(g)
    BY <1>1, <1>2, <1>3, <1>5
  <2>4. Static(g) \in {0, 1} /\ (Static(g) = 0 <=> ~neigh[g].valid)
    BY <1>0 DEF Static
  <2>5. CASE neigh[g].refs > 1
    <3>1. neigh' = [neigh EXCEPT ![g].refs = @ + (-1)]
      BY <2>3, <2>5 DEF Unref, AddRef
    <3>2. neigh'[g].refs = neigh[g].refs - 1
      BY <1>1, <1>3, <2>4, <3>1, UsersFinite
    <3>3. neigh'[g].valid = neigh[g].valid
      BY <1>1, <3>1
    <3>4. Static(g)' = Static(g)
      BY <1>0, <3>3 DEF Static
    <3>5. QED
      BY <1>3, <2>2, <2>4, <3>2, <3>4, UsersFinite
  <2>6. CASE ~(neigh[g].refs > 1)
    <3>1. neigh'[g] = [refs |-> 0, valid |-> FALSE, mac |-> 0]
      BY <1>1, <2>3, <2>6 DEF Unref
    <3>2. Static(g)' = 0
      BY <1>0, <3>1 DEF Static
    <3>3. Cardinality(Users(g)) = 1
      BY <1>3, <2>2, <2>4, <2>6, UsersFinite
    <3>4. QED
      BY <2>2, <3>1, <3>2, <3>3
  <2>7. QED
    BY <2>5, <2>6
<1>6. CASE Gateway[w.e] # g
  <2>1. Users(g)' = Users(g)
    BY <1>1, <1>4, <1>6 DEF Users
  <2>2. neigh'[g] = neigh[g]
    BY <1>1, <1>2, <1>6 DEF Unref, AddRef
  <2>3. Static(g)' = Static(g)
    BY <1>0, <2>2 DEF Static
  <2>4. QED
    BY <1>3, <2>1, <2>2, <2>3
<1>7. QED
  BY <1>5, <1>6

(* A static neighbour takes its own reference with the first step of the   *)
(* first call and not again.                                               *)
LEMMA RefStatic == ASSUME TablesInv, MacInv, RefInv, NeighStatic PROVE RefInv'
<1> DEFINE s == Gateway[w.e]
<1>1. /\ main = "steps" /\ UNCHANGED main /\ w'.todo = Tail(w.todo) /\ w'.e = w.e
      /\ w.todo \in {TodoStatic, TodoMacEnd, TodoValid} /\ UNCHANGED nhop
      /\ s \in Gateways /\ DOMAIN neigh = Gateways
      /\ \A g \in Gateways : DOMAIN neigh[g] = {"refs", "valid", "mac"}
  <2>1. w.todo \in {TodoStatic, TodoMacEnd, TodoValid} /\ w.op = "static" /\ main = "steps"
    BY Todos DEF NeighStatic, Doing, TablesInv, Phase
  <2>2. QED
    BY <2>1 DEF NeighStatic, Continue, TablesInv, CallInv, MacInv
<1> SUFFICES ASSUME NEW g \in Gateways
             PROVE  neigh'[g].refs = Cardinality(Users(g)') + Static(g)'
  BY DEF RefInv
<1>2. Users(g)' = Users(g) /\ neigh[g].refs = Cardinality(Users(g)) + Static(g)
  BY <1>1 DEF Users, RefInv
<1>3. TodoStatic \notin {TodoMacEnd, TodoValid} /\ TodoDone \notin {TodoMacEnd, TodoValid}
  BY NotPending DEF OtherTodos
<1>4. CASE g # s
  <2>1. neigh'[g] = neigh[g]
    BY <1>1, <1>4 DEF NeighStatic
  <2>2. ~Pending(g) /\ ~Pending(g)'
    BY <1>1, <1>4 DEF Pending
  <2>3. Static(g)' = Static(g)
    BY <2>1, <2>2 DEF Static
  <2>4. QED
    BY <1>2, <2>1, <2>3
<1>5. CASE g = s /\ w.todo = TodoStatic
  <2> DEFINE n == IF neigh[g].valid THEN 0 ELSE 1
  <2>1. neigh' = [neigh EXCEPT ![g].mac = Torn, ![g].refs = @ + n]
    BY <1>5, Todos DEF NeighStatic, Doing
  <2>2. ~Pending(g) /\ Pending(g)'
    BY <1>1, <1>3, <1>5, Todos DEF Pending
  <2> HIDE DEF n
  <2>3. neigh'[g].refs = neigh[g].refs + n
    BY <1>1, <2>1
  <2>4. Static(g)' = 1 /\ Static(g) = IF neigh[g].valid THEN 1 ELSE 0
    BY <2>2 DEF Static
  <2>5. QED
    BY <1>2, <2>3, <2>4, UsersFinite DEF n
<1>6. CASE g = s /\ w.todo = TodoMacEnd
  <2>1. neigh' = [neigh EXCEPT ![g].mac = w.mac]
    BY <1>6, Todos DEF NeighStatic, Doing
  <2>2. neigh'[g].refs = neigh[g].refs
    BY <1>1, <2>1
  <2>3. Pending(g) /\ Pending(g)'
    BY <1>1, <1>6, Todos DEF Pending
  <2>4. QED
    BY <1>2, <2>2, <2>3 DEF Static
<1>7. CASE g = s /\ w.todo = TodoValid
  <2>1. neigh' = [neigh EXCEPT ![g].valid = TRUE]
    BY <1>7, Todos DEF NeighStatic, Doing
  <2>2. neigh'[g].refs = neigh[g].refs
    BY <1>1, <2>1
  <2>3. neigh'[g].valid
    BY <1>1, <2>1
  <2>4. Pending(g)
    BY <1>1, <1>7 DEF Pending
  <2>5. QED
    BY <1>2, <2>2, <2>3, <2>4 DEF Static
<1>8. QED
  BY <1>1, <1>4, <1>5, <1>6, <1>7

LEMMA RefNext == BootInv /\ TablesInv /\ MacInv /\ RefInv /\ [FwdNext]_vars => RefInv'
<1> SUFFICES ASSUME BootInv, TablesInv, MacInv, RefInv, [FwdNext]_vars PROVE RefInv'
  OBVIOUS
<1>1. CASE FibResCreate \/ RtPrefixUpdate \/ RtPrefixDelete \/ FibResDelete \/ TunnelMap
  <2>1. UNCHANGED <<neigh, nhop>>
    BY <1>1 DEF FibResCreate, RtPrefixUpdate, RtPrefixDelete, FibResDelete, TunnelMap
  <2>2. QED
    BY <1>1, <2>1, RouteStepTodos, RefFrame
<1>2. CASE Check
  <2>1. UNCHANGED <<neigh, nhop>> /\ main # "steps" /\ w'.todo = Plan
    BY <1>2 DEF Check, tablevars, TablesInv, CallInv
  <2>2. Plan \in OtherTodos
    BY DEF Plan, OtherTodos, TodoDone, TodoMap, TodoStatic, TodoInsert, TodoPrefix, TodoResult
  <2>3. \A g : ~Pending(g) /\ ~Pending(g)'
    BY <2>1, <2>2, NotPending DEF Pending
  <2>4. QED
    BY <2>1, <2>3, RefFrame
<1>3. CASE \/ MainCreates \/ MainPolls \/ PmdInitFails \/ WriteLock \/ Calls \/ WriteUnlock
  <2>1. UNCHANGED <<neigh, nhop>>
    BY <1>3 DEF MainCreates, MainPolls, PmdInitFails, WriteLock, Calls, Begin, WriteUnlock,
                tablevars
  <2>2. \A g : ~Pending(g) /\ ~Pending(g)'
    BY <1>3, Todos DEF Pending, MainCreates, MainPolls, PmdInitFails, WriteLock, Calls, Begin,
                WriteUnlock, Booting, BootInv, Started, NotRunning
  <2>3. QED
    BY <2>1, <2>2, RefFrame
<1>4. CASE PmdRuns \/ NetioRx \/ ReadLock \/ UNCHANGED vars
  <2>1. UNCHANGED <<mainvars, tablevars>>
    BY <1>4 DEF PmdRuns, PmdInit, PmdRunning, Recv, TunnelRcv, RouteLookup, IpForward,
                IpForwardM, OlIpRcv, KvMac, KvTunnel, KvOuter, ReadUnlock, MbufFree,
                NetioRx, ReadLock, LeavesRest, vars
  <2>2. \A g : Pending(g)' <=> Pending(g)
    BY <2>1 DEF mainvars, Pending
  <2>3. QED
    BY <2>1, <2>2, RefFrame DEF tablevars
<1>5. QED
  BY <1>1, <1>2, <1>3, <1>4, RefNhopCreate, RefNhopDelete, RefStatic DEF FwdNext, MainRuns

-----------------------------------------------------------------------------
(* The mbuf pool and the types.                                            *)

(* Once ntb_dp_init has filled the pool, one mbuf is out while a packet is *)
(* worked on and none between packets.                                     *)
PoolInv ==
  /\ pmd.pc \in NotRunning => mbufs \in {0, NbMbuf} /\ ("mbuf" \in tables => mbufs = NbMbuf)
  /\ pmd.pc = "idle" => mbufs = NbMbuf
  /\ pmd.pc \notin NotRunning \cup {"idle"} => mbufs = NbMbuf - 1

LEMMA PoolInit == FwdInit => PoolInv
BY DEF FwdInit, PoolInv, NoPacket, NotRunning

LEMMA PoolNext == BootInv /\ PoolInv /\ [FwdNext]_vars => PoolInv'
<1> SUFFICES ASSUME BootInv, PoolInv, [FwdNext]_vars PROVE PoolInv'
  OBVIOUS
<1>0. DOMAIN pmd = {"pc", "kind", "res", "sel", "mac", "mac_of"} /\ tables \subseteq BootSet
  BY DEF BootInv
<1> USE DEF PoolInv, NotRunning
<1>1. CASE MainCreates
  <2>1. pmd.pc = "none" /\ pmd'.pc = "boot" /\ UNCHANGED <<mbufs, tables>>
    BY <1>1, <1>0 DEF MainCreates, BootInv
  <2>2. QED
    BY <2>1
<1>2. CASE PmdInitFails
  <2>1. pmd.pc = "boot" /\ pmd'.pc = "exited" /\ UNCHANGED <<mbufs, tables>>
    BY <1>2, <1>0 DEF PmdInitFails, Booting
  <2>2. QED
    BY <2>1
<1>3. CASE PmdInit
  <2>1. PICK t : /\ pmd.pc = "boot" /\ UNCHANGED pmd /\ tables' = tables \cup {t}
                 /\ mbufs' = IF t = "mbuf" THEN NbMbuf ELSE mbufs
    BY <1>3 DEF PmdInit, Booting
  <2>2. QED
    BY <2>1
<1>4. CASE PmdRunning
  <2>1. pmd'.pc = "idle" /\ UNCHANGED mbufs /\ tables = BootSet
    BY <1>4, <1>0, BootComplete DEF PmdRunning
  <2>2. QED
    BY <1>4, <2>1 DEF PmdRunning, BootSet
<1>5. CASE NetioRx
  <2>1. pmd.pc = "idle" /\ pmd'.pc = "recv" /\ mbufs' = mbufs - 1
    BY <1>5, <1>0 DEF NetioRx, PmdStep
  <2>2. QED
    BY <2>1
<1>6. CASE \/ ReadLock \/ TunnelRcv \/ KvMac \/ KvTunnel \/ KvOuter \/ ReadUnlock
           \/ (\E k \in Kinds : Recv(k)) \/ RouteLookup \/ IpForward \/ IpForwardM
           \/ \E h \in 0 .. Cardinality(Encap) - 1 : OlIpRcv(h)
  <2>1. /\ UNCHANGED mbufs /\ pmd.pc \notin NotRunning \cup {"idle"}
        /\ pmd'.pc \notin NotRunning \cup {"idle"}
    BY <1>6, <1>0 DEF ReadLock, TunnelRcv, KvMac, KvTunnel, KvOuter, ReadUnlock, Recv,
                      RouteLookup, IpForward, IpForwardM, OlIpRcv, PmdStep
  <2>2. QED
    BY <2>1
<1>7. CASE MbufFree
  <2>1. pmd.pc = "free" /\ pmd'.pc = "idle" /\ mbufs' = mbufs + 1
    BY <1>7 DEF MbufFree, NoPacket
  <2>2. QED
    BY <2>1, PoolAssumption
<1>8. CASE \/ MainPolls \/ Calls \/ WriteLock \/ Check \/ WriteUnlock \/ UNCHANGED vars
  <2>1. UNCHANGED <<pmd, mbufs, tables>>
    BY <1>8 DEF MainPolls, Calls, Begin, WriteLock, Check, WriteUnlock, LeavesPmd, vars
  <2>2. QED
    BY <2>1
<1>9. CASE \/ NhopCreate \/ FibResCreate \/ RtPrefixUpdate \/ RtPrefixDelete
           \/ FibResDelete \/ NhopDelete \/ NeighStatic \/ TunnelMap
  <2>1. UNCHANGED <<pmd, mbufs, tables>>
    BY <1>9, TableStepsKeep
  <2>2. QED
    BY <2>1
<1>10. QED
  BY <1>1, <1>2, <1>3, <1>4, <1>5, <1>6, <1>7, <1>8, <1>9 DEF FwdNext, PmdRuns, MainRuns

(* No packet costs the pool an mbuf: between packets it is full again,     *)
(* whatever was received and wherever netio_rx gave up on it.              *)
THEOREM PoolIsFull == FwdSpec => [](pmd.pc = "idle" => mbufs = NbMbuf)
<1> DEFINE Inv == BootInv /\ PoolInv
<1>1. FwdInit => Inv
  BY BootInit, PoolInit
<1>2. Inv /\ [FwdNext]_vars => Inv'
  BY BootNext, PoolNext
<1>3. Inv => (pmd.pc = "idle" => mbufs = NbMbuf)
  BY DEF PoolInv
<1>4. QED
  BY <1>1, <1>2, <1>3, PTL DEF FwdSpec

(* The reference counts of the neighbours are exact at every moment of     *)
(* every call, so a neighbour goes with its last next hop unless it is     *)
(* static, and a static one never goes.                                    *)
THEOREM NeighboursCounted == FwdSpec => []RefInv
<1> DEFINE Inv == ThreadsInv /\ RefInv
<1>1. FwdInit => Inv
  BY ThreadsInit, RefInit
<1>2. Inv /\ [FwdNext]_vars => Inv'
  BY ThreadsNext, RefNext DEF ThreadsInv, FwdInv
<1>3. QED
  BY <1>1, <1>2, PTL DEF FwdSpec

LEMMA FwdTypes == ThreadsInv /\ RefInv /\ PoolInv => FwdTypeOK
<1> SUFFICES ASSUME ThreadsInv, RefInv, PoolInv PROVE FwdTypeOK
  OBVIOUS
<1>0. BootInv /\ LockInv /\ TablesInv /\ ResultsInv /\ ReaderInv
  BY DEF ThreadsInv, FwdInv, TablesInv
<1>1. main \in {"start", "poll", "api", "wlock", "check", "steps", "exited"}
  BY <1>0 DEF BootInv, Started
<1>2. tables \subseteq ToSet(Boot)
  BY <1>0, BootIsSet DEF BootInv
<1>3. mbufs \in 0 .. NbMbuf
  BY PoolAssumption DEF PoolInv
<1>4. lock \in [readers : {0, 1}, writer : BOOLEAN]
  BY <1>0 DEF LockInv
<1>5. fib \in 0 .. NrFibRes
  BY <1>0 DEF ResultsInv
<1>6. nhop \in [Encap -> 0 .. 2]
  <2>1. \E S : nhop = Refs(S)
    BY <1>0 DEF TablesInv, Phase, Exact, Extra
  <2>2. QED
    BY <2>1 DEF Refs
<1>7. \A i \in 0 .. NrFibRes : ToSet(res[i].mpath) \subseteq Encap
  BY <1>0, ToSetIs DEF ResultsInv, IsListOf
<1>8. ASSUME NEW g \in Gateways
      PROVE  neigh[g].refs \in 0 .. Cardinality(Encap) + 1
  <2>1. Static(g) \in {0, 1}
    BY DEF Static
  <2>2. Cardinality(Encap) \in Nat
    BY FS_CardinalityType, TablesAssumption
  <2>3. neigh[g].refs = Cardinality(Users(g)) + Static(g)
    BY DEF RefInv
  <2>4. QED
    BY <2>1, <2>2, <2>3, UsersFinite
<1>9. pmd.res \in 0 .. NrFibRes /\ pmd.sel \in 1 .. Cardinality(Encap) + 1
  BY <1>0 DEF ReaderInv
<1>10. QED
  BY <1>1, <1>2, <1>3, <1>4, <1>5, <1>6, <1>7, <1>8, <1>9 DEF FwdTypeOK

(* The two threads keep the tables, the lock and the pool well-formed, for *)
(* any next hops, results, MACs and any pool.                              *)
THEOREM FwdTypeCorrect == FwdSpec => []FwdTypeOK
<1> DEFINE Inv == ThreadsInv /\ RefInv /\ PoolInv
<1>1. FwdInit => Inv
  BY ThreadsInit, RefInit, PoolInit
<1>2. Inv /\ [FwdNext]_vars => Inv'
  BY ThreadsNext, RefNext, PoolNext DEF ThreadsInv, FwdInv
<1>3. QED
  BY <1>1, <1>2, FwdTypes, PTL DEF FwdSpec
=============================================================================
