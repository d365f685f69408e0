------------------------------ MODULE HalProofs -----------------------------
(***************************************************************************)
(* Proofs about the control plane, for any number of flows and slots, any  *)
(* hash functions and any test script.                                     *)
(***************************************************************************)
EXTENDS Hal, Integers, FiniteSetTheorems, TLAPS

LEMMA U32Positive == U32 \in Nat /\ U32 > 0
BY HalAssumption, FS_CardinalityType DEF Size

(* uint32_t counters keep their width. *)
LEMMA IncDecType ==
  ASSUME NEW c \in U32Range
  PROVE  Inc(c) \in U32Range /\ Dec(c) \in U32Range
BY U32Positive DEF U32Range, Inc, Dec

(* The slot an entry is found in is a slot of the table. *)
LEMMA SlotOfType ==
  ASSUME NEW f, InTable(f)
  PROVE  SlotOf(f) \in Slot /\ route_tbl[SlotOf(f)].flow = f
BY DEF InTable, SlotOf

LEMMA NewEntryType ==
  ASSUME NEW f \in Flow \cup {NoFlow}, NEW s \in Slot
  PROVE  NewEntry(f, s) \in [flow : Flow \cup {NoFlow}, nhop_id : Nat, aged : BOOLEAN]
BY HalAssumption DEF NewEntry

(* test_route is a finite script of calls on the test keys. *)
LEMMA TestScriptType ==
  /\ Len(TestScript) \in Nat
  /\ \A i \in 1 .. Len(TestScript) :
       /\ TestScript[i].op \in {"add", "get", "del", "usage"}
       /\ TestScript[i].key \in Flow \cup {NoFlow}
       /\ TestScript[i].op # "usage" => TestScript[i].key \in Flow
<1> DEFINE n == Len(TestKeys)
<1>1. n \in Nat /\ \A i \in 1 .. n : TestKeys[i] \in Flow
  BY HalAssumption
<1>2. Len(TestScript) = 3 * n + 1
  BY <1>1 DEF TestScript
<1>3. ASSUME NEW i \in 1 .. 3 * n + 1
      PROVE  /\ TestScript[i].op \in {"add", "get", "del", "usage"}
             /\ TestScript[i].key \in Flow \cup {NoFlow}
             /\ TestScript[i].op # "usage" => TestScript[i].key \in Flow
  <2>1. CASE i > 3 * n
    BY <2>1, <1>1 DEF TestScript
  <2>2. CASE i <= 3 * n
    <3>1. n > 0 /\ (i - 1) \div n \in 0 .. 2 /\ (i - 1) % n \in 0 .. n - 1
      BY <2>2, <1>1
    <3>2. QED
      BY <3>1, <2>2, <1>1 DEF TestScript
  <2>3. QED
    BY <2>1, <2>2, <1>1
<1>4. QED
  BY <1>1, <1>2, <1>3

-----------------------------------------------------------------------------
(* Type correctness, one lemma per group of actions. *)

Entry == [flow : Flow \cup {NoFlow}, nhop_id : Nat, aged : BOOLEAN]
State == [pc : Pc, op : Op, key : Flow \cup {NoFlow},
          status : {"none", "ok", "fail", "tagged"}, pos : Nat]
History == [reused : U32Range, added : U32Range, deleted : U32Range, untagged : U32Range]

LEMMA InitTypeOK == HalInit => HalTypeOK
<1> SUFFICES ASSUME HalInit PROVE HalTypeOK
  OBVIOUS
<1>1. 0 \in U32Range /\ ConstEntries \in U32Range
  BY U32Positive, HalAssumption DEF U32Range
<1>2. route_tbl \in [Slot -> Entry] /\ ghost \in History
  BY <1>1 DEF HalInit, Free, Entry, History
<1>3. Idle \in State /\ [Idle EXCEPT !.pc = "digest_init"] \in State
  BY DEF Idle, State, Pc, Op, InitPc, UnresetPc
<1>4. th \in [Thread -> State]
  BY <1>3 DEF HalInit
<1>5. /\ aged_replace \in BOOLEAN /\ aged_replace_flag \in BOOLEAN
      /\ index_repalce_action \in BOOLEAN
  BY Zenon DEF HalInit
<1>6. /\ entry_in_table_c \in U32Range /\ entry_aged_c \in U32Range
      /\ total_insert \in U32Range /\ total_aged \in U32Range
      /\ entry_ttl \in Nat
      /\ table_mutex_ \in Thread \cup {NoThread} /\ bfrtTableKey \in Flow \cup {NoFlow}
  BY <1>1, HalAssumption DEF HalInit
<1>7. digests \in Seq(Flow) /\ batch \in Seq(Flow) /\ registered \subseteq Thread
  BY DEF HalInit
<1>8. QED
  BY <1>2, <1>4, <1>5, <1>6, <1>7, Zenon DEF HalTypeOK, Entry, State, History

(* A call of the driver leaves a well-formed table and counters in range. *)
LEMMA DriverTypeOK ==
  ASSUME HalTypeOK, NEW t \in Thread, NEW f \in Flow \cup {NoFlow},
         \/ \E s \in Slot : AddFree(t, f, s) \/ AddReuse(t, f, s)
         \/ TagAged(f) \/ DelEntry(f)
         \/ UNCHANGED <<driverVars, ghost>>
  PROVE  /\ route_tbl' \in [Slot -> Entry]
         /\ entry_in_table_c' \in U32Range /\ entry_aged_c' \in U32Range
         /\ ghost' \in History
<1> USE DEF HalTypeOK, Entry, History
<1>1. ASSUME NEW s \in Slot, AddFree(t, f, s) \/ AddReuse(t, f, s)
      PROVE  /\ route_tbl' \in [Slot -> Entry]
             /\ entry_in_table_c' \in U32Range /\ entry_aged_c' \in U32Range
             /\ ghost' \in History
  <2>1. CASE AddFree(t, f, s)
    BY <2>1, IncDecType, NewEntryType DEF AddFree
  <2>2. CASE AddReuse(t, f, s)
    BY <2>2, IncDecType, NewEntryType DEF AddReuse
  <2>3. QED
    BY <1>1, <2>1, <2>2
<1>2. CASE TagAged(f)
  <2>1. SlotOf(f) \in Slot
    BY <1>2, SlotOfType DEF TagAged
  <2>2. route_tbl' \in [Slot -> Entry]
    BY <1>2, <2>1 DEF TagAged
  <2>3. QED
    BY <1>2, <2>2, IncDecType DEF TagAged
<1>3. CASE DelEntry(f)
  <2>1. SlotOf(f) \in Slot
    BY <1>3, SlotOfType DEF DelEntry
  <2>2. route_tbl' \in [Slot -> Entry]
    BY <1>3, <2>1 DEF DelEntry, Free
  <2>3. QED
    BY <1>3, <2>2, IncDecType DEF DelEntry
<1>4. CASE UNCHANGED <<driverVars, ghost>>
  BY <1>4 DEF driverVars
<1>5. QED
  BY <1>1, <1>2, <1>3, <1>4

(* Steps of a thread that only move it: call, return and jumps. *)
LEMMA ThreadTypeOK ==
  ASSUME HalTypeOK, NEW t \in Thread
  PROVE  /\ \A st \in {"none", "ok", "fail", "tagged"} :
              Return(t, st) => th' \in [Thread -> State]
         /\ \A o \in Op, f \in Flow \cup {NoFlow} : Call(t, o, f) => th' \in [Thread -> State]
         /\ \A p \in Pc : th' = [th EXCEPT ![t].pc = p] => th' \in [Thread -> State]
         /\ \A i \in State : th' = [th EXCEPT ![t] = i] => th' \in [Thread -> State]
<1>1. th \in [Thread -> State]
  BY DEF HalTypeOK, State
<1>2. ASSUME NEW i \in State, th' = [th EXCEPT ![t] = i]
      PROVE  th' \in [Thread -> State]
  BY <1>1, <1>2
<1>3. ASSUME NEW st \in {"none", "ok", "fail", "tagged"}, Return(t, st)
      PROVE  th' \in [Thread -> State]
  <2>1. [th[t] EXCEPT !.pc = "unlock", !.status = st] \in State
    BY <1>1 DEF State, Pc
  <2>2. QED
    BY <2>1, <1>2, <1>3 DEF Return
<1>4. ASSUME NEW o \in Op, NEW f \in Flow \cup {NoFlow}, Call(t, o, f)
      PROVE  th' \in [Thread -> State]
  <2>1. [th[t] EXCEPT !.pc = "lock", !.op = o, !.key = f] \in State
    BY <1>1 DEF State, Pc
  <2>2. QED
    BY <2>1, <1>2, <1>4 DEF Call
<1>5. ASSUME NEW p \in Pc, th' = [th EXCEPT ![t].pc = p]
      PROVE  th' \in [Thread -> State]
  BY <1>1, <1>5 DEF State
<1>6. QED
  BY <1>2, <1>3, <1>4, <1>5

(* The five bodies of a hal_route_* call. *)
LEMMA CallTypeOK ==
  ASSUME HalTypeOK, NEW t \in Thread, HalCall(t)
  PROVE  HalTypeOK'
<1> DEFINE Frame == /\ UNCHANGED <<aged_replace_flag, index_repalce_action>>
                    /\ UNCHANGED <<callVars, queueVars, statVars>>
<1>1. ASSUME th' \in [Thread -> State], Frame,
             route_tbl' \in [Slot -> Entry], entry_in_table_c' \in U32Range,
             entry_aged_c' \in U32Range, ghost' \in History,
             aged_replace' \in BOOLEAN, entry_ttl' \in Nat
      PROVE  HalTypeOK'
  BY <1>1 DEF HalTypeOK, Entry, State, History, callVars, queueVars, statVars
<1>2. bfrtTableKey \in Flow \cup {NoFlow} /\ aged_replace \in BOOLEAN /\ entry_ttl \in Nat
  BY DEF HalTypeOK
<1>3. CASE TableEntryAdd(t)
  <2>1. th' \in [Thread -> State]
    BY <1>3, ThreadTypeOK DEF TableEntryAdd
  <2>2. QED
    BY <2>1, <1>1, <1>2, <1>3, DriverTypeOK DEF TableEntryAdd, modeVars
<1>4. CASE TableEntryAge(t)
  <2>1. th' \in [Thread -> State]
    BY <1>4, ThreadTypeOK DEF TableEntryAge
  <2>2. QED
    BY <2>1, <1>1, <1>2, <1>4, DriverTypeOK DEF TableEntryAge, modeVars
<1>5. CASE TableEntryDel(t)
  <2>1. th' \in [Thread -> State]
    BY <1>5, ThreadTypeOK DEF TableEntryDel
  <2>2. QED
    BY <2>1, <1>1, <1>2, <1>5, DriverTypeOK DEF TableEntryDel, modeVars
<1>6. CASE TableRead(t)
  <2>1. th' \in [Thread -> State]
    BY <1>6, ThreadTypeOK DEF TableRead
  <2>2. QED
    BY <2>1, <1>1, <1>2, <1>6, DriverTypeOK DEF TableRead, modeVars
<1>7. CASE AgingTtlBalance(t)
  <2>1. aged_replace' \in BOOLEAN
    BY <1>7, <1>2, Zenon DEF AgingTtlBalance
  <2>2. entry_ttl' \in Nat
    BY <1>7, <1>2, HalAssumption DEF AgingTtlBalance
  <2>3. th' \in [Thread -> State]
    BY <1>7, ThreadTypeOK DEF AgingTtlBalance
  <2>4. QED
    BY <2>1, <2>2, <2>3, <1>1, <1>2, <1>7, DriverTypeOK DEF AgingTtlBalance
<1>8. QED
  BY <1>3, <1>4, <1>5, <1>6, <1>7 DEF HalCall

(* Everything a step of a callback or of main changes besides th. *)
LEMMA StepTypeOK ==
  ASSUME HalTypeOK, NEW t \in Thread, ThreadStep(t)
  PROVE  HalTypeOK'
<1> DEFINE Rest == UNCHANGED <<driverVars, ghost>>
<1> DEFINE Modes == UNCHANGED modeVars
<1>1. Idle \in State /\ NextDigest \in State
  BY DEF Idle, NextDigest, State, Pc, Op
<1>2. /\ {"lock", "call", "unlock", "returned", "test", "cli", "aging_init", "reset",
          "switches"} \subseteq Pc
      /\ {"add", "age", "del", "get", "usage", "balance"} \subseteq Op
      /\ "learn" \in Thread /\ "aging" \in Thread /\ "main" \in Thread
  BY DEF Pc, InitPc, UnresetPc, Op, Thread
<1>3. /\ \A st \in {"none", "ok", "fail", "tagged"} :
           Return(t, st) => th' \in [Thread -> State]
      /\ \A u \in Thread :
           /\ \A o \in Op, f \in Flow \cup {NoFlow} :
                Call(u, o, f) => th' \in [Thread -> State]
           /\ \A p \in Pc : th' = [th EXCEPT ![u].pc = p] => th' \in [Thread -> State]
           /\ \A i \in State : th' = [th EXCEPT ![u] = i] => th' \in [Thread -> State]
  BY ThreadTypeOK
<1>4. /\ batch \in Seq(Flow) /\ digests \in Seq(Flow) /\ registered \subseteq Thread
      /\ total_insert \in U32Range /\ total_aged \in U32Range
      /\ Inc(total_insert) \in U32Range /\ Inc(total_aged) \in U32Range
      /\ route_tbl \in [Slot -> Entry]
  BY IncDecType DEF HalTypeOK, Entry
<1>5. ASSUME th' \in [Thread -> State], Rest, Modes, UNCHANGED callVars,
             digests' \in Seq(Flow), batch' \in Seq(Flow), registered' \subseteq Thread,
             total_insert' \in U32Range, total_aged' \in U32Range
      PROVE  HalTypeOK'
  BY <1>5 DEF HalTypeOK, Entry, State, History, driverVars, modeVars, callVars
<1>6. CASE HalLock(t) \/ HalUnlock(t)
  <2>1. th' \in [Thread -> State]
    BY <1>2, <1>3, <1>6 DEF HalLock, HalUnlock
  <2>2. table_mutex_' \in Thread \cup {NoThread} /\ bfrtTableKey' \in Flow \cup {NoFlow}
    BY <1>6 DEF HalLock, HalUnlock, HalTypeOK
  <2>3. QED
    BY <2>1, <2>2, <1>6 DEF HalLock, HalUnlock, HalTypeOK, State,
                            driverVars, modeVars, queueVars, statVars
<1>7. CASE HalCall(t)
  BY <1>7, CallTypeOK
<1>8. ASSUME NEW n \in 1 .. QueueMax, LearnStart(n) PROVE HalTypeOK'
  <2>1. th' \in [Thread -> State]
    BY <1>1, <1>2, <1>3, <1>8 DEF LearnStart
  <2>2. digests' \in Seq(Flow) /\ batch' \in Seq(Flow)
    BY <1>4, <1>8 DEF LearnStart
  <2>3. QED
    BY <2>1, <2>2, <1>4, <1>5, <1>8 DEF LearnStart, statVars
<1>9. CASE LearnAdd
  <2>1. Head(batch) \in Flow /\ batch' \in Seq(Flow)
    BY <1>4, <1>9 DEF LearnAdd
  <2>2. th' \in [Thread -> State]
    BY <2>1, <1>2, <1>3, <1>9 DEF LearnAdd
  <2>3. QED
    BY <2>1, <2>2, <1>4, <1>5, <1>9 DEF LearnAdd, statVars
<1>10. CASE LearnAdded \/ AgingTagged
  <2>1. th' \in [Thread -> State]
    BY <1>1, <1>2, <1>3, <1>10 DEF LearnAdded, AgingTagged
  <2>2. total_insert' \in U32Range /\ total_aged' \in U32Range
    BY <1>4, <1>10 DEF LearnAdded, AgingTagged
  <2>3. QED
    BY <2>1, <2>2, <1>4, <1>5, <1>10 DEF LearnAdded, AgingTagged, queueVars
<1>11. CASE LearnBalanced \/ LearnAck \/ AgingBalanced
  BY <1>1, <1>2, <1>3, <1>4, <1>5, <1>11
     DEF LearnBalanced, LearnAck, AgingBalanced, queueVars, statVars
<1>12. ASSUME NEW s \in Slot, AgingStart(s) PROVE HalTypeOK'
  <2>1. route_tbl[s].flow \in Flow \cup {NoFlow}
    BY <1>4 DEF Entry
  <2>2. th' \in [Thread -> State]
    BY <2>1, <1>2, <1>3, <1>12 DEF AgingStart
  <2>3. QED
    BY <2>2, <1>4, <1>5, <1>12 DEF AgingStart, queueVars, statVars
<1>13. CASE ShcDigestInit \/ ShcAgingInit \/ RunCli
  <2>1. th' \in [Thread -> State]
    BY <1>2, <1>3, <1>13 DEF ShcDigestInit, ShcAgingInit, RunCli, Goto
  <2>2. registered' \subseteq Thread /\ UNCHANGED <<digests, batch>>
    BY <1>2, <1>4, <1>13 DEF ShcDigestInit, ShcAgingInit, RunCli, queueVars
  <2>3. QED
    BY <2>1, <2>2, <1>4, <1>5, <1>13 DEF ShcDigestInit, ShcAgingInit, RunCli, statVars
<1>14. CASE HalInitReset \/ MainSwitches
  <2>1. th' \in [Thread -> State]
    BY <1>2, <1>3, <1>14 DEF HalInitReset, MainSwitches, Goto
  <2>2. entry_in_table_c' \in U32Range /\ entry_aged_c' \in U32Range
    BY <1>14, U32Positive DEF HalInitReset, MainSwitches, driverVars, HalTypeOK, U32Range
  <2>3. /\ aged_replace' \in BOOLEAN /\ aged_replace_flag' \in BOOLEAN
        /\ index_repalce_action' \in BOOLEAN
    BY <1>14, Zenon DEF HalInitReset, MainSwitches, HalTypeOK
  <2>4. QED
    BY <2>1, <2>2, <2>3, <1>14 DEF HalInitReset, MainSwitches, HalTypeOK, State,
                                   driverVars, callVars, queueVars, statVars
<1>15. CASE TestRouteCall
  <2>1. th["main"].pos \in Nat
    BY <1>2 DEF HalTypeOK
  <2>2. th["main"].pos + 1 \in 1 .. Len(TestScript)
    BY <2>1, <1>15, TestScriptType DEF TestRouteCall
  <2>3. th' \in [Thread -> State]
    BY <2>2, <1>2, <1>3, <1>15, TestScriptType DEF TestRouteCall
  <2>4. QED
    BY <2>3, <1>4, <1>5, <1>15 DEF TestRouteCall, queueVars, statVars
<1>16. CASE TestRouteReturn
  <2>1. th["main"].pos \in Nat
    BY <1>2 DEF HalTypeOK
  <2>2. [Idle EXCEPT !.pc = "test", !.pos = th["main"].pos + 1] \in State
    <3>1. \A p \in Nat : [Idle EXCEPT !.pc = "test", !.pos = p] \in State
      BY DEF State, Idle, Pc, Op
    <3>2. th["main"].pos + 1 \in Nat
      BY <2>1
    <3>3. QED
      BY <3>1, <3>2, Zenon
  <2>3. th' \in [Thread -> State]
    BY <2>2, <1>2, <1>3, <1>16 DEF TestRouteReturn
  <2>4. QED
    BY <2>3, <1>4, <1>5, <1>16 DEF TestRouteReturn, queueVars, statVars
<1>17. QED
  BY <1>6, <1>7, <1>8, <1>9, <1>10, <1>11, <1>12, <1>13, <1>14, <1>15, <1>16 DEF ThreadStep

(***************************************************************************)
(* The state is well-formed in every reachable state of the control plane, *)
(* whatever the interleaving of the callbacks with main.                   *)
(***************************************************************************)
THEOREM HalTypeCorrect == HalSpec => []HalTypeOK
<1>1. HalTypeOK /\ [HalNext]_halVars => HalTypeOK'
  <2> SUFFICES ASSUME HalTypeOK, [HalNext]_halVars PROVE HalTypeOK'
    OBVIOUS
  <2>1. ASSUME NEW t \in Thread, ThreadStep(t) PROVE HalTypeOK'
    BY <2>1, StepTypeOK
  <2>2. ASSUME NEW f \in Flow, Report(f) PROVE HalTypeOK'
    <3>1. digests' \in Seq(Flow)
      BY <2>2 DEF Report, HalTypeOK
    <3>2. QED
      BY <3>1, <2>2 DEF Report, HalTypeOK, driverVars, modeVars, callVars, statVars
  <2>3. CASE UNCHANGED halVars
    BY <2>3 DEF halVars, HalTypeOK, driverVars, modeVars, callVars, queueVars, statVars
  <2>4. QED
    BY <2>1, <2>2, <2>3 DEF HalNext
<1>2. QED
  BY <1>1, InitTypeOK, PTL DEF HalSpec

-----------------------------------------------------------------------------
(***************************************************************************)
(* The driver always reads its caller's key from the shared buffer: a      *)
(* thread between lock and unlock holds the mutex alone.  Inductive with   *)
(* the types, since the buffer is written only by a thread that has just   *)
(* found the mutex free.                                                   *)
(***************************************************************************)
THEOREM BufferSafe == HalSpec => []BufferIsCallers
<1>1. HalInit => BufferIsCallers
  BY DEF HalInit, BufferIsCallers, Idle
<1>2. HalTypeOK /\ BufferIsCallers /\ [HalNext]_halVars => BufferIsCallers'
  <2> SUFFICES ASSUME HalTypeOK, BufferIsCallers, [HalNext]_halVars PROVE BufferIsCallers'
    OBVIOUS
  <2>1. th \in [Thread -> State] /\ NoThread \notin Thread
    BY HalAssumption DEF HalTypeOK, State
  <2>2. ASSUME NEW t \in Thread, HalLock(t) PROVE BufferIsCallers'
    BY <2>1, <2>2 DEF HalLock, BufferIsCallers, State
  <2>3. ASSUME NEW t \in Thread, HalUnlock(t) PROVE BufferIsCallers'
    BY <2>1, <2>3 DEF HalUnlock, BufferIsCallers, State
  <2>4. ASSUME NEW t \in Thread, HalCall(t) PROVE BufferIsCallers'
    <3>1. \E st : Return(t, st)
      BY <2>4 DEF HalCall, TableEntryAdd, TableEntryAge, TableEntryDel, TableRead,
                  AgingTtlBalance
    <3>2. th[t].pc = "call" /\ UNCHANGED callVars
      BY <2>4 DEF HalCall, TableEntryAdd, TableEntryAge, TableEntryDel, TableRead,
                  AgingTtlBalance
    <3>3. QED
      BY <3>1, <3>2, <2>1 DEF Return, BufferIsCallers, State, callVars
  <2>5. ASSUME NEW t \in Thread, NEW i, i.pc \notin {"call", "unlock"},
               th' = [th EXCEPT ![t] = i], UNCHANGED callVars
        PROVE  BufferIsCallers'
    BY <2>1, <2>5 DEF BufferIsCallers, callVars
  <2>6. ASSUME UNCHANGED <<th, callVars>> PROVE BufferIsCallers'
    BY <2>6 DEF BufferIsCallers, callVars
  <2>7. ASSUME NEW t \in Thread, NEW o, NEW f, Call(t, o, f), UNCHANGED callVars
        PROVE  BufferIsCallers'
    <3>1. [th[t] EXCEPT !.pc = "lock", !.op = o, !.key = f].pc = "lock"
      BY <2>1 DEF State
    <3>2. QED
      BY <3>1, <2>5, <2>7 DEF Call
  <2>8. ASSUME NEW t \in Thread, ThreadStep(t) PROVE BufferIsCallers'
    <3>1. "learn" \in Thread /\ "aging" \in Thread /\ "main" \in Thread
      BY DEF Thread
    <3>2. Idle.pc = "idle" /\ NextDigest.pc = "next"
      BY DEF Idle, NextDigest
    <3>3. CASE \E n \in 1 .. QueueMax : LearnStart(n)
      BY <3>1, <3>2, <3>3, <2>5 DEF LearnStart
    <3>4. CASE LearnAdd \/ (\E s \in Slot : AgingStart(s)) \/ TestRouteCall
      BY <3>1, <3>4, <2>7 DEF LearnAdd, AgingStart, TestRouteCall
    <3>5. CASE LearnAdded \/ AgingTagged
      BY <3>1, <3>2, <3>5, <2>5, <2>7 DEF LearnAdded, AgingTagged
    <3>6. CASE LearnBalanced \/ LearnAck \/ AgingBalanced
      BY <3>1, <3>2, <3>6, <2>5 DEF LearnBalanced, LearnAck, AgingBalanced
    <3>7. CASE TestRouteReturn
      <4>1. [Idle EXCEPT !.pc = "test", !.pos = th["main"].pos + 1].pc = "test"
        BY DEF Idle
      <4>2. QED
        BY <4>1, <3>1, <3>7, <2>5 DEF TestRouteReturn
    <3>8. CASE ShcDigestInit \/ ShcAgingInit \/ HalInitReset \/ MainSwitches \/ RunCli
      <4>1. /\ UNCHANGED callVars
            /\ \E p \in {"aging_init", "reset", "switches", "test", "cli"} :
                 th' = [th EXCEPT !["main"].pc = p]
        BY <3>8 DEF ShcDigestInit, ShcAgingInit, HalInitReset, MainSwitches, RunCli, Goto
      <4>2. QED
        BY <4>1, <3>1, <2>1 DEF BufferIsCallers, callVars, State
    <3>9. QED
      BY <3>3, <3>4, <3>5, <3>6, <3>7, <3>8, <2>2, <2>3, <2>4, <2>8 DEF ThreadStep
  <2>9. ASSUME NEW f \in Flow, Report(f) PROVE BufferIsCallers'
    BY <2>9, <2>6 DEF Report
  <2>10. CASE UNCHANGED halVars
    BY <2>10, <2>6 DEF halVars
  <2>11. QED
    BY <2>8, <2>9, <2>10 DEF HalNext
<1>3. QED
  BY <1>1, <1>2, HalTypeCorrect, PTL DEF HalSpec

-----------------------------------------------------------------------------
(***************************************************************************)
(* The strengthening for EntryCarriesIndex: while main is still in         *)
(* hal_init or before its switches, nothing has reached the callbacks and  *)
(* the table is empty; afterwards index_repalce_action is on for good.     *)
(***************************************************************************)
Quiet == /\ \A s \in Slot : route_tbl[s].flow = NoFlow
         /\ digests = <<>>
         /\ th["learn"].pc = "idle" /\ th["aging"].pc = "idle"

IndexInv ==
  /\ IF th["main"].pc \in InitPc THEN Quiet ELSE index_repalce_action
  /\ EntryCarriesIndex

(* The calls of the driver keep positions and indices together. *)
LEMMA CallKeepsIndex ==
  ASSUME HalTypeOK, IndexInv, NEW t \in Thread, HalCall(t)
  PROVE  IndexInv'
<1>1. th \in [Thread -> State] /\ route_tbl \in [Slot -> Entry]
  BY DEF HalTypeOK, State, Entry
<1>2. /\ th[t].pc = "call" /\ \E st : Return(t, st)
      /\ UNCHANGED index_repalce_action
  BY DEF HalCall, TableEntryAdd, TableEntryAge, TableEntryDel, TableRead,
         AgingTtlBalance, modeVars
<1>3. th["main"].pc \notin InitPc /\ index_repalce_action
  BY <1>1, <1>2 DEF IndexInv, Quiet, InitPc, UnresetPc, Thread
<1>4. th'["main"].pc \notin InitPc
  BY <1>1, <1>2, <1>3 DEF Return, State, InitPc, UnresetPc, Thread
<1>5. EntryCarriesIndex'
  <2> DEFINE f == bfrtTableKey
  <2>1. \A s \in Slot : route_tbl[s].flow # NoFlow => route_tbl[s].nhop_id = s
    BY DEF IndexInv, EntryCarriesIndex, Occupied
  <2>2. SUFFICES \A s \in Slot : route_tbl'[s].flow # NoFlow => route_tbl'[s].nhop_id = s
    BY DEF EntryCarriesIndex, Occupied
  <2>3. ASSUME NEW s \in Slot, AddFree(t, f, s) \/ AddReuse(t, f, s)
        PROVE  \A u \in Slot : route_tbl'[u].flow # NoFlow => route_tbl'[u].nhop_id = u
    <3>1. route_tbl' = [route_tbl EXCEPT ![s] = NewEntry(f, s)]
      BY <2>3 DEF AddFree, AddReuse
    <3>2. NewEntry(f, s).nhop_id = s
      BY <1>3 DEF NewEntry
    <3>3. QED
      BY <3>1, <3>2, <2>1, <1>1
  <2>4. CASE TagAged(f)
    <3>1. route_tbl' = [route_tbl EXCEPT ![SlotOf(f)].aged = TRUE] /\ SlotOf(f) \in Slot
      BY <2>4, SlotOfType DEF TagAged
    <3>2. QED
      BY <3>1, <2>1, <1>1 DEF Entry
  <2>5. CASE DelEntry(f)
    <3>1. route_tbl' = [route_tbl EXCEPT ![SlotOf(f)] = Free] /\ SlotOf(f) \in Slot
      BY <2>5, SlotOfType DEF DelEntry
    <3>2. QED
      BY <3>1, <2>1, <1>1 DEF Free
  <2>6. CASE UNCHANGED route_tbl
    BY <2>6, <2>1
  <2>7. QED
    BY <2>3, <2>4, <2>5, <2>6
       DEF HalCall, TableEntryAdd, TableEntryAge, TableEntryDel, TableRead,
           AgingTtlBalance, driverVars
<1>6. QED
  BY <1>2, <1>3, <1>4, <1>5 DEF IndexInv

(* The strengthening is an invariant when no packet arrives too early. *)
LEMMA IndexInvariant ==
  ASSUME EarlyTraffic = FALSE
  PROVE  HalSpec => []IndexInv
<1>1. HalInit => IndexInv
  BY DEF HalInit, IndexInv, Quiet, EntryCarriesIndex, Occupied, Idle, Free, InitPc, UnresetPc, Thread
<1>2. HalTypeOK /\ IndexInv /\ [HalNext]_halVars => IndexInv'
  <2> SUFFICES ASSUME HalTypeOK, IndexInv, [HalNext]_halVars PROVE IndexInv'
    OBVIOUS
  <2>1. th \in [Thread -> State]
    BY DEF HalTypeOK, State
  <2>2. "learn" \in Thread /\ "aging" \in Thread /\ "main" \in Thread
    BY DEF Thread
  <2>3. ASSUME UNCHANGED <<route_tbl, index_repalce_action>>, th["main"].pc \notin InitPc,
               th'["main"].pc \notin InitPc
        PROVE  IndexInv'
    BY <2>3 DEF IndexInv, EntryCarriesIndex, Occupied
  <2>4. ASSUME UNCHANGED <<route_tbl, digests>>, th["main"].pc \in InitPc,
               th'["main"].pc \in InitPc, th'["learn"] = th["learn"],
               th'["aging"] = th["aging"]
        PROVE  IndexInv'
    BY <2>4 DEF IndexInv, Quiet, EntryCarriesIndex, Occupied
  <2>5. ASSUME NEW t \in Thread, HalLock(t) \/ HalUnlock(t) PROVE IndexInv'
    <3>1. th["main"].pc \notin InitPc
      BY <2>1, <2>5 DEF HalLock, HalUnlock, IndexInv, Quiet, InitPc, UnresetPc, Thread
    <3>2. th'["main"].pc \notin InitPc
      BY <2>1, <2>5, <3>1 DEF HalLock, HalUnlock, InitPc, UnresetPc, State, Thread
    <3>3. QED
      BY <3>1, <3>2, <2>3, <2>5 DEF HalLock, HalUnlock, driverVars, modeVars
  <2>6. ASSUME NEW t \in Thread, HalCall(t) PROVE IndexInv'
    BY <2>6, CallKeepsIndex
  <2>7. CASE \/ \E n \in 1 .. QueueMax : LearnStart(n)
             \/ LearnAdd \/ LearnAdded \/ LearnBalanced \/ LearnAck
    <3>1. th["main"].pc \notin InitPc
      BY <2>7 DEF LearnStart, LearnAdd, LearnAdded, LearnBalanced, LearnAck, IndexInv, Quiet
    <3>2. th'["main"] = th["main"]
      BY <2>7, <2>1, <2>2
         DEF LearnStart, LearnAdd, LearnAdded, LearnBalanced, LearnAck, Call
    <3>3. QED
      BY <3>1, <3>2, <2>3, <2>7
         DEF LearnStart, LearnAdd, LearnAdded, LearnBalanced, LearnAck, driverVars, modeVars
  <2>8. CASE (\E s \in Slot : AgingStart(s)) \/ AgingTagged \/ AgingBalanced
    <3>1. th["main"].pc \notin InitPc
      BY <2>8 DEF AgingStart, AgingTagged, AgingBalanced, IndexInv, Quiet, Occupied
    <3>2. th'["main"] = th["main"]
      BY <2>8, <2>1, <2>2 DEF AgingStart, AgingTagged, AgingBalanced, Call
    <3>3. QED
      BY <3>1, <3>2, <2>3, <2>8 DEF AgingStart, AgingTagged, AgingBalanced,
                                    driverVars, modeVars
  <2>9. CASE ShcDigestInit \/ ShcAgingInit \/ HalInitReset
    BY <2>9, <2>4, <2>1, <2>2
       DEF ShcDigestInit, ShcAgingInit, HalInitReset, Goto, driverVars, queueVars,
           InitPc, UnresetPc, State
  <2>10. CASE MainSwitches
    <3>1. th'["main"].pc = "test" /\ index_repalce_action' /\ UNCHANGED route_tbl
      BY <2>10, <2>1, <2>2 DEF MainSwitches, Goto, driverVars, State
    <3>2. QED
      BY <3>1 DEF IndexInv, EntryCarriesIndex, Occupied, InitPc, UnresetPc
  <2>11. CASE TestRouteCall \/ TestRouteReturn \/ RunCli
    <3>1. th["main"].pc \notin InitPc
      BY <2>11 DEF TestRouteCall, TestRouteReturn, RunCli, Goto, InitPc, UnresetPc
    <3>2. th'["main"].pc \in {"lock", "test", "cli"}
      <4>1. CASE TestRouteCall
        BY <4>1, <2>1, <2>2 DEF TestRouteCall, Call, State
      <4>2. CASE TestRouteReturn
        <5>1. \A p : [Idle EXCEPT !.pc = "test", !.pos = p].pc = "test"
          BY DEF Idle
        <5>2. QED
          BY <4>2, <5>1, <2>1, <2>2 DEF TestRouteReturn
      <4>3. CASE RunCli
        BY <4>3, <2>1, <2>2 DEF RunCli, Goto, State
      <4>4. QED
        BY <4>1, <4>2, <4>3, <2>11
    <3>3. th'["main"].pc \notin InitPc
      BY <3>2 DEF InitPc, UnresetPc
    <3>4. QED
      BY <3>1, <3>3, <2>3, <2>11 DEF TestRouteCall, TestRouteReturn, RunCli,
                                     driverVars, modeVars
  <2>12. ASSUME NEW f \in Flow, Report(f) PROVE IndexInv'
    BY <2>12, <2>3 DEF Report, MayArrive, driverVars, modeVars
  <2>13. CASE UNCHANGED halVars
    BY <2>13 DEF halVars, driverVars, modeVars, queueVars, IndexInv, Quiet,
                 EntryCarriesIndex, Occupied
  <2>14. QED
    BY <2>5, <2>6, <2>7, <2>8, <2>9, <2>10, <2>11, <2>12, <2>13 DEF HalNext, ThreadStep
<1>3. QED
  BY <1>1, <1>2, HalTypeCorrect, PTL DEF HalSpec

(***************************************************************************)
(* Every entry of the table carries its own slot as nhop_id, provided that *)
(* no packet arrives before hal_init has returned and main has set its     *)
(* switches (without that, the run early_traffic shows what goes wrong).   *)
(***************************************************************************)
THEOREM IndexCoupled ==
  ASSUME EarlyTraffic = FALSE
  PROVE  HalSpec => []EntryCarriesIndex
<1>1. IndexInv => EntryCarriesIndex
  BY DEF IndexInv
<1>2. QED
  BY <1>1, IndexInvariant, PTL

-----------------------------------------------------------------------------
(* What the driver's counters mean, for any table size and any width of    *)
(* the counters that can hold it: they describe the hardware table, they   *)
(* balance with the totals of the callbacks, and entry_ttl is shortened    *)
(* only when the table itself is nearly exhausted.  As for IndexCoupled,   *)
(* no packet may arrive before main has set its switches.                  *)

-----------------------------------------------------------------------------
(* Arithmetic modulo U32.                                                  *)

LEMMA QuotientUnique ==
  \A q, p \in Int : \A r, s \in 0 .. U32 - 1 : q * U32 + r = p * U32 + s => q = p /\ r = s
BY U32Positive

LEMMA ModIs ==
  ASSUME NEW z \in Nat, NEW q \in Int, NEW r \in 0 .. U32 - 1, z = q * U32 + r
  PROVE  z % U32 = r
<1> DEFINE d == z \div U32
           m == z % U32
<1>1. z = d * U32 + m /\ m \in 0 .. U32 - 1 /\ d \in Int
  BY U32Positive
<1> HIDE DEF d, m
<1>2. d * U32 + m = q * U32 + r
  BY <1>1
<1>3. m = r
  BY <1>1, <1>2, QuotientUnique
<1>4. QED
  BY <1>3 DEF m

LEMMA ModPeriodic ==
  ASSUME NEW z \in Nat
  PROVE  (z + U32) % U32 = z % U32
<1>1. z = (z \div U32) * U32 + (z % U32) /\ z % U32 \in 0 .. U32 - 1 /\ z \div U32 \in Int
  BY U32Positive
<1>2. z + U32 \in Nat /\ (z \div U32) + 1 \in Int
  BY <1>1, U32Positive
<1>3. z + U32 = ((z \div U32) + 1) * U32 + (z % U32)
  BY <1>1, U32Positive
<1>4. QED
  BY <1>1, <1>2, <1>3, ModIs, Zenon

LEMMA ModSuccessor ==
  ASSUME NEW z \in Nat
  PROVE  (z + 1) % U32 = IF (z % U32) + 1 = U32 THEN 0 ELSE (z % U32) + 1
<1>1. z = (z \div U32) * U32 + (z % U32) /\ z % U32 \in 0 .. U32 - 1 /\ z \div U32 \in Int
  BY U32Positive
<1>2. z + 1 \in Nat /\ 0 \in 0 .. U32 - 1 /\ (z \div U32) + 1 \in Int
  BY <1>1, U32Positive
<1>3. CASE (z % U32) + 1 = U32
  <2>1. z + 1 = ((z \div U32) + 1) * U32 + 0
    BY <1>1, <1>3, U32Positive
  <2>2. QED
    BY <2>1, <1>1, <1>2, <1>3, ModIs, Zenon
<1>4. CASE (z % U32) + 1 # U32
  <2>1. z + 1 = (z \div U32) * U32 + ((z % U32) + 1)
    BY <1>1, <1>4, U32Positive
  <2>2. (z % U32) + 1 \in 0 .. U32 - 1
    BY <1>1, <1>4, U32Positive
  <2>3. QED
    BY <2>1, <2>2, <1>1, <1>2, <1>4, ModIs, Zenon
<1>5. QED
  BY <1>3, <1>4

(* Two sums that agree still agree after both have grown by one. *)
LEMMA ModBothGrow ==
  ASSUME NEW x \in Nat, NEW y \in Nat, x % U32 = y % U32
  PROVE  (x + 1) % U32 = (y + 1) % U32
BY ModSuccessor

(* The counters as the code computes them, without %. *)
LEMMA IncDecValue ==
  ASSUME NEW c \in U32Range
  PROVE  /\ Inc(c) = IF c + 1 = U32 THEN 0 ELSE c + 1
         /\ Dec(c) = IF c = 0 THEN U32 - 1 ELSE c - 1
<1>1. c \in Nat /\ c % U32 = c /\ c < U32
  BY U32Positive DEF U32Range
<1>2. Inc(c) = IF c + 1 = U32 THEN 0 ELSE c + 1
  BY <1>1, ModSuccessor DEF Inc
<1>3. Dec(c) = IF c = 0 THEN U32 - 1 ELSE c - 1
  <2>1. CASE c = 0
    <3>1. U32 - 1 \in Nat /\ U32 - 1 = 0 * U32 + (U32 - 1)
      BY U32Positive
    <3>2. (U32 - 1) % U32 = U32 - 1
      BY <3>1, U32Positive
    <3>3. QED
      BY <2>1, <3>2, U32Positive DEF Dec
  <2>2. CASE c # 0
    <3>1. c - 1 \in Nat /\ (c - 1) + U32 = c + U32 - 1 /\ (c - 1) % U32 = c - 1
      BY <1>1, <2>2, U32Positive
    <3>2. ((c - 1) + U32) % U32 = (c - 1) % U32
      BY <3>1, ModPeriodic
    <3>3. QED
      BY <2>2, <3>1, <3>2 DEF Dec
  <2>3. QED
    BY <2>1, <2>2
<1>4. QED
  BY <1>2, <1>3

(* A counter that grows, wrapping or not, makes its sum grow by one; one   *)
(* that shrinks while another grows leaves it alone.                       *)
LEMMA SumGrows ==
  ASSUME NEW c \in U32Range, NEW y \in Nat
  PROVE  (Inc(c) + y) % U32 = (c + y + 1) % U32
<1>1. c \in Nat /\ U32 \in Nat
  BY U32Positive DEF U32Range
<1>2. CASE c + 1 = U32
  <2>1. Inc(c) = 0 /\ c + y + 1 = y + U32
    BY <1>1, <1>2, IncDecValue
  <2>2. QED
    BY <2>1, ModPeriodic
<1>3. CASE c + 1 # U32
  <2>1. Inc(c) + y = c + y + 1
    BY <1>1, <1>3, IncDecValue
  <2>2. QED
    BY <2>1
<1>4. QED
  BY <1>2, <1>3

LEMMA SumKeeps ==
  ASSUME NEW c \in U32Range, NEW d \in U32Range, NEW y \in Nat
  PROVE  (Dec(c) + Inc(d) + y) % U32 = (c + d + y) % U32
<1>1. c \in Nat /\ d \in Nat /\ U32 \in Nat /\ c < U32 /\ d < U32
  BY U32Positive DEF U32Range
<1>2. Dec(c) \in Nat /\ Inc(d) \in Nat
  BY IncDecType, U32Positive DEF U32Range
<1> DEFINE z == (IF c = 0 THEN U32 - 1 ELSE c - 1) + y
<1>3. z \in Nat /\ Dec(c) + Inc(d) + y = Inc(d) + z /\ d + z + 1 = (IF c = 0 THEN U32 ELSE c) + d + y
  BY <1>1, <1>2, IncDecValue
<1>4. (Inc(d) + z) % U32 = (d + z + 1) % U32
  <2> HIDE DEF z
  <2> QED BY <1>3, SumGrows
<1>5. (d + z + 1) % U32 = (c + d + y) % U32
  <2>1. CASE c = 0
    <3>1. d + z + 1 = (d + y) + U32 /\ c + d + y = d + y /\ d + y \in Nat
      BY <1>1, <1>3, <2>1
    <3>2. QED
      BY <3>1, ModPeriodic
  <2>2. CASE c # 0
    BY <1>3, <2>2
  <2>3. QED
    BY <2>1, <2>2
<1>6. QED
  BY <1>3, <1>4, <1>5

-----------------------------------------------------------------------------
(* The counters describe the table.                                        *)

(* A call that adds, tags or deletes names a flow. *)
KeyInv ==
  \A t \in Thread :
    th[t].pc \in {"lock", "call"} /\ th[t].op \in {"add", "age", "del"} => th[t].key \in Flow

(* Only entries are tagged. *)
AgedInv == \A s \in Slot : route_tbl[s].aged => route_tbl[s].flow # NoFlow

TableInv == KeyInv /\ AgedInv /\ CountersDescribeTable

(* What Call, Return and the other moves of a thread leave behind. *)
LEMMA MoveValues ==
  ASSUME HalTypeOK, NEW t \in Thread
  PROVE  /\ \A st : Return(t, st) =>
              /\ th'[t].pc = "unlock" /\ th'[t].op = th[t].op /\ th'[t].key = th[t].key
              /\ th'[t].status = st
              /\ \A u \in Thread \ {t} : th'[u] = th[u]
         /\ \A o, f : Call(t, o, f) =>
              /\ th'[t].pc = "lock" /\ th'[t].op = o /\ th'[t].key = f
              /\ \A u \in Thread \ {t} : th'[u] = th[u]
         /\ \A p : th' = [th EXCEPT ![t].pc = p] =>
              /\ th'[t].pc = p /\ th'[t].op = th[t].op /\ th'[t].key = th[t].key
              /\ th'[t].status = th[t].status
              /\ \A u \in Thread \ {t} : th'[u] = th[u]
         /\ \A i : th' = [th EXCEPT ![t] = i] =>
              th'[t] = i /\ \A u \in Thread \ {t} : th'[u] = th[u]
<1>1. th \in [Thread -> State]
  BY DEF HalTypeOK, State
<1>2. ASSUME NEW st, Return(t, st)
      PROVE  /\ th'[t].pc = "unlock" /\ th'[t].op = th[t].op /\ th'[t].key = th[t].key
             /\ th'[t].status = st
             /\ \A u \in Thread \ {t} : th'[u] = th[u]
  BY <1>1, <1>2 DEF Return, State
<1>3. ASSUME NEW o, NEW f, Call(t, o, f)
      PROVE  /\ th'[t].pc = "lock" /\ th'[t].op = o /\ th'[t].key = f
             /\ \A u \in Thread \ {t} : th'[u] = th[u]
  BY <1>1, <1>3 DEF Call, State
<1>4. ASSUME NEW p, th' = [th EXCEPT ![t].pc = p]
      PROVE  /\ th'[t].pc = p /\ th'[t].op = th[t].op /\ th'[t].key = th[t].key
             /\ th'[t].status = th[t].status
             /\ \A u \in Thread \ {t} : th'[u] = th[u]
  BY <1>1, <1>4 DEF State
<1>5. ASSUME NEW i, th' = [th EXCEPT ![t] = i]
      PROVE  th'[t] = i /\ \A u \in Thread \ {t} : th'[u] = th[u]
  BY <1>1, <1>5
<1>6. QED
  BY <1>2, <1>3, <1>4, <1>5

(* A driver call is made by a thread that has its key in the buffer, after *)
(* main has set the switches; nothing but the tables and th changes.       *)
LEMMA CallFrame ==
  ASSUME HalTypeOK, IndexInv, NEW t \in Thread, HalCall(t)
  PROVE  /\ th[t].pc = "call"
         /\ th["main"].pc \notin InitPc /\ th'["main"].pc \notin InitPc
         /\ \E st : Return(t, st)
         /\ UNCHANGED statVars
<1>1. th[t].pc = "call" /\ (\E st : Return(t, st)) /\ UNCHANGED statVars
  BY DEF HalCall, TableEntryAdd, TableEntryAge, TableEntryDel, TableRead, AgingTtlBalance
<1>2. th["main"].pc \notin InitPc
  BY <1>1 DEF IndexInv, Quiet, InitPc, UnresetPc, Thread
<1>3. th'["main"].pc \notin InitPc
  BY <1>1, <1>2, MoveValues DEF InitPc, UnresetPc, Thread
<1>4. QED
  BY <1>1, <1>2, <1>3

LEMMA KeyInvNext ==
  ASSUME HalTypeOK, KeyInv, [HalNext]_halVars
  PROVE  KeyInv'
<1>1. "learn" \in Thread /\ "aging" \in Thread /\ "main" \in Thread
  BY DEF Thread
<1>2. ASSUME NEW t \in Thread, th'[t].pc \notin {"lock", "call"} \/ th'[t].key \in Flow
                               \/ th'[t].op \notin {"add", "age", "del"},
             \A u \in Thread \ {t} : th'[u] = th[u]
      PROVE  KeyInv'
  BY <1>2 DEF KeyInv
<1>3. ASSUME NEW t \in Thread, HalLock(t) \/ HalUnlock(t) PROVE KeyInv'
  <2>1. CASE HalLock(t)
    <3>1. th[t].pc = "lock" /\ th'[t].op = th[t].op /\ th'[t].key = th[t].key
          /\ \A u \in Thread \ {t} : th'[u] = th[u]
      BY <2>1, MoveValues DEF HalLock
    <3>2. QED
      BY <3>1, <1>2 DEF KeyInv
  <2>2. CASE HalUnlock(t)
    <3>1. th'[t].pc = "returned" /\ \A u \in Thread \ {t} : th'[u] = th[u]
      BY <2>2, MoveValues DEF HalUnlock
    <3>2. QED
      BY <3>1, <1>2
  <2>3. QED
    BY <1>3, <2>1, <2>2
<1>4. ASSUME NEW t \in Thread, HalCall(t) PROVE KeyInv'
  <2>1. \E st : Return(t, st)
    BY <1>4 DEF HalCall, TableEntryAdd, TableEntryAge, TableEntryDel, TableRead,
                AgingTtlBalance
  <2>2. QED
    BY <2>1, <1>2, MoveValues
<1>5. ASSUME NEW t \in Thread, NEW i, i.pc \notin {"lock", "call"},
             th' = [th EXCEPT ![t] = i]
      PROVE  KeyInv'
  <2>1. th'[t] = i /\ \A u \in Thread \ {t} : th'[u] = th[u]
    BY <1>5, MoveValues, Zenon
  <2>2. QED
    BY <2>1, <1>5, <1>2
<1>6. ASSUME NEW t \in Thread, NEW o, NEW f, Call(t, o, f),
             f \in Flow \/ o \notin {"add", "age", "del"}
      PROVE  KeyInv'
  BY <1>6, <1>2, MoveValues
<1>7. Idle.pc = "idle" /\ NextDigest.pc = "next"
  BY DEF Idle, NextDigest
<1>8. ASSUME NEW n, LearnStart(n) PROVE KeyInv'
  BY <1>1, <1>5, <1>7, <1>8 DEF LearnStart
<1>9. CASE LearnAdd
  <2>1. Head(batch) \in Flow
    BY <1>9 DEF LearnAdd, HalTypeOK
  <2>2. QED
    BY <2>1, <1>1, <1>6, <1>9 DEF LearnAdd
<1>10. CASE LearnAdded \/ AgingTagged
  BY <1>1, <1>5, <1>6, <1>7, <1>10 DEF LearnAdded, AgingTagged
<1>11. CASE LearnBalanced \/ LearnAck \/ AgingBalanced
  BY <1>1, <1>5, <1>7, <1>11 DEF LearnBalanced, LearnAck, AgingBalanced
<1>12. ASSUME NEW s \in Slot, AgingStart(s) PROVE KeyInv'
  <2>1. route_tbl[s].flow \in Flow
    BY <1>12 DEF AgingStart, Occupied, HalTypeOK
  <2>2. QED
    BY <2>1, <1>1, <1>6, <1>12 DEF AgingStart
<1>13. CASE ShcDigestInit \/ ShcAgingInit \/ HalInitReset \/ MainSwitches \/ RunCli
  <2>1. PICK p \in {"aging_init", "reset", "switches", "test", "cli"} :
          th' = [th EXCEPT !["main"].pc = p]
    BY <1>13 DEF ShcDigestInit, ShcAgingInit, HalInitReset, MainSwitches, RunCli, Goto
  <2>2. th'["main"].pc = p /\ \A u \in Thread \ {"main"} : th'[u] = th[u]
    BY <2>1, <1>1 DEF HalTypeOK
  <2>3. QED
    BY <2>2, <1>1, <1>2
<1>14. CASE TestRouteCall
  <2>1. th["main"].pos + 1 \in 1 .. Len(TestScript)
    BY <1>1, <1>14, TestScriptType DEF TestRouteCall, HalTypeOK
  <2>2. QED
    BY <2>1, <1>1, <1>6, <1>14, TestScriptType DEF TestRouteCall
<1>15. CASE TestRouteReturn
  <2>1. [Idle EXCEPT !.pc = "test", !.pos = th["main"].pos + 1].pc = "test"
    BY DEF Idle
  <2>2. QED
    BY <2>1, <1>1, <1>5, <1>15 DEF TestRouteReturn
<1>16. ASSUME NEW f \in Flow, Report(f) PROVE KeyInv'
  BY <1>16 DEF Report, KeyInv
<1>17. CASE UNCHANGED halVars
  BY <1>17 DEF halVars, KeyInv
<1>18. QED
  BY <1>3, <1>4, <1>8, <1>9, <1>10, <1>11, <1>12, <1>13, <1>14, <1>15, <1>16, <1>17
     DEF HalNext, ThreadStep

(* Adding and removing one slot. *)
LEMMA CountSlots ==
  ASSUME NEW S, S \subseteq Slot, NEW s \in Slot
  PROVE  /\ IsFiniteSet(S) /\ Cardinality(S) \in Nat /\ Cardinality(S) <= Size /\ Size < U32
         /\ s \notin S => Cardinality(S \cup {s}) = Cardinality(S) + 1
         /\ s \in S => Cardinality(S \ {s}) = Cardinality(S) - 1
<1>1. IsFiniteSet(Slot) /\ Size < U32
  BY HalAssumption
<1>2. IsFiniteSet(S) /\ Cardinality(S) <= Size
  BY <1>1, FS_Subset DEF Size
<1>3. Cardinality(S) \in Nat
  BY <1>2, FS_CardinalityType
<1>4. s \notin S => Cardinality(S \cup {s}) = Cardinality(S) + 1
  BY <1>2, FS_AddElement
<1>5. s \in S => Cardinality(S \ {s}) = Cardinality(S) - 1
  BY <1>2, FS_RemoveElement
<1>6. QED
  BY <1>1, <1>2, <1>3, <1>4, <1>5

(* A counter that equals the size of a set of slots follows it: the width  *)
(* of the counter is never reached.                                        *)
LEMMA CounterFollows ==
  ASSUME NEW S, S \subseteq Slot, NEW s \in Slot
  PROVE  /\ s \notin S => Inc(Cardinality(S)) = Cardinality(S \cup {s})
         /\ s \in S => Dec(Cardinality(S)) = Cardinality(S \ {s})
<1>1. /\ Cardinality(S) \in Nat /\ Cardinality(S) <= Size /\ Size < U32
      /\ s \notin S => Cardinality(S \cup {s}) = Cardinality(S) + 1
      /\ s \in S => Cardinality(S \ {s}) = Cardinality(S) - 1
  BY CountSlots
<1>2. Size \in Nat /\ U32 \in Nat
  BY HalAssumption, FS_CardinalityType DEF Size
<1>3. Cardinality(S) \in U32Range
  BY <1>1, <1>2 DEF U32Range
<1>4. CASE s \notin S
  <2>1. Cardinality(S \cup {s}) <= Size
    <3>1. S \cup {s} \subseteq Slot
      OBVIOUS
    <3>2. QED
      BY <3>1, CountSlots
  <2>2. QED
    BY <2>1, <1>1, <1>2, <1>3, <1>4, IncDecValue
<1>5. CASE s \in S
  <2>1. Cardinality(S \ {s}) \in Nat
    <3>1. S \ {s} \subseteq Slot
      OBVIOUS
    <3>2. QED
      BY <3>1, CountSlots
  <2>2. QED
    BY <2>1, <1>1, <1>2, <1>3, <1>5, IncDecValue
<1>6. QED
  BY <1>4, <1>5

(* The driver's operations keep table and counters together. *)
LEMMA DriverCounts ==
  ASSUME HalTypeOK, AgedInv, NEW t \in Thread, NEW f \in Flow,
         entry_in_table_c = Cardinality(Occupied), entry_aged_c = Cardinality(Aged),
         \/ \E s \in Slot : AddFree(t, f, s) \/ AddReuse(t, f, s)
         \/ TagAged(f) \/ DelEntry(f)
  PROVE  /\ AgedInv'
         /\ entry_in_table_c' = Cardinality(Occupied') /\ entry_aged_c' = Cardinality(Aged')
<1>1. route_tbl \in [Slot -> Entry] /\ NoFlow \notin Flow
  BY HalAssumption DEF HalTypeOK, Entry
<1>2. Occupied \subseteq Slot /\ Aged \subseteq Occupied
  BY DEF Occupied, Aged, AgedInv
<1>3. ASSUME NEW s \in Slot, AddFree(t, f, s)
      PROVE  /\ AgedInv'
             /\ entry_in_table_c' = Cardinality(Occupied')
             /\ entry_aged_c' = Cardinality(Aged')
  <2>1. route_tbl' = [route_tbl EXCEPT ![s] = NewEntry(f, s)] /\ s \notin Occupied
    BY <1>3 DEF AddFree
  <2>2. NewEntry(f, s).flow = f /\ ~NewEntry(f, s).aged
    BY DEF NewEntry
  <2>3. Occupied' = Occupied \cup {s} /\ Aged' = Aged /\ AgedInv'
    BY <1>1, <1>2, <2>1, <2>2 DEF Occupied, Aged, AgedInv
  <2>4. entry_in_table_c' = Inc(Cardinality(Occupied)) /\ entry_aged_c' = entry_aged_c
    BY <1>3 DEF AddFree
  <2>5. QED
    BY <1>2, <2>1, <2>3, <2>4, CounterFollows
<1>4. ASSUME NEW s \in Slot, AddReuse(t, f, s)
      PROVE  /\ AgedInv'
             /\ entry_in_table_c' = Cardinality(Occupied')
             /\ entry_aged_c' = Cardinality(Aged')
  <2>1. route_tbl' = [route_tbl EXCEPT ![s] = NewEntry(f, s)] /\ s \in Aged
    BY <1>4 DEF AddReuse
  <2>2. NewEntry(f, s).flow = f /\ ~NewEntry(f, s).aged
    BY DEF NewEntry
  <2>3. Occupied' = Occupied /\ Aged' = Aged \ {s} /\ AgedInv'
    BY <1>1, <1>2, <2>1, <2>2 DEF Occupied, Aged, AgedInv
  <2>4. entry_aged_c' = Dec(Cardinality(Aged)) /\ entry_in_table_c' = entry_in_table_c
    BY <1>4 DEF AddReuse
  <2>5. Aged \subseteq Slot
    BY <1>2
  <2>6. QED
    BY <2>1, <2>3, <2>4, <2>5, CounterFollows
<1>5. CASE TagAged(f)
  <2> DEFINE s == SlotOf(f)
  <2>1. s \in Slot /\ route_tbl[s].flow = f /\ ~route_tbl[s].aged
    BY <1>5, SlotOfType DEF TagAged
  <2>2. route_tbl' = [route_tbl EXCEPT ![s].aged = TRUE]
    BY <1>5 DEF TagAged
  <2>3. entry_aged_c' = Inc(Cardinality(Aged)) /\ entry_in_table_c' = entry_in_table_c
    BY <1>5 DEF TagAged
  <2> HIDE DEF s
  <2>4. Occupied' = Occupied /\ Aged' = Aged \cup {s} /\ AgedInv' /\ s \notin Aged
    BY <1>1, <1>2, <2>1, <2>2 DEF Occupied, Aged, AgedInv, Entry
  <2>5. Aged \subseteq Slot
    BY <1>2
  <2>6. QED
    BY <2>1, <2>3, <2>4, <2>5, CounterFollows
<1>6. CASE DelEntry(f)
  <2> DEFINE s == SlotOf(f)
  <2>1. s \in Slot /\ route_tbl[s].flow = f
    BY <1>6, SlotOfType DEF DelEntry
  <2>2. route_tbl' = [route_tbl EXCEPT ![s] = Free]
    BY <1>6 DEF DelEntry
  <2>3. /\ entry_in_table_c' = Dec(Cardinality(Occupied))
        /\ entry_aged_c' = IF route_tbl[s].aged THEN Dec(Cardinality(Aged)) ELSE entry_aged_c
    BY <1>6 DEF DelEntry
  <2> HIDE DEF s
  <2>4. Occupied' = Occupied \ {s} /\ Aged' = Aged \ {s} /\ AgedInv' /\ s \in Occupied
    BY <1>1, <1>2, <2>1, <2>2 DEF Occupied, Aged, AgedInv, Free
  <2>5. Aged \subseteq Slot /\ (s \in Aged <=> route_tbl[s].aged)
    BY <1>2, <2>1 DEF Aged
  <2>6. s \notin Aged => Aged \ {s} = Aged
    OBVIOUS
  <2>7. entry_in_table_c' = Cardinality(Occupied')
    BY <1>2, <2>1, <2>3, <2>4, CounterFollows
  <2>8. entry_aged_c' = Cardinality(Aged')
    BY <2>1, <2>3, <2>4, <2>5, <2>6, CounterFollows
  <2>9. QED
    BY <2>4, <2>7, <2>8
<1>7. QED
  BY <1>3, <1>4, <1>5, <1>6

LEMMA TableInvNext ==
  ASSUME HalTypeOK, BufferIsCallers, IndexInv, TableInv, [HalNext]_halVars
  PROVE  TableInv'
<1>1. KeyInv'
  BY KeyInvNext DEF TableInv
<1>2. SUFFICES AgedInv' /\ CountersDescribeTable'
  BY <1>1 DEF TableInv
<1>3. th \in [Thread -> State] /\ "main" \in Thread
  BY DEF HalTypeOK, State, Thread
<1>4. ASSUME UNCHANGED driverVars, th'["main"].pc \notin UnresetPc => th["main"].pc \notin UnresetPc
      PROVE  AgedInv' /\ CountersDescribeTable'
  BY <1>4 DEF TableInv, AgedInv, CountersDescribeTable, Occupied, Aged, driverVars
<1>5. ASSUME NEW t \in Thread, HalCall(t) PROVE AgedInv' /\ CountersDescribeTable'
  <2>1. th[t].pc = "call" /\ th["main"].pc \notin InitPc
    BY <1>5, CallFrame
  <2>2. entry_in_table_c = Cardinality(Occupied) /\ entry_aged_c = Cardinality(Aged)
    BY <2>1 DEF TableInv, CountersDescribeTable, InitPc
  <2>3. CASE UNCHANGED driverVars
    BY <2>1, <2>3, <1>4 DEF InitPc
  <2>4. CASE /\ th[t].op \in {"add", "age", "del"}
             /\ LET f == bfrtTableKey IN
                \/ \E s \in Slot : AddFree(t, f, s) \/ AddReuse(t, f, s)
                \/ TagAged(f) \/ DelEntry(f)
    <3>1. bfrtTableKey \in Flow
      BY <2>1, <2>4 DEF BufferIsCallers, TableInv, KeyInv
    <3>2. AgedInv
      BY DEF TableInv
    <3>3. QED
      BY <3>1, <3>2, <2>2, <2>4, DriverCounts DEF CountersDescribeTable
  <2>5. QED
    BY <1>5, <2>3, <2>4 DEF HalCall, TableEntryAdd, TableEntryAge, TableEntryDel, TableRead,
                            AgingTtlBalance
<1>6. ASSUME NEW t \in Thread, HalLock(t) \/ HalUnlock(t)
      PROVE  AgedInv' /\ CountersDescribeTable'
  <2>1. UNCHANGED driverVars
    BY <1>6 DEF HalLock, HalUnlock
  <2>2. th["main"].pc \in UnresetPc => th'["main"].pc \in UnresetPc
    BY <1>3, <1>6 DEF HalLock, HalUnlock, UnresetPc, State
  <2>3. QED
    BY <2>1, <2>2, <1>4
<1>7. CASE \/ \E n \in 1 .. QueueMax : LearnStart(n)
           \/ LearnAdd \/ LearnAdded \/ LearnBalanced \/ LearnAck
           \/ (\E s \in Slot : AgingStart(s)) \/ AgingTagged \/ AgingBalanced
  <2>1. th'["main"] = th["main"]
    BY <1>3, <1>7 DEF LearnStart, LearnAdd, LearnAdded, LearnBalanced, LearnAck,
                      AgingStart, AgingTagged, AgingBalanced, Call
  <2>2. UNCHANGED driverVars
    BY <1>7 DEF LearnStart, LearnAdd, LearnAdded, LearnBalanced, LearnAck,
                AgingStart, AgingTagged, AgingBalanced
  <2>3. QED
    BY <2>1, <2>2, <1>4
<1>8. CASE ShcDigestInit \/ ShcAgingInit \/ MainSwitches \/ RunCli
  <2>1. UNCHANGED driverVars
    BY <1>8 DEF ShcDigestInit, ShcAgingInit, MainSwitches, RunCli
  <2>2. th["main"].pc \in UnresetPc => th'["main"].pc \in UnresetPc
    BY <1>3, <1>8 DEF ShcDigestInit, ShcAgingInit, MainSwitches, RunCli, Goto, UnresetPc, State
  <2>3. QED
    BY <2>1, <2>2, <1>4
<1>9. CASE TestRouteCall \/ TestRouteReturn
  <2>1. UNCHANGED driverVars /\ th["main"].pc \in {"test", "returned"}
    BY <1>9 DEF TestRouteCall, TestRouteReturn
  <2>2. QED
    BY <2>1, <1>4 DEF UnresetPc
<1>10. CASE HalInitReset
  <2>1. \A s \in Slot : route_tbl[s].flow = NoFlow
    BY <1>10 DEF HalInitReset, Goto, IndexInv, Quiet, InitPc, UnresetPc
  <2>2. UNCHANGED route_tbl /\ entry_in_table_c' = 0 /\ entry_aged_c' = 0
    BY <1>10 DEF HalInitReset
  <2>3. AgedInv' /\ Occupied' = {} /\ Aged' = {}
    BY <2>1, <2>2 DEF TableInv, AgedInv, Occupied, Aged
  <2>4. QED
    BY <2>2, <2>3, FS_EmptySet DEF CountersDescribeTable
<1>11. ASSUME NEW f \in Flow, Report(f) PROVE AgedInv' /\ CountersDescribeTable'
  BY <1>4, <1>11 DEF Report
<1>12. CASE UNCHANGED halVars
  BY <1>4, <1>12 DEF halVars
<1>13. QED
  BY <1>5, <1>6, <1>7, <1>8, <1>9, <1>10, <1>11, <1>12 DEF HalNext, ThreadStep

LEMMA TableInvInit == HalInit => TableInv
<1> SUFFICES ASSUME HalInit PROVE TableInv
  OBVIOUS
<1>1. AgedInv /\ KeyInv
  BY DEF HalInit, AgedInv, KeyInv, Free, Idle
<1>2. th["main"].pc = "digest_init"
  BY DEF HalInit, Thread, Idle
<1>3. QED
  BY <1>1, <1>2 DEF TableInv, CountersDescribeTable, UnresetPc

LEMMA TableInvariant ==
  ASSUME EarlyTraffic = FALSE
  PROVE  HalSpec => []TableInv
<1>1. HalTypeOK /\ BufferIsCallers /\ IndexInv /\ TableInv /\ [HalNext]_halVars => TableInv'
  BY TableInvNext
<1>2. QED
  BY <1>1, TableInvInit, HalTypeCorrect, BufferSafe, IndexInvariant, PTL DEF HalSpec

(***************************************************************************)
(* From the end of hal_init on, the two counters the driver exports are    *)
(* the numbers of entries and of aged entries in the hardware table, for   *)
(* any interleaving of adds, tags and deletes of the three threads and any *)
(* table that fits the width of the counters.                              *)
(***************************************************************************)
THEOREM CountersCorrect ==
  ASSUME EarlyTraffic = FALSE
  PROVE  HalSpec => []CountersDescribeTable
<1>1. TableInv => CountersDescribeTable
  BY DEF TableInv
<1>2. QED
  BY <1>1, TableInvariant, PTL

(* The unsigned arithmetic of aging_ttl_balance yields the number of slots *)
(* an add could take: the free ones and the aged ones.                     *)
LEMMA AvailableIsCount ==
  ASSUME AgedInv, entry_in_table_c = Cardinality(Occupied), entry_aged_c = Cardinality(Aged)
  PROVE  Available = Size - Cardinality(Occupied) + Cardinality(Aged)
<1> DEFINE o == Cardinality(Occupied)
           a == Cardinality(Aged)
           x == Size - o + a
<1>1. IsFiniteSet(Slot) /\ Size < U32
  BY HalAssumption
<1>2. Occupied \subseteq Slot /\ Aged \subseteq Occupied
  BY DEF Occupied, Aged, AgedInv
<1>3. IsFiniteSet(Occupied) /\ o <= Size
  BY <1>1, <1>2, FS_Subset DEF Size
<1>4. IsFiniteSet(Aged) /\ a <= o
  BY <1>2, <1>3, FS_Subset
<1>5. o \in Nat /\ a \in Nat /\ Size \in Nat
  BY <1>1, <1>3, <1>4, FS_CardinalityType DEF Size
<1> HIDE DEF o, a
<1>6. x \in Nat /\ x < U32 /\ Size + U32 - o + a = x + U32
  BY <1>1, <1>3, <1>4, <1>5, U32Positive
<1>7. Available = (x + U32) % U32
  BY <1>6 DEF Available, o, a
<1> HIDE DEF x
<1>8. (x + U32) % U32 = x % U32 /\ x % U32 = x
  BY <1>6, ModPeriodic, U32Positive
<1>9. QED
  BY <1>7, <1>8 DEF x, o, a

LEMMA ShortenStep ==
  ASSUME HalTypeOK, IndexInv, TableInv, [HalNext]_halVars, entry_ttl' < entry_ttl
  PROVE  /\ aged_replace'
         /\ (Size - Cardinality(Occupied) + Cardinality(Aged)) * 100 < 15 * Size
<1>1. entry_ttl \in Nat
  BY DEF HalTypeOK
<1>2. entry_ttl' # entry_ttl
  BY <1>1
<1>3. PICK t \in Thread : AgingTtlBalance(t)
  BY <1>2 DEF HalNext, ThreadStep, HalCall, HalLock, HalUnlock, TableEntryAdd, TableEntryAge,
              TableEntryDel, TableRead, LearnStart, LearnAdd, LearnAdded, LearnBalanced,
              LearnAck, AgingStart, AgingTagged, AgingBalanced, ShcDigestInit, ShcAgingInit,
              HalInitReset, MainSwitches, TestRouteCall, TestRouteReturn, RunCli, Report,
              modeVars, halVars
<1>4. aged_replace' /\ FewAvailable
  BY <1>1, <1>3 DEF AgingTtlBalance
<1>5. th["main"].pc \notin UnresetPc
  BY <1>3, CallFrame DEF HalCall, InitPc
<1>6. Available = Size - Cardinality(Occupied) + Cardinality(Aged)
  BY <1>5, AvailableIsCount DEF TableInv, CountersDescribeTable
<1>7. QED
  BY <1>4, <1>6 DEF FewAvailable

(***************************************************************************)
(* A balance that shortens entry_ttl has found replacement on and fewer    *)
(* than 15 % of the slots of the hardware table free or aged, although it  *)
(* computes this share from two counters in unsigned arithmetic.           *)
(***************************************************************************)
THEOREM ShortenJustified ==
  ASSUME EarlyTraffic = FALSE
  PROVE  HalSpec => ShortenOnlyWhenFull
<1>1. HalTypeOK /\ IndexInv /\ TableInv /\ [HalNext]_halVars
        => [entry_ttl' < entry_ttl =>
              /\ aged_replace'
              /\ (Size - Cardinality(Occupied) + Cardinality(Aged)) * 100 < 15 * Size]_entry_ttl
  BY ShortenStep
<1>2. QED
  BY <1>1, HalTypeCorrect, IndexInvariant, TableInvariant, PTL DEF HalSpec, ShortenOnlyWhenFull

-----------------------------------------------------------------------------
(* The counters balance with the totals of the callbacks.                  *)

(* Which thread makes which calls: only the learn callback and main add,   *)
(* only the idle-time callback tags.                                       *)
CallerInv ==
  /\ th["learn"].op \in {"none", "add", "balance"}
  /\ th["aging"].op \in {"none", "age", "balance"}
  /\ th["main"].op \in {"none", "add", "get", "del", "usage"}

(* Nothing has been counted before main has set its switches. *)
NothingCounted ==
  /\ total_insert = 0 /\ total_aged = 0
  /\ ghost = [reused |-> 0, added |-> 0, deleted |-> 0, untagged |-> 0]

LedgerInv ==
  /\ CallerInv
  /\ th["main"].pc \in InitPc => NothingCounted
  /\ CountsConserved

LEMMA CallerInvNext ==
  ASSUME HalTypeOK, CallerInv, [HalNext]_halVars
  PROVE  CallerInv'
<1>1. "learn" \in Thread /\ "aging" \in Thread /\ "main" \in Thread
  BY DEF Thread
<1>2. ASSUME NEW t \in Thread, th'[t].op = th[t].op, \A u \in Thread \ {t} : th'[u] = th[u]
      PROVE  CallerInv'
  BY <1>1, <1>2 DEF CallerInv
<1>3. ASSUME NEW t \in Thread, HalLock(t) \/ HalUnlock(t) PROVE CallerInv'
  <2>1. th'[t].op = th[t].op /\ \A u \in Thread \ {t} : th'[u] = th[u]
    BY <1>3, MoveValues DEF HalLock, HalUnlock
  <2>2. QED
    BY <2>1, <1>2
<1>4. ASSUME NEW t \in Thread, HalCall(t) PROVE CallerInv'
  <2>1. \E st : Return(t, st)
    BY <1>4 DEF HalCall, TableEntryAdd, TableEntryAge, TableEntryDel, TableRead,
                AgingTtlBalance
  <2>2. QED
    BY <2>1, <1>2, MoveValues
<1>5. Idle.op = "none" /\ NextDigest.op = "none"
  BY DEF Idle, NextDigest
<1>6. ASSUME /\ \/ \E o \in {"none", "add", "balance"} : \E f : Call("learn", o, f)
                \/ \E i : i.op = "none" /\ th' = [th EXCEPT !["learn"] = i]
      PROVE  CallerInv'
  <2>1. th'["learn"].op \in {"none", "add", "balance"} /\ \A u \in Thread \ {"learn"} : th'[u] = th[u]
    BY <1>1, <1>6, MoveValues
  <2>2. QED
    BY <2>1, <1>1 DEF CallerInv
<1>7. ASSUME /\ \/ \E o \in {"none", "age", "balance"} : \E f : Call("aging", o, f)
                \/ \E i : i.op = "none" /\ th' = [th EXCEPT !["aging"] = i]
      PROVE  CallerInv'
  <2>1. th'["aging"].op \in {"none", "age", "balance"} /\ \A u \in Thread \ {"aging"} : th'[u] = th[u]
    BY <1>1, <1>7, MoveValues
  <2>2. QED
    BY <2>1, <1>1 DEF CallerInv
<1>8. CASE \/ \E n \in 1 .. QueueMax : LearnStart(n)
           \/ LearnAdd \/ LearnAdded \/ LearnBalanced \/ LearnAck
  BY <1>5, <1>6, <1>8 DEF LearnStart, LearnAdd, LearnAdded, LearnBalanced, LearnAck
<1>9. CASE (\E s \in Slot : AgingStart(s)) \/ AgingTagged \/ AgingBalanced
  BY <1>5, <1>7, <1>9 DEF AgingStart, AgingTagged, AgingBalanced
<1>10. CASE ShcDigestInit \/ ShcAgingInit \/ HalInitReset \/ MainSwitches \/ RunCli
  <2>1. \E p : th' = [th EXCEPT !["main"].pc = p]
    BY <1>10 DEF ShcDigestInit, ShcAgingInit, HalInitReset, MainSwitches, RunCli, Goto
  <2>2. th'["main"].op = th["main"].op /\ \A u \in Thread \ {"main"} : th'[u] = th[u]
    BY <2>1, <1>1 DEF HalTypeOK
  <2>3. QED
    BY <2>2, <1>1, <1>2
<1>11. CASE TestRouteCall
  <2>1. th["main"].pos + 1 \in 1 .. Len(TestScript)
    BY <1>1, <1>11, TestScriptType DEF TestRouteCall, HalTypeOK
  <2>2. \E o \in {"add", "get", "del", "usage"} : \E f : Call("main", o, f)
    BY <2>1, <1>11, TestScriptType DEF TestRouteCall
  <2>3. /\ th'["main"].op \in {"add", "get", "del", "usage"}
        /\ \A u \in Thread \ {"main"} : th'[u] = th[u]
    BY <2>2, <1>1, MoveValues
  <2>4. QED
    BY <2>3, <1>1 DEF CallerInv
<1>12. CASE TestRouteReturn
  <2>1. [Idle EXCEPT !.pc = "test", !.pos = th["main"].pos + 1].op = "none"
    BY DEF Idle
  <2>2. th'["main"].op = "none" /\ \A u \in Thread \ {"main"} : th'[u] = th[u]
    BY <2>1, <1>1, <1>12 DEF TestRouteReturn, HalTypeOK
  <2>3. QED
    BY <2>2, <1>1 DEF CallerInv
<1>13. ASSUME NEW f \in Flow, Report(f) PROVE CallerInv'
  BY <1>13 DEF Report, CallerInv
<1>14. CASE UNCHANGED halVars
  BY <1>14 DEF halVars, CallerInv
<1>15. QED
  BY <1>3, <1>4, <1>8, <1>9, <1>10, <1>11, <1>12, <1>13, <1>14 DEF HalNext, ThreadStep

(* The two balances of CountsConserved. *)
EntryBalance ==
  (entry_in_table_c + ghost.deleted + ghost.reused) % U32
    = (total_insert + Pending("learn", "add", "ok") + ghost.added) % U32
AgedBalance ==
  (entry_aged_c + ghost.reused + ghost.untagged) % U32
    = (total_aged + Pending("aging", "age", "tagged")) % U32

LEMMA LedgerType ==
  ASSUME HalTypeOK
  PROVE  /\ entry_in_table_c \in U32Range /\ entry_aged_c \in U32Range
         /\ ghost.deleted \in U32Range /\ ghost.reused \in U32Range
         /\ ghost.added \in U32Range /\ ghost.untagged \in U32Range
         /\ total_insert \in U32Range /\ total_aged \in U32Range
         /\ ghost \in History
BY U32Positive DEF HalTypeOK, History, U32Range

(* Every counter, and what it becomes, is a natural number. *)
LEMMA CounterNat ==
  ASSUME NEW c \in U32Range
  PROVE  c \in Nat /\ Inc(c) \in Nat /\ Dec(c) \in Nat
BY IncDecType, U32Positive DEF U32Range

(* Each operation of the driver, with what its caller is about to add. *)
LEMMA AddBalances ==
  ASSUME HalTypeOK, CallerInv, EntryBalance, AgedBalance,
         NEW t \in Thread, th[t].pc = "call", th[t].op = "add", Return(t, "ok"),
         UNCHANGED statVars,
         NEW f, NEW s, AddFree(t, f, s) \/ AddReuse(t, f, s)
  PROVE  EntryBalance' /\ AgedBalance'
<1> DEFINE p == Pending("learn", "add", "ok")
           q == Pending("aging", "age", "tagged")
<1>1. t \in {"learn", "main"} /\ "learn" \in Thread /\ "aging" \in Thread
  BY DEF CallerInv, Thread
<1>2. /\ th'[t].pc = "unlock" /\ th'[t].op = "add" /\ th'[t].status = "ok"
      /\ \A u \in Thread \ {t} : th'[u] = th[u]
  BY MoveValues
<1>3. q' = q /\ q \in {0, 1}
  BY <1>1, <1>2 DEF Pending
<1>4. p \in {0, 1} /\ p' = (IF t = "learn" THEN p + 1 ELSE p)
  BY <1>1, <1>2 DEF Pending
<1>5. UNCHANGED <<total_insert, total_aged>>
  BY DEF statVars
<1>6. /\ entry_in_table_c \in Nat /\ Inc(entry_in_table_c) \in Nat
      /\ entry_aged_c \in Nat /\ Dec(entry_aged_c) \in Nat
      /\ ghost.deleted \in Nat /\ ghost.untagged \in Nat /\ total_insert \in Nat
      /\ ghost.reused \in Nat /\ Inc(ghost.reused) \in Nat
      /\ ghost.added \in Nat /\ Inc(ghost.added) \in Nat
  BY LedgerType, CounterNat
<1> HIDE DEF p, q
<1>7. ASSUME NEW x \in Nat, NEW y \in Nat,
             (x % U32) = (total_insert + p + ghost.added) % U32,
             ghost'.added = IF t = "main" THEN Inc(ghost.added) ELSE ghost.added,
             y % U32 = (x + 1) % U32
      PROVE  y % U32 = (total_insert' + p' + ghost'.added) % U32
  <2>1. ghost.added \in U32Range
    BY LedgerType
  <2> DEFINE z == total_insert + p
  <2>2. z \in Nat /\ z + ghost.added \in Nat /\ ghost.added \in Nat
    BY <1>4, <1>6
  <2>3. (x + 1) % U32 = (z + ghost.added + 1) % U32
    BY <1>7, <2>2, ModBothGrow
  <2>4. (total_insert' + p' + ghost'.added) % U32 = (z + ghost.added + 1) % U32
    <3>1. CASE t = "main"
      <4>1. ghost'.added = Inc(ghost.added) /\ total_insert' + p' = z
        BY <3>1, <1>4, <1>5, <1>7
      <4> HIDE DEF z
      <4>2. (Inc(ghost.added) + z) % U32 = (ghost.added + z + 1) % U32
        BY <2>1, <2>2, SumGrows
      <4>3. Inc(ghost.added) + z = z + Inc(ghost.added) /\ ghost.added + z + 1 = z + ghost.added + 1
        BY <2>2, <1>6
      <4>4. QED
        BY <4>1, <4>2, <4>3
    <3>2. CASE t = "learn"
      <4>1. total_insert' + p' + ghost'.added = z + ghost.added + 1
        BY <3>2, <1>4, <1>5, <1>6, <1>7, <2>2
      <4>2. QED
        BY <4>1
    <3>3. QED
      BY <1>1, <3>1, <3>2
  <2>5. QED
    BY <1>7, <2>3, <2>4
<1>8. CASE AddFree(t, f, s)
  <2>1. /\ entry_in_table_c' = Inc(entry_in_table_c) /\ entry_aged_c' = entry_aged_c
        /\ ghost'.added = IF t = "main" THEN Inc(ghost.added) ELSE ghost.added
        /\ ghost'.deleted = ghost.deleted /\ ghost'.reused = ghost.reused
        /\ ghost'.untagged = ghost.untagged
    BY <1>8, LedgerType DEF AddFree, History
  <2> DEFINE d == ghost.deleted + ghost.reused
             x == entry_in_table_c + d
             y == Inc(entry_in_table_c) + d
  <2>2. /\ d \in Nat /\ x \in Nat /\ y \in Nat
        /\ x = entry_in_table_c + ghost.deleted + ghost.reused
        /\ y = entry_in_table_c' + ghost'.deleted + ghost'.reused
    BY <2>1, <1>6
  <2>3. y % U32 = (x + 1) % U32
    <3> HIDE DEF d
    <3>1. QED BY <2>2, LedgerType, SumGrows
  <2>4. x % U32 = (total_insert + p + ghost.added) % U32
    BY <2>2 DEF EntryBalance, p
  <2> HIDE DEF x, y
  <2>5. y % U32 = (total_insert' + p' + ghost'.added) % U32
    BY <1>7, <2>1, <2>2, <2>3, <2>4
  <2>6. EntryBalance'
    BY <2>2, <2>5 DEF EntryBalance, p
  <2>7. AgedBalance'
    BY <2>1, <1>3, <1>5 DEF AgedBalance, q
  <2>8. QED
    BY <2>6, <2>7
<1>9. CASE AddReuse(t, f, s)
  <2>1. /\ entry_in_table_c' = entry_in_table_c /\ entry_aged_c' = Dec(entry_aged_c)
        /\ ghost'.added = IF t = "main" THEN Inc(ghost.added) ELSE ghost.added
        /\ ghost'.deleted = ghost.deleted /\ ghost'.reused = Inc(ghost.reused)
        /\ ghost'.untagged = ghost.untagged
    BY <1>9, LedgerType DEF AddReuse, History
  <2> DEFINE d == entry_in_table_c + ghost.deleted
             x == ghost.reused + d
             y == Inc(ghost.reused) + d
  <2>2. /\ d \in Nat /\ x \in Nat /\ y \in Nat
        /\ x = entry_in_table_c + ghost.deleted + ghost.reused
        /\ y = entry_in_table_c' + ghost'.deleted + ghost'.reused
    BY <2>1, <1>6
  <2>3. y % U32 = (x + 1) % U32
    <3> HIDE DEF d
    <3>1. QED BY <2>2, LedgerType, SumGrows
  <2>4. x % U32 = (total_insert + p + ghost.added) % U32
    BY <2>2 DEF EntryBalance, p
  <2> HIDE DEF x, y
  <2>5. y % U32 = (total_insert' + p' + ghost'.added) % U32
    BY <1>7, <2>1, <2>2, <2>3, <2>4
  <2>6. EntryBalance'
    BY <2>2, <2>5 DEF EntryBalance, p
  <2>7. (Dec(entry_aged_c) + Inc(ghost.reused) + ghost.untagged) % U32
          = (entry_aged_c + ghost.reused + ghost.untagged) % U32
    <3>1. entry_aged_c \in U32Range /\ ghost.reused \in U32Range
      BY LedgerType
    <3>2. QED BY <3>1, <1>6, SumKeeps
  <2>8. AgedBalance'
    BY <2>1, <2>7, <1>3, <1>5 DEF AgedBalance, q
  <2>9. QED
    BY <2>6, <2>8
<1>10. QED
  BY <1>8, <1>9

LEMMA TagBalances ==
  ASSUME HalTypeOK, CallerInv, EntryBalance, AgedBalance,
         NEW t \in Thread, th[t].pc = "call", th[t].op = "age", Return(t, "tagged"),
         UNCHANGED statVars,
         NEW f, TagAged(f)
  PROVE  EntryBalance' /\ AgedBalance'
<1> DEFINE p == Pending("learn", "add", "ok")
           q == Pending("aging", "age", "tagged")
           y == ghost.reused + ghost.untagged
           z == total_aged
<1>1. t = "aging" /\ "learn" \in Thread /\ "aging" \in Thread
  BY DEF CallerInv, Thread
<1>2. /\ th'[t].pc = "unlock" /\ th'[t].op = "age" /\ th'[t].status = "tagged"
      /\ \A u \in Thread \ {t} : th'[u] = th[u]
  BY MoveValues
<1>3. p' = p /\ q = 0 /\ q' = 1
  BY <1>1, <1>2 DEF Pending
<1>4. /\ entry_in_table_c' = entry_in_table_c /\ ghost' = ghost
      /\ entry_aged_c' = Inc(entry_aged_c) /\ total_insert' = total_insert /\ total_aged' = z
  BY DEF TagAged, statVars
<1>5. entry_aged_c \in U32Range /\ ghost.reused \in U32Range /\ ghost.untagged \in U32Range
      /\ total_aged \in U32Range
  BY LedgerType
<1>6. entry_aged_c \in Nat /\ Inc(entry_aged_c) \in Nat /\ z \in Nat
      /\ ghost.reused \in Nat /\ ghost.untagged \in Nat
  BY <1>5, CounterNat
<1>7. y \in Nat /\ entry_aged_c + ghost.reused + ghost.untagged = entry_aged_c + y
      /\ Inc(entry_aged_c) + ghost.reused + ghost.untagged = Inc(entry_aged_c) + y
  BY <1>6
<1>8. EntryBalance'
  BY <1>3, <1>4 DEF EntryBalance, p
<1> HIDE DEF p, q, y, z
<1>9. (Inc(entry_aged_c) + y) % U32 = (entry_aged_c + y + 1) % U32
  BY <1>5, <1>7, SumGrows
<1>10. (entry_aged_c + y) % U32 = z % U32
  <2>1. (entry_aged_c + ghost.reused + ghost.untagged) % U32 = (z + 0) % U32
    BY <1>3 DEF AgedBalance, q, z
  <2>2. QED
    BY <2>1, <1>6, <1>7
<1>11. (entry_aged_c + y + 1) % U32 = (z + 1) % U32
  <2>1. entry_aged_c + y \in Nat
    BY <1>6, <1>7
  <2>2. QED
    BY <2>1, <1>6, <1>10, ModBothGrow
<1>12. AgedBalance'
  <2>1. (entry_aged_c' + ghost'.reused + ghost'.untagged) % U32 = (total_aged' + q') % U32
    BY <1>3, <1>4, <1>7, <1>9, <1>11
  <2>2. QED
    BY <2>1 DEF AgedBalance, q
<1>13. QED
  BY <1>8, <1>12

LEMMA DelBalances ==
  ASSUME HalTypeOK, CallerInv, EntryBalance, AgedBalance,
         NEW t \in Thread, th[t].pc = "call", th[t].op = "del", Return(t, "ok"),
         UNCHANGED statVars,
         NEW f, DelEntry(f)
  PROVE  EntryBalance' /\ AgedBalance'
<1> DEFINE p == Pending("learn", "add", "ok")
           q == Pending("aging", "age", "tagged")
<1>1. t = "main" /\ "learn" \in Thread /\ "aging" \in Thread
  BY DEF CallerInv, Thread
<1>2. th'["learn"] = th["learn"] /\ th'["aging"] = th["aging"]
  BY <1>1, MoveValues
<1>3. p' = p /\ q' = q
  BY <1>2 DEF Pending
<1>4. entry_in_table_c \in U32Range /\ ghost.deleted \in U32Range
      /\ ghost.reused \in U32Range /\ ghost.untagged \in U32Range /\ entry_aged_c \in U32Range
  BY LedgerType
<1>5. /\ entry_aged_c \in Nat /\ Dec(entry_aged_c) \in Nat
      /\ ghost.reused \in Nat /\ ghost.untagged \in Nat /\ Inc(ghost.untagged) \in Nat
  BY <1>4, CounterNat
<1>6. /\ entry_in_table_c' = Dec(entry_in_table_c) /\ ghost'.deleted = Inc(ghost.deleted)
      /\ ghost'.reused = ghost.reused /\ ghost'.added = ghost.added
      /\ total_insert' = total_insert /\ total_aged' = total_aged
  BY LedgerType DEF DelEntry, History, statVars
<1>7. \/ entry_aged_c' = entry_aged_c /\ ghost'.untagged = ghost.untagged
      \/ entry_aged_c' = Dec(entry_aged_c) /\ ghost'.untagged = Inc(ghost.untagged)
  BY LedgerType DEF DelEntry, History
<1>8. EntryBalance'
  <2>1. (Dec(entry_in_table_c) + Inc(ghost.deleted) + ghost.reused) % U32
          = (entry_in_table_c + ghost.deleted + ghost.reused) % U32
    BY <1>4, <1>5, SumKeeps
  <2>2. QED
    BY <2>1, <1>3, <1>6 DEF EntryBalance, p
<1>9. AgedBalance'
  <2>1. (Dec(entry_aged_c) + Inc(ghost.untagged) + ghost.reused) % U32
          = (entry_aged_c + ghost.untagged + ghost.reused) % U32
    BY <1>4, <1>5, SumKeeps
  <2>2. /\ Dec(entry_aged_c) + ghost.reused + Inc(ghost.untagged)
             = Dec(entry_aged_c) + Inc(ghost.untagged) + ghost.reused
        /\ entry_aged_c + ghost.reused + ghost.untagged
             = entry_aged_c + ghost.untagged + ghost.reused
    BY <1>5
  <2>3. (entry_aged_c' + ghost'.reused + ghost'.untagged) % U32
          = (entry_aged_c + ghost.reused + ghost.untagged) % U32
    BY <2>1, <2>2, <1>6, <1>7
  <2>4. QED
    BY <2>3, <1>3, <1>6 DEF AgedBalance, q
<1>10. QED
  BY <1>8, <1>9

(* A step that changes no counter and no pending result changes no balance. *)
LEMMA BalancesKept ==
  ASSUME EntryBalance, AgedBalance,
         UNCHANGED <<entry_in_table_c, entry_aged_c, ghost, total_insert, total_aged>>,
         Pending("learn", "add", "ok")' = Pending("learn", "add", "ok"),
         Pending("aging", "age", "tagged")' = Pending("aging", "age", "tagged")
  PROVE  EntryBalance' /\ AgedBalance'
<1> DEFINE p == Pending("learn", "add", "ok")
           q == Pending("aging", "age", "tagged")
<1>1. p' = p /\ q' = q
  OBVIOUS
<1>2. /\ (entry_in_table_c + ghost.deleted + ghost.reused) % U32
           = (total_insert + p + ghost.added) % U32
      /\ (entry_aged_c + ghost.reused + ghost.untagged) % U32 = (total_aged + q) % U32
  BY DEF EntryBalance, AgedBalance
<1> HIDE DEF p, q
<1>3. /\ (entry_in_table_c' + ghost'.deleted + ghost'.reused) % U32
           = (total_insert' + p' + ghost'.added) % U32
      /\ (entry_aged_c' + ghost'.reused + ghost'.untagged) % U32 = (total_aged' + q') % U32
  BY <1>1, <1>2
<1>4. QED
  BY <1>3 DEF EntryBalance, AgedBalance, p, q

(* A driver call keeps the balances: what it changes in the counters, it   *)
(* changes in the history or leaves for its caller to add.                 *)
LEMMA CallBalances ==
  ASSUME HalTypeOK, CallerInv, EntryBalance, AgedBalance, NEW t \in Thread, HalCall(t)
  PROVE  EntryBalance' /\ AgedBalance'
<1>1. "learn" \in Thread /\ "aging" \in Thread
  BY DEF Thread
<1>2. th[t].pc = "call" /\ UNCHANGED statVars
  BY DEF HalCall, TableEntryAdd, TableEntryAge, TableEntryDel, TableRead, AgingTtlBalance
<1>3. ASSUME UNCHANGED <<driverVars, ghost>>, NEW st, Return(t, st),
             st = "fail" \/ th[t].op \in {"get", "usage", "balance"}
      PROVE  EntryBalance' /\ AgedBalance'
  <2>1. /\ th'[t].pc = "unlock" /\ th'[t].op = th[t].op /\ th'[t].status = st
        /\ \A u \in Thread \ {t} : th'[u] = th[u]
    BY <1>3, MoveValues
  <2>2. /\ Pending("learn", "add", "ok")' = Pending("learn", "add", "ok")
        /\ Pending("aging", "age", "tagged")' = Pending("aging", "age", "tagged")
    BY <2>1, <1>1, <1>2, <1>3 DEF Pending
  <2>3. UNCHANGED <<entry_in_table_c, entry_aged_c, ghost, total_insert, total_aged>>
    BY <1>2, <1>3 DEF driverVars, statVars
  <2>4. QED
    BY <2>2, <2>3, BalancesKept
<1>4. CASE TableEntryAdd(t)
  BY <1>2, <1>3, <1>4, AddBalances DEF TableEntryAdd
<1>5. CASE TableEntryAge(t)
  BY <1>2, <1>3, <1>5, TagBalances DEF TableEntryAge
<1>6. CASE TableEntryDel(t)
  BY <1>2, <1>3, <1>6, DelBalances DEF TableEntryDel
<1>7. CASE TableRead(t)
  BY <1>3, <1>7 DEF TableRead
<1>8. CASE AgingTtlBalance(t)
  BY <1>3, <1>8 DEF AgingTtlBalance
<1>9. QED
  BY <1>4, <1>5, <1>6, <1>7, <1>8 DEF HalCall

(* A callback that returns to its loop adds exactly what it has achieved. *)
LEMMA TotalsBalance ==
  ASSUME HalTypeOK, EntryBalance, AgedBalance, LearnAdded \/ AgingTagged
  PROVE  EntryBalance' /\ AgedBalance'
<1> DEFINE p == Pending("learn", "add", "ok")
           q == Pending("aging", "age", "tagged")
<1>1. "learn" \in Thread /\ "aging" \in Thread /\ Idle.pc = "idle" /\ NextDigest.pc = "next"
  BY DEF Thread, Idle, NextDigest
<1>2. total_insert \in U32Range /\ total_aged \in U32Range /\ ghost.added \in U32Range
  BY LedgerType
<1>3. /\ total_insert \in Nat /\ Inc(total_insert) \in Nat
      /\ total_aged \in Nat /\ Inc(total_aged) \in Nat /\ ghost.added \in Nat /\ 0 \in Nat
  BY <1>2, CounterNat
<1>4. CASE LearnAdded
  <2>1. th'["learn"].pc \in {"lock", "next"} /\ th'["aging"] = th["aging"]
    BY <1>1, <1>4, MoveValues DEF LearnAdded
  <2>2. p' = 0 /\ q' = q
    BY <2>1 DEF Pending
  <2>3. UNCHANGED <<entry_in_table_c, entry_aged_c, ghost, total_aged>>
    BY <1>4 DEF LearnAdded, driverVars
  <2>4. \/ p = 1 /\ total_insert' = Inc(total_insert)
        \/ p = 0 /\ total_insert' = total_insert
    BY <1>4 DEF LearnAdded, Pending
  <2>5. (total_insert' + p' + ghost'.added) % U32 = (total_insert + p + ghost.added) % U32
    <3> HIDE DEF p, q
    <3>1. CASE p = 1 /\ total_insert' = Inc(total_insert)
      <4>1. (Inc(total_insert) + ghost.added) % U32 = (total_insert + ghost.added + 1) % U32
        BY <1>2, <1>3, SumGrows
      <4>2. /\ total_insert' + p' + ghost'.added = Inc(total_insert) + ghost.added
            /\ total_insert + p + ghost.added = total_insert + ghost.added + 1
        BY <2>2, <2>3, <3>1, <1>3
      <4>3. QED
        BY <4>1, <4>2
    <3>2. CASE p = 0 /\ total_insert' = total_insert
      BY <3>2, <2>2, <2>3
    <3>3. QED
      BY <2>4, <3>1, <3>2
  <2>6. EntryBalance'
    BY <2>3, <2>5 DEF EntryBalance, p
  <2>7. AgedBalance'
    BY <2>2, <2>3 DEF AgedBalance, q
  <2>8. QED
    BY <2>6, <2>7
<1>5. CASE AgingTagged
  <2>1. th'["aging"].pc \in {"lock", "idle"} /\ th'["learn"] = th["learn"]
    BY <1>1, <1>5, MoveValues DEF AgingTagged
  <2>2. q' = 0 /\ p' = p
    BY <2>1 DEF Pending
  <2>3. UNCHANGED <<entry_in_table_c, entry_aged_c, ghost, total_insert>>
    BY <1>5 DEF AgingTagged, driverVars
  <2>4. \/ q = 1 /\ total_aged' = Inc(total_aged)
        \/ q = 0 /\ total_aged' = total_aged
    BY <1>5 DEF AgingTagged, Pending
  <2>5. (total_aged' + q') % U32 = (total_aged + q) % U32
    <3> HIDE DEF p, q
    <3>1. CASE q = 1 /\ total_aged' = Inc(total_aged)
      <4>1. (Inc(total_aged) + 0) % U32 = (total_aged + 0 + 1) % U32
        BY <1>2, <1>3, SumGrows
      <4>2. total_aged' + q' = Inc(total_aged) + 0 /\ total_aged + q = total_aged + 0 + 1
        BY <2>2, <3>1, <1>3
      <4>3. QED
        BY <4>1, <4>2
    <3>2. CASE q = 0 /\ total_aged' = total_aged
      BY <3>2, <2>2
    <3>3. QED
      BY <2>4, <3>1, <3>2
  <2>6. EntryBalance'
    BY <2>2, <2>3 DEF EntryBalance, p
  <2>7. AgedBalance'
    BY <2>3, <2>5 DEF AgedBalance, q
  <2>8. QED
    BY <2>6, <2>7
<1>6. QED
  BY <1>4, <1>5

LEMMA LedgerInvNext ==
  ASSUME HalTypeOK, IndexInv, LedgerInv, [HalNext]_halVars
  PROVE  LedgerInv'
<1> DEFINE Kept == /\ th["main"].pc \notin UnresetPc => EntryBalance' /\ AgedBalance'
                   /\ th["main"].pc \in UnresetPc /\ th'["main"].pc \notin UnresetPc
                        => EntryBalance' /\ AgedBalance'
                   /\ th'["main"].pc \in InitPc => NothingCounted'
<1>1. CallerInv /\ CallerInv'
  BY CallerInvNext DEF LedgerInv
<1>2. SUFFICES Kept
  BY <1>1 DEF LedgerInv, CountsConserved, EntryBalance, AgedBalance
<1>3. "learn" \in Thread /\ "aging" \in Thread /\ "main" \in Thread
  BY DEF Thread
<1>4. th["main"].pc \notin UnresetPc => EntryBalance /\ AgedBalance
  BY DEF LedgerInv, CountsConserved, EntryBalance, AgedBalance
<1>5. ASSUME UNCHANGED <<entry_in_table_c, entry_aged_c, ghost, total_insert, total_aged>>,
             Pending("learn", "add", "ok")' = Pending("learn", "add", "ok"),
             Pending("aging", "age", "tagged")' = Pending("aging", "age", "tagged"),
             th'["main"].pc \in InitPc => th["main"].pc \in InitPc,
             th["main"].pc \in UnresetPc => th'["main"].pc \in UnresetPc
      PROVE  Kept
  <2>1. th["main"].pc \notin UnresetPc => EntryBalance' /\ AgedBalance'
    BY <1>4, <1>5, BalancesKept
  <2>2. th'["main"].pc \in InitPc => NothingCounted'
    BY <1>5 DEF LedgerInv, NothingCounted
  <2>3. QED
    BY <2>1, <2>2, <1>5
<1>6. ASSUME NEW t \in Thread, HalCall(t) PROVE Kept
  <2>1. th["main"].pc \notin InitPc /\ th'["main"].pc \notin InitPc
    BY <1>6, CallFrame
  <2>2. QED
    BY <1>1, <1>4, <1>6, <2>1, CallBalances DEF InitPc
<1>7. ASSUME NEW t \in Thread, HalLock(t) \/ HalUnlock(t) PROVE Kept
  <2>1. /\ th'[t].op = th[t].op /\ th'[t].status = th[t].status
        /\ \A u \in Thread \ {t} : th'[u] = th[u]
        /\ \/ th[t].pc = "lock" /\ th'[t].pc = "call"
           \/ th[t].pc = "unlock" /\ th'[t].pc = "returned"
    BY <1>7, MoveValues DEF HalLock, HalUnlock
  <2>2. /\ Pending("learn", "add", "ok")' = Pending("learn", "add", "ok")
        /\ Pending("aging", "age", "tagged")' = Pending("aging", "age", "tagged")
    BY <2>1, <1>3 DEF Pending
  <2>3. UNCHANGED <<entry_in_table_c, entry_aged_c, ghost, total_insert, total_aged>>
    BY <1>7 DEF HalLock, HalUnlock, driverVars, statVars
  <2>4. /\ th'["main"].pc \in InitPc => th["main"].pc \in InitPc
        /\ th["main"].pc \in UnresetPc => th'["main"].pc \in UnresetPc
    BY <2>1, <1>3 DEF InitPc, UnresetPc
  <2>5. QED
    BY <2>2, <2>3, <2>4, <1>5
<1>8. CASE LearnAdded \/ AgingTagged
  <2>1. th["main"].pc \notin InitPc
    BY <1>8 DEF LearnAdded, AgingTagged, IndexInv, Quiet
  <2>2. th'["main"] = th["main"]
    BY <1>3, <1>8, MoveValues DEF LearnAdded, AgingTagged
  <2>3. QED
    BY <1>4, <1>8, <2>1, <2>2, TotalsBalance DEF InitPc
<1>9. CASE \/ \E n \in 1 .. QueueMax : LearnStart(n)
           \/ LearnAdd \/ LearnBalanced \/ LearnAck
  <2>1. th'["main"] = th["main"] /\ th'["aging"] = th["aging"]
    BY <1>3, <1>9, MoveValues DEF LearnStart, LearnAdd, LearnBalanced, LearnAck
  <2>2. th'["learn"].pc \in {"lock", "next", "idle"}
    <3>1. Idle.pc = "idle" /\ NextDigest.pc = "next"
      BY DEF Idle, NextDigest
    <3>2. CASE \E n \in 1 .. QueueMax : LearnStart(n)
      BY <3>1, <3>2, <1>3, MoveValues DEF LearnStart
    <3>3. CASE LearnAdd
      BY <3>1, <3>3, <1>3, MoveValues DEF LearnAdd
    <3>4. CASE LearnBalanced
      BY <3>1, <3>4, <1>3, MoveValues DEF LearnBalanced
    <3>5. CASE LearnAck
      BY <3>1, <3>5, <1>3, MoveValues DEF LearnAck
    <3>6. QED
      BY <1>9, <3>2, <3>3, <3>4, <3>5
  <2>3. th["learn"].pc \in {"idle", "next"} \/ th["learn"].op = "balance"
    BY <1>9 DEF LearnStart, LearnAdd, LearnBalanced, LearnAck
  <2>4. UNCHANGED <<entry_in_table_c, entry_aged_c, ghost, total_insert, total_aged>>
    BY <1>9 DEF LearnStart, LearnAdd, LearnBalanced, LearnAck, driverVars, statVars
  <2>5. /\ Pending("learn", "add", "ok")' = Pending("learn", "add", "ok")
        /\ Pending("aging", "age", "tagged")' = Pending("aging", "age", "tagged")
    BY <2>1, <2>2, <2>3 DEF Pending
  <2>6. QED
    BY <2>1, <2>4, <2>5, <1>5
<1>10. CASE (\E s \in Slot : AgingStart(s)) \/ AgingBalanced
  <2>1. th'["main"] = th["main"] /\ th'["learn"] = th["learn"]
    BY <1>3, <1>10, MoveValues DEF AgingStart, AgingBalanced
  <2>2. th'["aging"].pc \in {"lock", "idle"}
    BY <1>3, <1>10, MoveValues DEF AgingStart, AgingBalanced, Idle
  <2>3. th["aging"].pc = "idle" \/ th["aging"].op = "balance"
    BY <1>10 DEF AgingStart, AgingBalanced
  <2>4. UNCHANGED <<entry_in_table_c, entry_aged_c, ghost, total_insert, total_aged>>
    BY <1>10 DEF AgingStart, AgingBalanced, driverVars, statVars
  <2>5. /\ Pending("learn", "add", "ok")' = Pending("learn", "add", "ok")
        /\ Pending("aging", "age", "tagged")' = Pending("aging", "age", "tagged")
    BY <2>1, <2>2, <2>3 DEF Pending
  <2>6. QED
    BY <2>1, <2>4, <2>5, <1>5
<1>11. ASSUME th'["learn"] = th["learn"], th'["aging"] = th["aging"]
       PROVE  /\ Pending("learn", "add", "ok")' = Pending("learn", "add", "ok")
              /\ Pending("aging", "age", "tagged")' = Pending("aging", "age", "tagged")
  BY <1>11 DEF Pending
<1>12. CASE ShcDigestInit \/ ShcAgingInit \/ MainSwitches \/ RunCli
  <2>1. th'["learn"] = th["learn"] /\ th'["aging"] = th["aging"]
    BY <1>3, <1>12 DEF ShcDigestInit, ShcAgingInit, MainSwitches, RunCli, Goto, HalTypeOK
  <2>2. /\ th'["main"].pc \in InitPc => th["main"].pc \in InitPc
        /\ th["main"].pc \in UnresetPc => th'["main"].pc \in UnresetPc
    BY <1>3, <1>12 DEF ShcDigestInit, ShcAgingInit, MainSwitches, RunCli, Goto, HalTypeOK,
                       InitPc, UnresetPc
  <2>3. UNCHANGED <<entry_in_table_c, entry_aged_c, ghost, total_insert, total_aged>>
    BY <1>12 DEF ShcDigestInit, ShcAgingInit, MainSwitches, RunCli, driverVars, statVars
  <2>4. QED
    BY <2>1, <2>2, <2>3, <1>5, <1>11
<1>13. CASE HalInitReset
  <2>1. th'["learn"] = th["learn"] /\ th'["aging"] = th["aging"]
    BY <1>3, <1>13 DEF HalInitReset, Goto, HalTypeOK
  <2>2. th["main"].pc \in InitPc /\ th["main"].pc \in UnresetPc
    BY <1>13 DEF HalInitReset, Goto, InitPc, UnresetPc
  <2>3. th["learn"].pc = "idle" /\ th["aging"].pc = "idle"
    BY <2>2 DEF IndexInv, Quiet
  <2>4. Pending("learn", "add", "ok")' = 0 /\ Pending("aging", "age", "tagged")' = 0
    BY <2>1, <2>3 DEF Pending
  <2>5. NothingCounted /\ UNCHANGED <<ghost, total_insert, total_aged>>
    BY <2>2, <1>13 DEF LedgerInv, HalInitReset, statVars
  <2>6. /\ entry_in_table_c' = 0 /\ entry_aged_c' = 0 /\ total_insert' = 0 /\ total_aged' = 0
        /\ ghost'.reused = 0 /\ ghost'.added = 0 /\ ghost'.deleted = 0 /\ ghost'.untagged = 0
    BY <2>5, <1>13 DEF NothingCounted, HalInitReset
  <2>7. EntryBalance' /\ AgedBalance'
    BY <2>4, <2>6 DEF EntryBalance, AgedBalance
  <2>8. NothingCounted'
    BY <2>5 DEF NothingCounted
  <2>9. QED
    BY <2>2, <2>7, <2>8
<1>14. CASE TestRouteCall \/ TestRouteReturn
  <2>1. th'["learn"] = th["learn"] /\ th'["aging"] = th["aging"]
    BY <1>3, <1>14, MoveValues DEF TestRouteCall, TestRouteReturn
  <2>2. th["main"].pc \in {"test", "returned"} /\ th'["main"].pc \in {"lock", "test"}
    <3>1. [Idle EXCEPT !.pc = "test", !.pos = th["main"].pos + 1].pc = "test"
      BY DEF Idle
    <3>2. CASE TestRouteCall
      BY <3>2, <1>3, MoveValues DEF TestRouteCall
    <3>3. CASE TestRouteReturn
      BY <3>1, <3>3, <1>3 DEF TestRouteReturn, HalTypeOK
    <3>4. QED
      BY <1>14, <3>2, <3>3
  <2>3. UNCHANGED <<entry_in_table_c, entry_aged_c, ghost, total_insert, total_aged>>
    BY <1>14 DEF TestRouteCall, TestRouteReturn, driverVars, statVars
  <2>4. QED
    BY <2>1, <2>2, <2>3, <1>5, <1>11 DEF InitPc, UnresetPc
<1>15. CASE (\E f \in Flow : Report(f)) \/ UNCHANGED halVars
  <2>1. UNCHANGED <<entry_in_table_c, entry_aged_c, ghost, total_insert, total_aged, th>>
    BY <1>15 DEF Report, halVars, driverVars, statVars
  <2>2. QED
    BY <2>1, <1>5, <1>11
<1>16. QED
  BY <1>6, <1>7, <1>8, <1>9, <1>10, <1>12, <1>13, <1>14, <1>15 DEF HalNext, ThreadStep

LEMMA LedgerInvInit == HalInit => LedgerInv
<1> SUFFICES ASSUME HalInit PROVE LedgerInv
  OBVIOUS
<1>1. th["main"].pc = "digest_init" /\ \A t \in Thread : th[t].op = "none"
  BY DEF HalInit, Thread, Idle
<1>2. CallerInv
  BY <1>1 DEF CallerInv, Thread
<1>3. NothingCounted
  BY DEF HalInit, NothingCounted
<1>4. QED
  BY <1>1, <1>2, <1>3 DEF LedgerInv, CountsConserved, UnresetPc

(***************************************************************************)
(* The entries the driver counts are the offloads learn_callback counted   *)
(* and the test's adds, less deletes and reused slots, and likewise for    *)
(* aged entries, at every point of every interleaving and across any       *)
(* number of wraps of the 32-bit counters.                                 *)
(***************************************************************************)
THEOREM LedgerBalances ==
  ASSUME EarlyTraffic = FALSE
  PROVE  HalSpec => []CountsConserved
<1>1. HalTypeOK /\ IndexInv /\ LedgerInv /\ [HalNext]_halVars => LedgerInv'
  BY LedgerInvNext
<1>2. LedgerInv => CountsConserved
  BY DEF LedgerInv
<1>3. QED
  BY <1>1, <1>2, LedgerInvInit, HalTypeCorrect, IndexInvariant, PTL DEF HalSpec
=============================================================================
