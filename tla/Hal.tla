-------------------------------- MODULE Hal ---------------------------------
(***************************************************************************)
(* The control plane of the switch (platform/drivers): class Route and the *)
(* hal_route_* API over route_tbl, the learn callback that offloads the    *)
(* flows the sketch reports, the idle-time callback that tags entries as   *)
(* aged, and the main thread that initialises both and runs test_route.    *)
(*                                                                         *)
(* The three threads meet at one std::mutex, one key buffer and the        *)
(* counters the patched SDE driver exports.  A hal_route_* call is three   *)
(* steps of its thread: lock and fill the buffer, call the driver, unlock. *)
(* The driver itself is not in the repository: AddFree, AddReuse, TagAged  *)
(* and DelEntry say what the callers rely on.                              *)
(***************************************************************************)
EXTENDS Naturals, Sequences, FiniteSets

CONSTANTS Flow,          \* (src, dst) pairs: the key of route_tbl
          TestKeys,      \* the keys test_route adds and deletes, a sequence of flows
          Slot,          \* positions of route_tbl
          Candidates,    \* Candidates[f]: the slots f hashes to
          NoFlow,        \* content of a free slot and of the unused key buffer
          NoThread,      \* the mutex is free
          U32,           \* 2^32, the modulus of uint32_t counters
          TtlInit,       \* initial entry_ttl: 5000
          TtlFloor,      \* entry_ttl is lowered only above this value: 60
          TtlStep,       \* by this much: 5
          TtlBound,      \* model bound: entry_ttl is not raised beyond it
          QueueMax,      \* digests the hardware holds before it drops
          ConstEntries,  \* entries the driver has counted before hal_init: the
                         \* four constant ones of cuckoo_hash_chose_table
          EarlyTraffic   \* whether packets arrive before hal_init has returned

Thread == {"learn", "aging", "main"}
Size == Cardinality(Slot)

ASSUME HalAssumption ==
  /\ NoFlow \notin Flow /\ NoThread \notin Thread
  /\ IsFiniteSet(Slot) /\ Slot \subseteq Nat
  /\ Candidates \in [Flow -> SUBSET Slot]
  /\ TestKeys \in Seq(Flow)
  /\ U32 \in Nat /\ U32 > Size
  /\ TtlInit \in Nat /\ TtlFloor \in Nat /\ TtlStep \in Nat /\ TtlBound \in Nat
  /\ TtlStep <= TtlFloor /\ TtlFloor - TtlStep < TtlInit /\ TtlInit <= TtlBound
  /\ QueueMax \in Nat
  /\ ConstEntries \in Nat /\ ConstEntries < U32
  /\ EarlyTraffic \in BOOLEAN

VARIABLES
  route_tbl,             \* the hardware table: flow, nhop_id and aged tag per slot
  entry_in_table_c,      \* driver's count of entries
  entry_aged_c,          \* driver's count of aged entries
  aged_replace,          \* Route: an add may take the slot of an aged entry
  aged_replace_flag,     \* main: the driver's aged mechanism is in use
  index_repalce_action,  \* main: the driver stores the slot index as nhop_id
  entry_ttl,             \* Route: the TTL given to new entries
  table_mutex_,          \* BaseTable: holder of the mutex
  bfrtTableKey,          \* Route: the key buffer all callers share
  digests,               \* learn messages the hardware has not delivered yet
  registered,            \* callbacks registered so far
  th,                    \* per thread: program counter, pending call, its status
  batch,                 \* learn_callback: digests of this message not handled yet
  total_insert,          \* adds learn_callback saw succeed
  total_aged,            \* tags idletime_callback saw succeed
  ghost                  \* history: entries reused, test adds, test deletes

driverVars == <<route_tbl, entry_in_table_c, entry_aged_c>>
modeVars   == <<aged_replace, aged_replace_flag, index_repalce_action, entry_ttl>>
callVars   == <<table_mutex_, bfrtTableKey>>
queueVars  == <<digests, registered, batch>>
statVars   == <<total_insert, total_aged>>
halVars    == <<driverVars, modeVars, callVars, queueVars, statVars, th, ghost>>

Free == [flow |-> NoFlow, nhop_id |-> 0, aged |-> FALSE]
Idle == [pc |-> "idle", op |-> "none", key |-> NoFlow, status |-> "none", pos |-> 0]

InTable(f)  == \E s \in Slot : route_tbl[s].flow = f
SlotOf(f)   == CHOOSE s \in Slot : route_tbl[s].flow = f
Occupied    == {s \in Slot : route_tbl[s].flow # NoFlow}
Aged        == {s \in Slot : route_tbl[s].aged}

Inc(c) == (c + 1) % U32
Dec(c) == (c + U32 - 1) % U32

(* test_route: every key is added, read back and deleted, then the usage read. *)
TestScript ==
  LET n == Len(TestKeys)
  IN  [i \in 1 .. 3 * n + 1 |->
        IF i > 3 * n THEN [op |-> "usage", key |-> NoFlow]
        ELSE [op  |-> <<"add", "get", "del">>[1 + ((i - 1) \div n)],
              key |-> TestKeys[1 + ((i - 1) % n)]]]

HalInit ==
  /\ route_tbl = [s \in Slot |-> Free]
  /\ entry_in_table_c = ConstEntries /\ entry_aged_c = 0
  /\ aged_replace = FALSE /\ aged_replace_flag = FALSE /\ index_repalce_action = FALSE
  /\ entry_ttl = TtlInit
  /\ table_mutex_ = NoThread /\ bfrtTableKey = NoFlow
  /\ digests = <<>> /\ registered = {} /\ batch = <<>>
  /\ th = [t \in Thread |-> IF t = "main" THEN [Idle EXCEPT !.pc = "digest_init"] ELSE Idle]
  /\ total_insert = 0 /\ total_aged = 0
  /\ ghost = [reused |-> 0, added |-> 0, deleted |-> 0, untagged |-> 0]

-----------------------------------------------------------------------------
(* The patched driver (external): effects of tableEntryAdd and tableEntryDel. *)

NewEntry(f, s) ==
  [flow |-> f, nhop_id |-> IF index_repalce_action THEN s ELSE 1, aged |-> FALSE]

(* A free slot among the flow's candidates takes the entry. *)
AddFree(t, f, s) ==
  /\ ~InTable(f) /\ s \in Candidates[f] \ Occupied
  /\ route_tbl' = [route_tbl EXCEPT ![s] = NewEntry(f, s)]
  /\ entry_in_table_c' = Inc(entry_in_table_c)
  /\ ghost' = [ghost EXCEPT !.added = IF t = "main" THEN Inc(@) ELSE @]
  /\ UNCHANGED entry_aged_c

(* Once aged replacement is on, so does the slot of an aged entry. *)
AddReuse(t, f, s) ==
  /\ ~InTable(f) /\ s \in Candidates[f] \cap Aged
  /\ aged_replace /\ aged_replace_flag
  /\ route_tbl' = [route_tbl EXCEPT ![s] = NewEntry(f, s)]
  /\ entry_aged_c' = Dec(entry_aged_c)
  /\ ghost' = [ghost EXCEPT !.reused = Inc(@),
                            !.added  = IF t = "main" THEN Inc(@) ELSE @]
  /\ UNCHANGED entry_in_table_c

(* Otherwise the add fails: the key exists or no candidate slot is available. *)
AddFails(f) ==
  \/ InTable(f)
  \/ /\ Candidates[f] \subseteq Occupied
     /\ ~(aged_replace /\ aged_replace_flag /\ Candidates[f] \cap Aged # {})

(* flags = 100 tags the entry instead of removing it and returns 1. *)
TagAged(f) ==
  /\ InTable(f) /\ ~route_tbl[SlotOf(f)].aged
  /\ route_tbl' = [route_tbl EXCEPT ![SlotOf(f)].aged = TRUE]
  /\ entry_aged_c' = Inc(entry_aged_c)
  /\ UNCHANGED <<entry_in_table_c, ghost>>

TagFails(f) == InTable(f) => route_tbl[SlotOf(f)].aged

(* A plain delete frees the slot and gives back both counts. *)
DelEntry(f) ==
  /\ InTable(f)
  /\ route_tbl' = [route_tbl EXCEPT ![SlotOf(f)] = Free]
  /\ entry_in_table_c' = Dec(entry_in_table_c)
  /\ entry_aged_c' = IF route_tbl[SlotOf(f)].aged THEN Dec(entry_aged_c) ELSE entry_aged_c
  /\ ghost' = [ghost EXCEPT !.deleted = Inc(@),
                            !.untagged = IF route_tbl[SlotOf(f)].aged THEN Inc(@) ELSE @]
-----------------------------------------------------------------------------
(* The hal_route_* API: every function locks, works and unlocks. *)

(* Thread t is about to make the call op on key f. *)
Call(t, op, f) ==
  th' = [th EXCEPT ![t] = [@ EXCEPT !.pc = "lock", !.op = op, !.key = f]]

(* Mutant of HalLock: the buffer is filled without waiting for the mutex. *)
HalNoLock(t) ==
  /\ th[t].pc = "lock"
  /\ table_mutex_' = t
  /\ bfrtTableKey' = IF th[t].op \in {"add", "age", "get", "del"}
                     THEN th[t].key ELSE bfrtTableKey
  /\ th' = [th EXCEPT ![t].pc = "call"]
  /\ UNCHANGED <<driverVars, modeVars, queueVars, statVars, ghost>>

(* tableMutexLock, then KeySetUp fills the shared buffer (not for balance, usage). *)
HalLock(t) ==
  /\ th[t].pc = "lock" /\ table_mutex_ = NoThread
  /\ table_mutex_' = t
  /\ bfrtTableKey' = IF th[t].op \in {"add", "age", "get", "del"}
                     THEN th[t].key ELSE bfrtTableKey
  /\ th' = [th EXCEPT ![t].pc = "call"]
  /\ UNCHANGED <<driverVars, modeVars, queueVars, statVars, ghost>>

Return(t, status) ==
  th' = [th EXCEPT ![t] = [@ EXCEPT !.pc = "unlock", !.status = status]]

(* tableEntryAddModify(is_add): the driver reads the key from the buffer. *)
TableEntryAdd(t) ==
  /\ th[t].pc = "call" /\ th[t].op = "add"
  /\ \/ /\ \E s \in Slot : AddFree(t, bfrtTableKey, s) \/ AddReuse(t, bfrtTableKey, s)
        /\ Return(t, "ok")
     \/ /\ AddFails(bfrtTableKey) /\ Return(t, "fail")
        /\ UNCHANGED <<driverVars, ghost>>
  /\ UNCHANGED <<modeVars, callVars, queueVars, statVars>>

(* tableEntryDel with aged_flag. *)
TableEntryAge(t) ==
  /\ th[t].pc = "call" /\ th[t].op = "age"
  /\ \/ TagAged(bfrtTableKey) /\ Return(t, "tagged")
     \/ TagFails(bfrtTableKey) /\ Return(t, "fail") /\ UNCHANGED <<driverVars, ghost>>
  /\ UNCHANGED <<modeVars, callVars, queueVars, statVars>>

(* tableEntryDel without aged_flag. *)
TableEntryDel(t) ==
  /\ th[t].pc = "call" /\ th[t].op = "del"
  /\ \/ DelEntry(bfrtTableKey) /\ Return(t, "ok")
     \/ ~InTable(bfrtTableKey) /\ Return(t, "fail") /\ UNCHANGED <<driverVars, ghost>>
  /\ UNCHANGED <<modeVars, callVars, queueVars, statVars>>

(* tableEntryGet and tableUsageGet read only. *)
TableRead(t) ==
  /\ th[t].pc = "call" /\ th[t].op \in {"get", "usage"}
  /\ Return(t, IF th[t].op = "usage" \/ InTable(bfrtTableKey) THEN "ok" ELSE "fail")
  /\ UNCHANGED <<driverVars, modeVars, callVars, queueVars, statVars, ghost>>

(* The two shares aging_ttl_balance compares, as the unsigned code computes them. *)
TableCrowded  == entry_in_table_c * 100 > 85 * Size
Available     == (Size + U32 - entry_in_table_c + entry_aged_c) % U32
(* Mutant of FewAvailable: aged entries are not counted as available. *)
FewFree       == ((Size + U32 - entry_in_table_c) % U32) * 100 < 15 * Size
FewAvailable  == Available * 100 < 15 * Size

(* Mutant of AgingTtlBalance: the TTL is shortened without a floor. *)
BalanceNoFloor(t) ==
  /\ th[t].pc = "call" /\ th[t].op = "balance"
  /\ aged_replace' = (aged_replace \/ TableCrowded)
  /\ entry_ttl' = IF ~aged_replace' THEN entry_ttl
                  ELSE IF FewAvailable THEN entry_ttl - TtlStep
                       ELSE IF entry_ttl < TtlBound THEN entry_ttl + 1 ELSE entry_ttl
  /\ Return(t, "ok")
  /\ UNCHANGED <<driverVars, aged_replace_flag, index_repalce_action,
                 callVars, queueVars, statVars, ghost>>

(* aging_ttl_balance: sticky aged_replace, then shorter or longer TTLs. *)
AgingTtlBalance(t) ==
  /\ th[t].pc = "call" /\ th[t].op = "balance"
  /\ aged_replace' = (aged_replace \/ TableCrowded)
  /\ entry_ttl' = IF ~aged_replace' THEN entry_ttl
                  ELSE IF FewAvailable
                       THEN IF entry_ttl > TtlFloor THEN entry_ttl - TtlStep ELSE entry_ttl
                       ELSE IF entry_ttl < TtlBound THEN entry_ttl + 1 ELSE entry_ttl
  /\ Return(t, "ok")
  /\ UNCHANGED <<driverVars, aged_replace_flag, index_repalce_action,
                 callVars, queueVars, statVars, ghost>>

HalUnlock(t) ==
  /\ th[t].pc = "unlock"
  /\ table_mutex_' = NoThread
  /\ th' = [th EXCEPT ![t].pc = "returned"]
  /\ UNCHANGED <<driverVars, modeVars, bfrtTableKey, queueVars, statVars, ghost>>

HalCall(t) ==
  \/ TableEntryAdd(t) \/ TableEntryAge(t) \/ TableEntryDel(t)
  \/ TableRead(t) \/ AgingTtlBalance(t)

-----------------------------------------------------------------------------
(* learn_callback *)

NextDigest == [Idle EXCEPT !.pc = "next"]

(* The driver delivers a message holding the n oldest digests. *)
LearnStart(n) ==
  /\ "learn" \in registered /\ th["learn"].pc = "idle"
  /\ n \in 1 .. Len(digests)
  /\ batch'   = SubSeq(digests, 1, n)
  /\ digests' = SubSeq(digests, n + 1, Len(digests))
  /\ th' = [th EXCEPT !["learn"] = NextDigest]
  /\ UNCHANGED <<driverVars, modeVars, callVars, registered, statVars, ghost>>

(* The loop body: offload the next digest's flow. *)
LearnAdd ==
  /\ th["learn"].pc = "next" /\ batch # <<>>
  /\ Call("learn", "add", Head(batch))
  /\ batch' = Tail(batch)
  /\ UNCHANGED <<driverVars, modeVars, callVars, digests, registered, statVars, ghost>>

(* Mutant of LearnAdded: a failed add is counted too. *)
LearnCountsAll ==
  /\ th["learn"].pc = "returned" /\ th["learn"].op = "add"
  /\ total_insert' = Inc(total_insert) /\ Call("learn", "balance", NoFlow)
  /\ UNCHANGED <<driverVars, modeVars, callVars, queueVars, total_aged, ghost>>

(* Mutant of LearnAdded: a failed add is tried again. *)
LearnRetries ==
  /\ th["learn"].pc = "returned" /\ th["learn"].op = "add"
  /\ IF th["learn"].status = "ok"
     THEN total_insert' = Inc(total_insert) /\ Call("learn", "balance", NoFlow)
     ELSE Call("learn", "add", th["learn"].key) /\ UNCHANGED total_insert
  /\ UNCHANGED <<driverVars, modeVars, callVars, queueVars, total_aged, ghost>>

(* After the add: only a success is counted and balances the TTL. *)
LearnAdded ==
  /\ th["learn"].pc = "returned" /\ th["learn"].op = "add"
  /\ IF th["learn"].status = "ok"
     THEN total_insert' = Inc(total_insert) /\ Call("learn", "balance", NoFlow)
     ELSE th' = [th EXCEPT !["learn"] = NextDigest] /\ UNCHANGED total_insert
  /\ UNCHANGED <<driverVars, modeVars, callVars, queueVars, total_aged, ghost>>

LearnBalanced ==
  /\ th["learn"].pc = "returned" /\ th["learn"].op = "balance"
  /\ th' = [th EXCEPT !["learn"] = NextDigest]
  /\ UNCHANGED <<driverVars, modeVars, callVars, queueVars, statVars, ghost>>

(* bfRtLearnNotifyAck frees the message. *)
LearnAck ==
  /\ th["learn"].pc = "next" /\ batch = <<>>
  /\ th' = [th EXCEPT !["learn"] = Idle]
  /\ UNCHANGED <<driverVars, modeVars, callVars, queueVars, statVars, ghost>>

-----------------------------------------------------------------------------
(* idletime_callback *)

(* The driver finds the entry in slot s idle and passes its key. *)
AgingStart(s) ==
  /\ "aging" \in registered /\ th["aging"].pc = "idle"
  /\ s \in Occupied
  /\ Call("aging", "age", route_tbl[s].flow)
  /\ UNCHANGED <<driverVars, modeVars, callVars, queueVars, statVars, ghost>>

(* Mutant of AgingTagged: every return value is taken for a success. *)
AgingCountsAll ==
  /\ th["aging"].pc = "returned" /\ th["aging"].op = "age"
  /\ total_aged' = Inc(total_aged) /\ Call("aging", "balance", NoFlow)
  /\ UNCHANGED <<driverVars, modeVars, callVars, queueVars, total_insert, ghost>>

(* Mutant of AgingTagged: the tag is tried until it succeeds. *)
AgingRetries ==
  /\ th["aging"].pc = "returned" /\ th["aging"].op = "age"
  /\ IF th["aging"].status = "tagged"
     THEN total_aged' = Inc(total_aged) /\ Call("aging", "balance", NoFlow)
     ELSE Call("aging", "age", th["aging"].key) /\ UNCHANGED total_aged
  /\ UNCHANGED <<driverVars, modeVars, callVars, queueVars, total_insert, ghost>>

(* Only a return value of 1 is counted and balances the TTL. *)
AgingTagged ==
  /\ th["aging"].pc = "returned" /\ th["aging"].op = "age"
  /\ IF th["aging"].status = "tagged"
     THEN total_aged' = Inc(total_aged) /\ Call("aging", "balance", NoFlow)
     ELSE th' = [th EXCEPT !["aging"] = Idle] /\ UNCHANGED total_aged
  /\ UNCHANGED <<driverVars, modeVars, callVars, queueVars, total_insert, ghost>>

AgingBalanced ==
  /\ th["aging"].pc = "returned" /\ th["aging"].op = "balance"
  /\ th' = [th EXCEPT !["aging"] = Idle]
  /\ UNCHANGED <<driverVars, modeVars, callVars, queueVars, statVars, ghost>>

-----------------------------------------------------------------------------
(* main: hal_init, the two switches, test_route, then the command line. *)

UnresetPc == {"digest_init", "aging_init", "reset"}
InitPc == UnresetPc \cup {"switches"}

Goto(from, to) ==
  /\ th["main"].pc = from
  /\ th' = [th EXCEPT !["main"].pc = to]

(* shc_digest_init: from here on learn_callback may be invoked. *)
ShcDigestInit ==
  /\ Goto("digest_init", "aging_init")
  /\ registered' = registered \cup {"learn"}
  /\ UNCHANGED <<driverVars, modeVars, callVars, digests, batch, statVars, ghost>>

(* shc_aging_init: from here on idletime_callback may be invoked. *)
ShcAgingInit ==
  /\ Goto("aging_init", "reset")
  /\ registered' = registered \cup {"aging"}
  /\ UNCHANGED <<driverVars, modeVars, callVars, digests, batch, statVars, ghost>>

(* Mutant of HalInitReset: the constant entries stay in the count. *)
ResetKeepsCount ==
  /\ Goto("reset", "switches")
  /\ entry_aged_c' = 0
  /\ aged_replace' = FALSE /\ aged_replace_flag' = FALSE /\ index_repalce_action' = FALSE
  /\ UNCHANGED <<route_tbl, entry_in_table_c, entry_ttl, callVars, queueVars, statVars, ghost>>

(* The rest of hal_init, which takes no lock, resets what the driver exports. *)
HalInitReset ==
  /\ Goto("reset", "switches")
  /\ entry_in_table_c' = 0 /\ entry_aged_c' = 0
  /\ aged_replace' = FALSE /\ aged_replace_flag' = FALSE /\ index_repalce_action' = FALSE
  /\ UNCHANGED <<route_tbl, entry_ttl, callVars, queueVars, statVars, ghost>>

(* Mutant of MainSwitches: index_repalce_action stays off. *)
MainForgetsIndex ==
  /\ Goto("switches", "test")
  /\ aged_replace_flag' = TRUE
  /\ UNCHANGED <<driverVars, index_repalce_action, aged_replace, entry_ttl,
                 callVars, queueVars, statVars, ghost>>

(* main switches slot indices and aged replacement on. *)
MainSwitches ==
  /\ Goto("switches", "test")
  /\ index_repalce_action' = TRUE /\ aged_replace_flag' = TRUE
  /\ UNCHANGED <<driverVars, aged_replace, entry_ttl, callVars, queueVars, statVars, ghost>>

(* test_route: the next call of the script; the statuses are ignored. *)
TestRouteCall ==
  /\ th["main"].pc = "test" /\ th["main"].pos < Len(TestScript)
  /\ LET c == TestScript[th["main"].pos + 1] IN Call("main", c.op, c.key)
  /\ UNCHANGED <<driverVars, modeVars, callVars, queueVars, statVars, ghost>>

TestRouteReturn ==
  /\ th["main"].pc = "returned"
  /\ th' = [th EXCEPT !["main"] = [Idle EXCEPT !.pc = "test", !.pos = th["main"].pos + 1]]
  /\ UNCHANGED <<driverVars, modeVars, callVars, queueVars, statVars, ghost>>

RunCli ==
  /\ th["main"].pos = Len(TestScript)
  /\ Goto("test", "cli")
  /\ UNCHANGED <<driverVars, modeVars, callVars, queueVars, statVars, ghost>>

-----------------------------------------------------------------------------
(* The switch reports a flow that missed route_tbl; a full queue loses it. *)
MayArrive == EarlyTraffic \/ th["main"].pc \notin InitPc

Report(f) ==
  /\ MayArrive /\ ~InTable(f)
  /\ digests' = IF Len(digests) < QueueMax THEN Append(digests, f) ELSE digests
  /\ UNCHANGED <<driverVars, modeVars, callVars, registered, batch, statVars, th, ghost>>

ThreadStep(t) ==
  \/ HalLock(t) \/ HalCall(t) \/ HalUnlock(t)
  \/ /\ t = "learn"
     /\ \/ \E n \in 1 .. QueueMax : LearnStart(n)
        \/ LearnAdd \/ LearnAdded \/ LearnBalanced \/ LearnAck
  \/ /\ t = "aging"
     /\ (\E s \in Slot : AgingStart(s)) \/ AgingTagged \/ AgingBalanced
  \/ /\ t = "main"
     /\ \/ ShcDigestInit \/ ShcAgingInit \/ HalInitReset \/ MainSwitches
        \/ TestRouteCall \/ TestRouteReturn \/ RunCli

HalNext ==
  \/ \E t \in Thread : ThreadStep(t)
  \/ \E f \in Flow : Report(f)

HalSpec == HalInit /\ [][HalNext]_halVars

(***************************************************************************)
(* Threads keep running.  The mutex is granted to a waiting thread that    *)
(* finds it free again and again: between two callbacks the driver sleeps  *)
(* for ttl_query_interval or for the next learn interrupt, so the mutex is *)
(* free most of the time and a waiter woken by its release gets it.        *)
(***************************************************************************)
Fairness == \A t \in Thread : WF_halVars(ThreadStep(t)) /\ SF_halVars(HalLock(t))

FairHalSpec == HalSpec /\ Fairness

-----------------------------------------------------------------------------
Pc == InitPc \cup {"idle", "lock", "call", "unlock", "returned", "next", "test", "cli"}
Op == {"none", "add", "age", "del", "get", "usage", "balance"}
U32Range == 0 .. U32 - 1

(* Every variable has the type the code gives it; counters keep their width. *)
HalTypeOK ==
  /\ route_tbl \in [Slot -> [flow : Flow \cup {NoFlow}, nhop_id : Nat, aged : BOOLEAN]]
  /\ entry_in_table_c \in U32Range /\ entry_aged_c \in U32Range
  /\ aged_replace \in BOOLEAN /\ aged_replace_flag \in BOOLEAN
  /\ index_repalce_action \in BOOLEAN
  /\ entry_ttl \in Nat
  /\ table_mutex_ \in Thread \cup {NoThread}
  /\ bfrtTableKey \in Flow \cup {NoFlow}
  /\ digests \in Seq(Flow) /\ batch \in Seq(Flow)
  /\ registered \subseteq Thread
  /\ th \in [Thread -> [pc : Pc, op : Op, key : Flow \cup {NoFlow},
                        status : {"none", "ok", "fail", "tagged"}, pos : Nat]]
  /\ total_insert \in U32Range /\ total_aged \in U32Range
  /\ ghost \in [reused : U32Range, added : U32Range, deleted : U32Range, untagged : U32Range]

(***************************************************************************)
(* A thread inside a hal_route_* call holds the mutex, and the key the     *)
(* driver is about to read from the shared buffer is the one its caller    *)
(* passed: no other callback can overwrite it between KeySetUp and the     *)
(* driver call.                                                            *)
(***************************************************************************)
BufferIsCallers ==
  \A t \in Thread :
    /\ th[t].pc \in {"call", "unlock"} => table_mutex_ = t
    /\ th[t].pc = "call" /\ th[t].op \in {"add", "age", "get", "del"}
         => bfrtTableKey = th[t].key

(* What a thread has achieved in the driver but not yet added to its total. *)
Pending(t, op, status) ==
  IF th[t].pc \in {"unlock", "returned"} /\ th[t].op = op /\ th[t].status = status THEN 1 ELSE 0

(***************************************************************************)
(* Conservation: the entries the driver counts are the successful offloads *)
(* of learn_callback and the test's adds, less the test's deletes and the  *)
(* reused slots; the aged entries are the tags idletime_callback counted,  *)
(* less those reused or deleted.  No duplicate, failed or racing callback  *)
(* is counted twice or lost.                                               *)
(***************************************************************************)
CountsConserved ==
  th["main"].pc \notin UnresetPc =>
  /\ (entry_in_table_c + ghost.deleted + ghost.reused) % U32
       = (total_insert + Pending("learn", "add", "ok") + ghost.added) % U32
  /\ (entry_aged_c + ghost.reused + ghost.untagged) % U32
       = (total_aged + Pending("aging", "age", "tagged")) % U32

(***************************************************************************)
(* Once hal_init has reset them, the counters aging_ttl_balance bases its  *)
(* decisions on describe the hardware table.                               *)
(***************************************************************************)
CountersDescribeTable ==
  th["main"].pc \notin UnresetPc =>
    entry_in_table_c = Cardinality(Occupied) /\ entry_aged_c = Cardinality(Aged)

(***************************************************************************)
(* Every entry carries its own position as nhop_id, which the P4 program   *)
(* uses as the bucket index of a hit (the coupling of table and sketch).   *)
(***************************************************************************)
EntryCarriesIndex == \A s \in Occupied : route_tbl[s].nhop_id = s

(***************************************************************************)
(* entry_ttl is only shortened by a balance that finds replacement on and  *)
(* the hardware table itself, not merely its counters, nearly exhausted.   *)
(***************************************************************************)
ShortenOnlyWhenFull ==
  [][entry_ttl' < entry_ttl =>
       /\ aged_replace'
       /\ (Size - Cardinality(Occupied) + Cardinality(Aged)) * 100 < 15 * Size]_entry_ttl

(* Every learn message is processed to its acknowledgement. *)
LearnAcknowledged == th["learn"].pc # "idle" ~> th["learn"].pc = "idle"

(* Every idle notification is processed to its end. *)
AgingReturns == th["aging"].pc # "idle" ~> th["aging"].pc = "idle"

(***************************************************************************)
(* Every digest the hardware holds is settled: learn_callback takes it and *)
(* its add succeeds or fails, however many other callbacks interleave.     *)
(***************************************************************************)
DigestSettled ==
  \A f \in Flow :
    (digests # <<>> /\ Head(digests) = f)
      ~> (th["learn"].op = "add" /\ th["learn"].key = f /\ th["learn"].pc = "unlock")
=============================================================================
