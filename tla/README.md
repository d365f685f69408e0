# TLA+ models of the active-flow offloading system

This directory verifies the repository's core: a Tofino program that finds
active flows with a sketch and reports them, a control plane that offloads the
reported flows into a hardware table and tags the idle ones for replacement,
the agent that keeps VRFs, tunnels, routes, next hops and neighbours in software
and writes them to hardware, its packet thread, and the prefix table of the common
library.

## 1. Inventory

| Component | State | Operations | Interacts with |
|---|---|---|---|
| Sketch (`platform/p4src/shc_real_time_sketch.p4`, control `Sketch`) | registers `hash1_1`, `hash1_1_n`, `pkt_num` | one packet: compare, count, raise `eflag` | called by the ingress |
| Ingress pipeline (same file) | metadata of a packet | parse, look up `route_tbl`, pick a bucket, apply the sketch, send a digest | reads `route_tbl`, feeds the learn queue |
| `Route` and `hal_route_*` (`platform/drivers/route.cpp`, `hal_table_api.cpp`, `base_table.hpp`) | mutex, shared key and data buffer, `entry_ttl` | add, delete, tag, get, usage, `aging_ttl_balance` | called by three threads, calls the SDE driver |
| Learn callback (`shc_digest.cpp`) | `total_insert`, the message being handled | offload each digest, balance, acknowledge | invoked by the driver's learn thread |
| Idle-time callback (`shc_aging.cpp`) | `total_aged` | tag one entry, balance | invoked by the driver's idle thread |
| `hal_init`, test program (`hal_init.cpp`, `test_hal/`) | switches `index_repalce_action`, `aged_replace_flag` | register, reset, run `test_route`, SIGTSTP handler | the main thread |
| Patched SDE driver (not in the repository) | table, `entry_in_table_c`, `entry_aged_c` | add, tag (`flags = 100`), delete | exports its counters as plain globals |
| Agent routes (`agent/route.c`) | rib, fib, result array, next hops | insert, two deletes, cleanup, lookup | holds references to neighbours |
| Agent neighbours (`agent/neigh.c`) | neighbour hash, counts, oids | add, delete, static add, lookup | keyed by VRF and gateway |
| Agent VRFs (`vrf.c`) | slots with name, MAC, internal address, tunnel list and count | add, delete, set and unset addresses, lookups | deletes its routes and tunnels |
| Agent tunnel map (`tunnel_map.c`) | hash from tunnel to `tunnel_i`, the heap behind it | map, unmap, lookup, cleanup | belongs to VRFs, writes a hardware entry |
| Rule chain (`entry_api.c`) | four hardware tables | `shc_swTohw_rule` add and delete | looks up tunnel, route and neighbour and writes what it finds |
| Agent forwarding (`pmd.c`, `netio.c`, `agent-bak/main.c`) | tables under `dp_locker`, mbuf pool, `key_value_info`, thread state | start-up, receive and look up a packet, table calls | packet thread against the threads that change tables |
| `common/` | one map per prefix length and family | insert, modify, delete, get, lookup | addresses and prefixes as values |

What is hard, and what correct means:

* **Sketch.** A run of packets of one flow at a bucket is reported once, at its
  `HIT_COUNT`-th packet, whatever the saturation of the 8-bit count and the
  initial register contents.
* **Control plane.** Three threads meet at one mutex, one key buffer and plain
  global counters. Digests and idle notifications are stale, duplicated or lost
  by the time they are handled. The counters must describe the table, every
  offload and tag must be counted once, the TTL must only shrink when the table
  is nearly full, and every message must be acknowledged.
* **Coupling.** An entry's action data is its own position, which the pipeline
  uses as the bucket of a hit.
* **Agent tables.** Each call updates six linked tables and rolls back on failure:
  reference counts, rib, fib and results must stay consistent on every path.
* **VRFs, tunnels and rules.** Slots, addresses and object ids are reused, or never
  given back, while a hash, the heap and the hardware still refer to them; a rule
  is four hardware writes of which each may fail, and the status of the first, the
  tunnel's, is dropped.
* **Forwarding.** A packet follows pointers through tables that other threads
  change object by object; only the lock keeps them alive. The tables are created
  in one thread and used by another.
* **Prefixes.** Masks at length 0, at full length and at byte boundaries; host bits
  that a caller leaves in; nested prefixes of two families.

**Three trees of the agent.** `agent/` is the one its `CMakeLists.txt` names;
`agent-bak/` and `zdw_agent/` are earlier states. All of it is work in progress: the
top-level `CMakeLists.txt` leaves `agent/` out, some files do not compile
(`neigh.c:68` uses an undeclared `ret`, `pmd.c` calls the lookups with fewer
arguments than they take, `entry_api.c:38` writes through the uninitialised
`ethhdr`, `agent-bak/route.c` jumps to a label that is commented out). The models
take each function from a tree where it is whole:

* Insert, both deletes, cleanup, results, next hops and neighbours are the same code
  in all three. `agent-bak/new_route.c` equals `agent-bak/route.c`.
* `rt_prefix_obj_update` of `agent-bak/` lacks the second undo step
  (`rollback2`); the model has it, as `agent/` and `zdw_agent/` do. Leaving it
  out is the mutant `UpdateKeepsRib`.
* Lookups write hardware entries in `agent/` (`RuleChain`), and are software only in
  the other two (`Forwarding`).
* Unmapping a tunnel deletes its key in `agent-bak/` only; both forms are actions.
* The packet thread differs in statistics and the flow hash; the lock and the order of
  the steps are the same.
* Only `agent-bak/main.c:53-59` creates the packet thread and polls for it, and
  `MainCreates` and `MainPolls` are these lines. In `agent/main.c:202-208` and
  `zdw_agent/main.c:165-171` both are commented out: nothing starts the thread there.

`RTE_ASSERT` is compiled out by default.

`PROJECT.json` lists every component, the hazards of the code at their lines and
the property that watches each of them.

## 2. Modules

```
ActiveFlow  <- refined by -  Sketch - used by - ShcIngress -+
                                                            +- Offload
                             Hal ---------------------------+
                             Hal - extended by - HalSignal
RouteTable  <- refined by -  RouteFib - extended by - VrfTunnel - extended by - RuleChain
TunnelTable <- refined by -  RuleChain
PrefixTable <- refined by -  LpmTrie - uses - IpPrefix
                             Forwarding

The theorems: SketchProofs; HalProofs <- OffloadProofs;
              ListTheorems <- RouteFibProofs <- RuleChainProofs
              ListTheorems <- ForwardingProofs, LpmProofs
The instances for TLC: MC*
```

**`ActiveFlow`** is the promise of `platform/pseudo-code`: per bucket the current
run's fingerprint and length; an arrival reports when it makes the run
`HIT_COUNT` long.

**`Sketch`** is control `Sketch`. A packet is one step, because the stateful ALUs
see packets one after the other. `SatAdd` is `|+|`, `CsCount` the second register
action, `SketchApply` the `apply` block.

**`ShcIngress`** is the ingress parser, `ShcIngress.apply` and the digest of the
deparser. The parser is described by which headers are valid. `BucketIndex` keeps
the three ways to a bucket: the entry's `nhop_id` for a tagged hit, one of four
carried hashes for a tagged miss, the masked hash otherwise, each cut to 16 bits.

**`Hal`** is the control plane. A thread has a program counter, a pending call and
its status. A `hal_route_*` call is three steps: `HalLock` (mutex and `KeySetUp`),
one of `TableEntryAdd`, `TableEntryAge`, `TableEntryDel`, `TableRead`,
`AgingTtlBalance`, and `HalUnlock`. `LearnStart` .. `LearnAck` are
`learn_callback`, `AgingStart` .. `AgingBalanced` are `idletime_callback`;
`ShcDigestInit` .. `RunCli` are `hal_init`, the switches in `main` and
`test_route`. `Report` stands for the switch: any flow absent from the table may
be reported at any time, and a full queue drops the digest. The counters wrap at
`U32`. `total_insert` and `total_aged` are the code's statistics; `ghost` holds
history only the properties read.

The driver's effects (`AddFree`, `AddReuse`, `TagAged`, `DelEntry`) are marked
external. They are taken from how the code uses them: the exported counters and
their comments, the return value 1 of a tag (`shc_aging.cpp:85`), and the remark
at line 408 of the P4 program that the four constant entries of
`cuckoo_hash_chose_table` are in `entry_in_table_c`, which is why `HalInit` starts
at `ConstEntries` and `hal_init` resets the count. The plain delete of a tagged
entry is assumed to give both counts back; the code does not show it.

**`HalSignal`** adds the SIGTSTP handler of `test_hal/main.cpp`, run on any thread.

**`Offload`** composes `Hal` and `ShcIngress`: packets replace `Report`.

**`RouteTable`** is the promise of the route API: a map from (VRF, prefix) to a
type and a list of distinct next hops.

**`RouteFib`** is `route.c` with the part of `neigh.c` it calls. Each call is one
action, as `netio.c` provides a lock that writers take alone. Inside, operators
pass the tables along in the order of the code, one per C function, and the input
`f` names the library call that fails. A false `RTE_ASSERT` of a delete (lines 522, 527,
536, 667, 669, 671, 723 and 788) is recorded in `failed` and changes nothing.
`rte_hash_del_key` returns the position of the key it deletes; the input `pos`, a member of
`HashPos`, gives each key of the rib and of the next-hop hash a position of its own.
The loops of the two deletes that go over several objects
(`ReleaseAll`, `Cleanup`) are recursive functions from the number of rounds to the
tables after them.

**`TunnelTable`** is the promise of the VRF and tunnel calls: named VRFs, and at most
one of them for each tunnel.

**`VrfTunnel`** is `vrf.c` and `tunnel_map.c`. `Vrf` is the set of slot numbers.
`tun` holds, as `vrf_hash_tbl` does, the *address* of a `tunnel_i`, and `heap` what
is allocated, so that a freed one can be told from a live one; a read through a
dangling address yields any VRF id. `SLIST_REMOVE` of an element that is not in
the list ends the process (`Crash`). The variable `tree` says whether `agent/` or
`agent-bak/` runs; they differ in `UnmapAgent`, `UnmapBak` and `MapCleanup`.

**`RuleChain`** is `shc_swTohw_rule` with the lookups it calls. `TunnelLookup`,
`RouteLookup` and `NeighLookup` pass the hardware tables along, `HwWrite` is the
HAL: it refuses to add a key it has and to delete one it has not. The null pointers
the code follows (no VRF, no route) are `Crash`. `path` in a hardware route and the
neighbour that stands for a MAC record which software object an entry was written
for. A false assertion of the tunnel lookup is recorded in `rule.failed`; the status it
is about is dropped, so a call goes on without the tunnel entry.

**`Forwarding`** is the agent at run time. `MainCreates` .. `PmdRunning` are the
start-up; `NetioRx` .. `MbufFree` are one packet's way through `netio_rx`, with a
step wherever the code reads the shared tables again; `Begin` .. `WriteUnlock` are a
table call, taken apart into one step per object it changes (`Plan` lists them),
because the point is what the other thread could see. The calls come from API
threads that are not in the repository; they take the write lock that `netio.h`
offers them, which no function of the tree does by itself.

**`IpPrefix`**, **`LpmTrie`**, **`PrefixTable`**: the addresses and prefixes of
`common/` as operators over bits, with the widths as constants; the table
`Fib_Hash` with one map per length; and its promise, stated over sets of addresses
without masks. A text is modelled by what the parsers see of it.

## 3. Runs

| Run | Result | Shows |
|---|---|---|
| `sketch` | pass | runs are reported exactly once and only when full; the sketch implements `ActiveFlow` |
| `callbacks` | pass | all interleavings of both callbacks and `test_route` on a crowded table: buffer, conservation, counters, slot indices, TTL decisions |
| `callback_progress` | pass | messages acknowledged, notifications handled, digests settled |
| `early_traffic` | violation | traffic before `hal_init` returns makes the counters wrong for good |
| `signal` | violation | the signal handler can wait for its own thread's mutex |
| `offload` | pass | the loop with real packets implements `Hal`; a tagged hit updates the bucket of its own entry |
| `routes` | pass | under every library failure and with results and ids running out: reference counts, neighbours, rib, fib and results agree, whatever a delete releases was there to release, a failed call leaves no trace, and the fib implements `RouteTable` |
| `rules` | pass | in both trees, slots, addresses and tunnel lists stay consistent, a new VRF has no route, next hop, tunnel or internal address of the old one (its static neighbours stay), hardware entries of neighbours with an id of their own never lead astray, a rule call that returns 0 has written route, next hop and neighbour, and the tunnel's entry if that write succeeded, and the tunnel map implements `TunnelTable` |
| `tunnel_stale` | violation | unmapping in `agent/` leaves the key of the freed object in the hash |
| `rule_vni` | violation | a rule call never finds the VRF of a mapped VNI |
| `forwarding` | pass | what a packet reads is live, what it reports describes one next hop with a whole MAC, tables exist before they are used; packets, calls and start-up come to an end |
| `lpm` | pass | subnets are the ranges they claim, lookups take the longest prefix, the maps implement `PrefixTable` |

The violations are described under `findings` in `PROJECT.json`, with the line
each one contradicts. `CountersDescribeTable` appears in a passing run with
`EarlyTraffic = FALSE` and in `early_traffic` with `TRUE`.

What the passing runs assume, because the code does not hold without it:

* `sketch`: no flow has fingerprint 0. `hash1_1` starts at 0 and `hash1_1_n` at 1, so
  such a flow matches a bucket nobody used and is reported one packet early.
* `routes`, `rules`: VRFs share no encapsulation. A next hop is keyed by gateway and
  tunnel alone (`route.c:225`): a second VRF would reuse it without a neighbour of
  its own, and its deletion release the neighbour in the wrong VRF.
* `routes`: nothing about the positions of keys. Each key has one of its own, counted
  from 0, so the three assertions that the position is 0 (`route.c:536`, `723`, `788`) fail
  for all but one key of a hash. `AssertsHold` is about the others.
* `routes`: a multicast result has no more paths than a unicast one. In the code it
  may take `MROUTE_MAX_ECMP` = 8 paths in an array of `ROUTE_MAX_ECMP` = 1.
* `rules`: a tunnel is not used again after it was released (`ReuseKeys = FALSE`).
  A static MAC may be given at any time, to a gateway that a route uses and to one that
  none does; `HwChainSound` leaves out the object id 0, which the latter share.
* All runs of `RuleChain` but `rule_vni` and `tunnel_stale` map the tunnel with id 0 and
  ask rules for VNI 0: a rule call looks tunnel 0 up whatever its VNI is (`rule_vni`), so that with other
  tunnels every call would end at the null VRF. `tunnel_map.h:37-39` defines
  `MIN_VNI_ID` as 1 and a check `VNI_ID_VALID`, which nothing uses.

Disagreements that need no run to see: `entry_ttl` grows without a ceiling
(`route.cpp:212`) although `shc_aging.cpp:150` speaks of a `max_ttl` of 5000 ms;
the P4 program reports flows that miss the table (line 482), `pseudo-code:29`
those that hit; next-hop oids are never given back (`route.c:535`);
`route.c:536`, `723` and `788` assert that the position of a deleted key is 0, where
`:669` asserts only that it is not negative; `tunnel_map.c:238` drops the status of the
tunnel's hardware entry, so that a rule call returns 0 without it, and `:239` and `:243`
say `RTE_ASSERT(ret != 0)` of a write that returns 0 when it succeeds (`:59`, `:83`);
`neigh.c:177` creates a neighbour alone, which `neigh.c:259` says never happens, and
leaves its object id 0: two of them share one hardware entry, and a next hop with id 0
leads to the MAC of whichever was written;
`_shc_hal_nhop_entry_add` ignores its tunnel key and local address (`route.c:104`);
a second flow over the same next hop fails at the next-hop entry, and removing one
flow removes that entry for the other (`route.c:844`); hardware routes outlive
their VRF; `cur_thr_stats` is null in `agent/` (`pmd.c:692`) and the statistics
macros follow it.

**Bounds.** *Sketch:* two buckets, three fingerprints, a threshold below a small
`CountMax`, so saturation, interruption and restart all occur. *Hal:* two slots
and three flows give a full table, a flow with a single candidate slot, reuse of
aged entries and duplicates; `U32 = 3` is the smallest modulus that counts two
slots, so every history counter wraps; the two flows with equal candidates, which
the test does not use, are permuted by symmetry; `TtlInit`, `TtlFloor`, `TtlStep` are small
numbers in the order of 5000, 60 and 5, and `TtlBound` only cuts the unbounded
growth. `QueueMax` of 1 or 2 reaches loss and batches of two. *Offload:* one
slot, two buckets and two flows, with each way to a bucket in `MCTraffic`.
*RouteFib:* two VRFs, two prefixes, three encapsulations of which two share a
gateway and one has none; the result array is smaller than the routes need;
`OidMax` is reached (oids are only counted up, as the code does);
`ROUTE_MAX_ECMP = 2` exercises the code for several next hops, which the configured
value 1 leaves dormant; the keys lie in the order in which the first use of a hash
puts them. *RuleChain:* two slots, names and addresses, so that each
is reused and runs out; two next hops for one prefix, so that a hardware chain goes
stale; addresses and MACs are set in one tree only, as they do not touch the rest, and a VRF is
given one MAC only, the fake one, as no property tells MACs of VRFs apart; names, and
next hops with their gateways, are permuted by symmetry: either next hop may be the first
of its hash. *Forwarding:* two next hops per result and two results, so that a result
is freed and filled again; one with a gateway, one without, one TGRE; one mbuf,
so that a leak stops reception. *Lpm:* 2-bit v4 and two 2-bit bytes of v6, the
smallest widths with a byte boundary inside; the sample texts nest prefixes, set host
bits and include four that are refused; every address is looked up in every state.

**Fairness.** `callback_progress`: weak fairness of each thread: driver threads
and main keep running. Strong fairness of `HalLock`: `std::mutex` promises no
order, but between callbacks the driver sleeps until the next poll or interrupt,
so a waiter finds the mutex free again and again and is woken when it is
released. No fairness is assumed for arriving packets. `signal` states the same
for the threads and strong fairness of the handler, and is violated regardless.

`forwarding`: weak fairness of both threads, strong fairness of `ReadLock` and
`WriteLock`: `rte_rwlock` spins without a queue, so a waiter gets in only because
the lock is free again and again while packets and calls come one at a time. No
fairness of arriving packets and calls.

Deadlock is checked except in `signal` and `forwarding`, where the process may end
with `exit`, and in the runs of `RuleChain`, where it may crash.

## 4. Proofs

All proofs are checked by TLAPS, for every value of the constants that satisfies the
named `ASSUME`s of the modules and the condition the theorem itself states.

| Theorem | Property | Condition |
|---|---|---|
| `SketchTypeCorrect` | `SketchTypeOK` | |
| `FlagIsFullRun`, `SketchRefinesActiveFlow` | `FlagMeansFullRun`, `RefinesActiveFlow` | `0 \notin Fingerprint` |
| `HalTypeCorrect`, `BufferSafe` | `HalTypeOK`, `BufferIsCallers` | |
| `IndexCoupled`, `CountersCorrect`, `ShortenJustified`, `LedgerBalances` | `EntryCarriesIndex`, `CountersDescribeTable`, `ShortenOnlyWhenFull`, `CountsConserved` | `EarlyTraffic = FALSE` |
| `LoopRefinesHal`, `OffloadTypeCorrect` | `RefinesHal`, `OffloadTypeOK` | |
| `LoopReportsEachRun` | `LoopReportsRuns` | `0 \notin Fingerprint` |
| `LoopIsSafe`, `HitsOwnBucket` | the four of `Hal`, `HitTouchesOwnBucket` | `EarlyTraffic = FALSE` |
| `TablesAlwaysAgree`, `RefCountsExact`, `FailedCallsUndone`, `RouteTableRefined` | `TablesAgree`, `RefCountExact`, `FailedCallUndone`, `RefinesRouteTable` | |
| `NeighboursExact`, `RouteTypeCorrect`, `AssertionsHold` | `NeighExact`, `RouteTypeOK`, `AssertsHold` | `Disjoint` |
| `TunnelsConsistent`, `RefinesTunnels`, `RuleTypeCorrect` | `TunnelsAgree`, `RefinesTunnelTable`, `RuleTypeOK` | `ReuseKeys = FALSE` |
| `NewVrfsEmpty` | `NewVrfIsEmpty` | `Disjoint`, `ReuseKeys = FALSE` |
| `HwChainAlwaysSound`, `RulesResolve` | `HwChainSound`, `RuleResolves` | `Disjoint` |
| `BakUnmapDeletes` | `UnmapDeletesEntry` | `Trees = {"agent-bak"}`, `ReuseKeys = FALSE` |
| `TablesReadyCorrect`, `LockExcludes`, `KvCoherentCorrect`, `ReadsLiveCorrect`, `MacWholeCorrect`, `NeighboursCounted`, `PoolIsFull`, `FwdTypeCorrect` | `TablesReady`, -, `KvCoherent`, `ReadsLive`, `MacWhole`, -, -, `FwdTypeOK` | |
| `LpmTypeCorrect`, `SubnetRange`, `LookupLongest`, `LpmImplementsTable` | `LpmTypeOK`, `SubnetIsRange`, `LookupIsLongest`, `RefinesPrefixTable` | |

### Assumptions

* On constants: `SketchAssumption` (`1 < HIT_COUNT < CountMax`; a saturated count would
  otherwise equal the threshold for ever), `HalAssumption` (finitely many slots, counters
  wide enough to count them, TTL parameters in the order of the code's), `OffloadAssumption`
  and `TrafficAssumption` (as many buckets as slots or more, `Traffic` consists of
  packets), `RouteAssumption` and `NeighAssumption` (finite tables, 32-bit counters wide
  enough for the result array and for all neighbours; static neighbours are for known gateways), `PositionAssumption` (two keys of a hash have
  different positions, none of them negative),
  `VrfAssumption` (slots and addresses are finitely many and slot 0 is `NULL`), `TreesAssumption`,
  `WidthAssumption`, `TextsAssumption` and `LookupsAssumption` (addresses have bits, the texts
  and addresses of the calls are ones the parsers yield), and in `Forwarding` the size of
  pool and result array and that 0 is no MAC. They hold for the sizes the code configures,
  and TLC evaluates them in the runs.
* The conditions are those of section 3, where the code does not hold without them:
  `EarlyTraffic = FALSE` is refuted otherwise by `early_traffic`, `ReuseKeys = FALSE` by
  `tunnel_stale`; `Disjoint` says that VRFs share no encapsulation (`route.c:225`). The rib, the fib, the next hops and
  the rollback of `RouteFib` need none of them. `BakUnmapDeletes` says where a finding does
  not bite: `tunnel_stale` refutes the same property for `agent/`.

### The arguments

**Sketch.** The refinement maps a zero fingerprint to an unused bucket and any count
above `HIT_COUNT` to an already reported run; the step case splits on whether the
fingerprint matches. `FlagMeansFullRun` speaks of the last packets at a bucket, which the
instance `MCSketch` records: `RunInv` says that the register's count is not larger than
the run at the end of that record (`CountIsRun`), and what the metadata of a raised flag
are.

**Hal.** `BufferIsCallers` is inductive with the types, since a thread writes the buffer
only after it found the mutex free. `IndexInv` adds to `EntryCarriesIndex` that while
`main` is before its switches the table and the queues are empty and the callbacks idle,
and that afterwards `index_repalce_action` stays on. `TableInv` adds to
`CountersDescribeTable` that a call names a flow and that only entries are tagged; each
effect of the driver changes the counted sets by one element, and the uint32_t counters
by one modulo `U32`, which is the same since the table is smaller than `U32`.
`ShortenOnlyWhenFull` follows, as the balance computes with counters that are right.
`LedgerInv` adds which thread makes which calls (`CallerInv`) and that nothing is
counted before the switches; the ledger is a congruence modulo `U32`, because the totals
wrap.

**Offload.** Every step of the loop is a `HalNext` step or leaves the variables of `Hal`
alone (a packet that is reported is a `Report` of its flow), so that the theorems about
`Hal` carry over. On the other side every packet that counts is an arrival of `ActiveFlow`
at a bucket that exists (`BucketType`), and the threads do not touch the registers:
`LoopReportsEachRun` holds whatever the table does between two packets.  It is stated as a
theorem only.

**RouteFib.** `RouteInv` is `Consistent(dp)`: the record has its fields (`IsTables`); rib,
fib, results and prefix counts fit together and paths are lists without repetition
(`RoutesOK`); next hops have positive counts (`HopsOK`); the neighbours are well-formed,
counted in `neigh_count` and, if `Disjoint`, referenced by exactly their users
(`NeighInv`); and every next hop is counted by the results that use it (`Counted`).
Inside a call the last part is false: a new next hop is counted before a result holds
it, a removed one after. `Counted(s, X)` therefore allows the next hops in `X` one
reference more. Creating adds to `X`, switching prefixes to a result moves elements
between `X` and the results, releasing takes from it, and every path of every call ends with
`X = {}`. The deletes release next hops in a loop; a recursive function gives the tables
after `n` rounds, and the claim for all rounds is shown by looking at the first round
that would break it. For `FailedCallUndone` the lemmas of the creating operators say
that their undoing counterpart restores next hops and neighbours, counters
that wrapped included. `Quiet` says of each operator that it fails no assertion but those on a position. The
refinement reads rib and results as a map, and each call as one step of `RouteTable`.

**VRFs and tunnels.** `TunInv` is `SlotsOK` (slots, names, counts), `MapOK` (each live
object is where the hash says) and `ListsOK` (the lists of the VRFs hold exactly the
live objects). The hash may hold dangling addresses besides; with `ReuseKeys = FALSE`
no call follows them. `ListTheorems` has the facts about first free slots and lists
without repetition that these proofs and those of `RouteFib`, `Forwarding` and `LpmTrie`
share. For `NewVrfsEmpty` `FreeSlots` is added: no route belongs to a free slot, and its
address is unset. The next hops of a VRF all lie in results of its routes (that is where
`RouteInv` and `Disjoint` are needed), so an empty rib leaves none.

**Rule chain.** `RouteInv` is an invariant of `RuleChain` too: a step runs a route call, the
cleanup or the constructor of a VRF, or leaves `dp` alone (`StepDp`). Hardware entries
outlive the objects they describe, so `HwChainSound` cannot be inductive by itself. `Ids`
makes it so: `HopNames` collects which next hop an object id stands for, in software
(`SoftHops`) and in every hardware entry left (`HardHops`); `NeighNames` does the same for
neighbours, where a hardware next hop names the neighbour of the VRF that owns it
(`Named`). Both are functions of the id, and bounded by the counters ids are drawn from.
Calls of `route.c` either only take software objects away (`Shrinks`) or add one next hop
and at most one neighbour with ids beyond the counters (`Grown`), for every failure and
rollback; a rule call writes, in any order and up to any failure, entries that software
objects justify at that moment (`Written`). `Linked` and `HardLinked` tie the neighbour id
that a next hop copies to the gateway of its VRF. Id 0 is no name (`NeighNames` leaves it
out), so that a neighbour created statically joins without one and disturbs no other
(`Joined`, `JoinIds`). `RulesResolve` follows the
lookups of a successful call: each has just put its own entry (`LookupIn`, `NeighIn`,
`TunnelPresent`), and the next does not disturb it (`TunnelKept`).

**Prefixes.** `FibInv` says that every map of `Fib_Hash` holds canonical prefixes of its
own family and length. That `getMask` has a one exactly at the first `mask` bits is shown
for the shifts of v4 and the byte loop of v6 (`MaskBits`); the broadcast address then
bounds the addresses that share the subnet's bits (`SubnetRange`). For the refinement, two
canonical prefixes that cover the same addresses are equal (`CoversInjective`), so that
the maps are one table of blocks. For `LookupLongest`, a stored prefix covers an address
just if it is the address's own subnet of its length (`NetOf`), which is what the
walk asks each map for, and a longer one covers fewer addresses (`LongerIsSmaller`).

**Forwarding.** `BootInv` ties main and the packet thread together through
`pmd_thr_stat`; that every table exists then is a counting argument on `Boot`. `LockInv` says
who holds `dp_locker`, and needs `BootInv` because a failing initialisation ends main
wherever it is. `KvInv`: the next hop read first is still the one the result leads to.
`TablesInv` describes the tables in the middle of a call: `Phase` has one disjunct for
every list of steps that may be left, each saying whether the next hops are `Exact`ly
those of the route or one `Extra` is held, and which result is unreachable or about to be
switched to. `ReaderInv` places the packet thread at a result of the route, which only a
holder of the lock changes: hence `ReadsLive`. `MacInv`: a MAC is half written only inside
the call that writes it. `RefInv` counts the references to neighbours, `PoolInv` the
mbufs.

### Only model-checked

* Liveness (`LearnAcknowledged`, `AgingReturns`, `DigestSettled`, `PacketFreed`,
  `CallReturns`, `MainGetsReady`): fairness is out of the prover's reach.
* What a run with a violation checks: `RuleFindsVrf`, `SignalEndsProcess`, and outside the
  conditions of their theorems `UnmapDeletesEntry` and `CountersDescribeTable`. TLC refutes
  them.

Every safety invariant and action property that a passing run checks, and every
refinement, is also a theorem.

## 5. Not modelled

The patched driver beyond what its callers rely on; output ports, checksums and
the empty egress; `hal_route_entry_mod` and `hal_route_table_size_get` (no
caller); the commented-out bulk tests and the offline pcap tool
`driver_cuckoo_hash_get.cpp`; logging and error strings; in the agent, the learning
of MACs (`neigh_probe_xmit`, the notification pipe and the discovery timer are declared
and have no body), statistics, checksums, the de-initialisation
that `ntb_netio_run` never reaches, option parsing and the start of `bf_switchd`; in
`common/`, address sets, the tokenizer and the log; `flow_processing`, an offline
aggregation of a text file; the P4 programs in `p4src_dev`, `p4src_test` and
`p4src_test2`, which the build does not use; generated output in `build` and `docker`.

## 6. Plan

1. **Model**: neighbour learning (`neigh_probe_xmit`, the notification pipe), once the
   repository has its code; the insert of `agent/` as a chain of steps seen by the packet
   thread with hardware writes in between, which would join `Forwarding` and `RuleChain`.
2. **Proofs**: `NewVrfIsEmpty` and `HwChainSound` for VRFs that share encapsulations, once
   `route.c:225` looks next hops up by VRF.
