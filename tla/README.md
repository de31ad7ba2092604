# A verification project for behavioral-model

behavioral-model (bmv2) is a software switch that executes P4 programs. It is
multi-threaded: packets run through receiving, ingress, egress and transmit
threads while control clients add and remove table entries, members, groups and
mirrors, write registers, acknowledge learning notifications, reset the state,
replace the whole P4 configuration and stop packets in a debugger. This directory
holds TLA+ models of that system, the TLC configurations that check them and TLAPS
proofs.

## The system

| Part | State it keeps | Operations | Talks to | Module |
| --- | --- | --- | --- | --- |
| match unit (`match_units`, `handle_mgr`) | slots, handle manager, entry count, metadata of each slot (timestamp, timeout, counter, version), lookup structure | add, delete, modify, get, lookup, ttl, counters, sweep, reset | lookup structure, ageing monitor, packets | `MatchUnit` |
| lookup structures (`lookup_structures`, `bf_lpm_trie`) | stored keys | add, delete, lookup, clear | match unit | their promise, in `MatchUnit` |
| indirect tables (`match_tables`) | members, groups, reference counts, default entry | calls on members, groups and entries, lookup | match unit, packets | `IndirectTable` |
| ageing monitor (`ageing`) | handles reported by the last sweep | sweep thread, reset, stop | match unit, notifications | `AgeingMonitor` |
| learn engine (`learning`) | double buffer of samples, filter, buffers waiting for an acknowledgement | learn, transmit thread, ack, timeout, reset, stop | pipeline threads, controller | `LearnList` |
| contexts and switch (`context`, `switch`) | two generations of P4 objects per context, swap flags | load, swap, reset, every runtime call | all of the above | `ConfigSwap`, `Runtime` |
| RPC server (`Standard_server.ipp`) | none of its own | every runtime call, errors as exceptions | switch | `Runtime` |
| packets and PHV pools (`packet`, `phv_source`) | header vectors in use and free, per context | create, clone, change context, destroy | switch, targets | `ConfigSwap`, `PacketPath` |
| queues (`queue`, `queueing`) | bounded queues, logical queues with rates and priorities | push, pop, capacity, rate | targets | `Queueing` |
| replication engine (`simple_pre`, `simple_pre_lag`) | multicast groups, L1 and L2 nodes, LAGs, handles | group, node and LAG calls, replicate | simple_switch | `SimplePre` |
| simple_switch target | its queues, mirrors | four kinds of threads, mirror and queue calls | everything | `SimpleSwitch` |
| debugger (`debugger`) | break, watch and stop state per packet and field | packet and field notifications, requests of clients | pipeline threads, clients | `Debugger` |
| JSON loading (`P4Objects`) | name tables of every kind of object | `init_objects`, `reset_state` | contexts | `Loading` |
| parser, deparser, headers, stacks | header vector, packet bytes | parse, deparse, header and stack primitives | P4 program | `PacketPath`, `BitFields` |
| expressions, conditionals | flat operations, temporaries | build, eval | P4 program | `Expressions` |
| actions, registers, meters, counters | stateful arrays with locks | execute an action, read, write, reset, set rates | pipeline threads, controller | `Stateful` |
| checksums | | `cksum16`, update | deparser | `BitFields`, `PacketPath` |
| device managers, port monitor (`dev_mgr*`, `port_monitor`) | the ports of the manager, of the monitor, of the BMI library | add, remove, status by message, poll of the interfaces, callbacks | RPC clients, interfaces, listeners | `Ports` |
| BMI, transport, loggers, options, bm_apps, tools | I/O | | | none |

What is hard about it, and what the properties are for:

* handles are reused, with versions that tell an old handle from a new one;
* reference counts are kept by hand over seven operations, several of which can
  fail in the middle;
* the learn engine hands a buffer from thread to thread and unlocks while it
  sends, while a reset may come at any time;
* a configuration is replaced under running threads, by a protocol of spinning,
  flags and pools, while runtime calls look objects up in it, some of them without
  the lock;
* threads of the target push into the bounded queues that they, or each other,
  read, and sleep on condition variables with times of their own;
* the replication engine takes three locks one by one, in several orders;
* locks of an action's registers are taken and released one by one, with flags
  that live in the action and not in the execution;
* header vectors, stacks, temporaries and checksums are reused from packet to
  packet, and a field exists as bytes and as a number;
* fields of any width start at any bit of a byte;
* the debugger takes requests from whoever connects, attached or not;
* the port monitor is told of a port before the device manager has tried, and tells
  its listeners when it no longer holds its lock.

PROJECT.json lists the hazards line by line.

## Modules

| Module | Models | State and actions |
| --- | --- | --- |
| `AbstractTable` | what a table promises: a set of (handle, key, value), and handles that are never used twice | specification only |
| `MatchUnit` | `MatchUnitGeneric` with its handle manager | one action per call; a key is abstract, masking is the function `Canonical`, a packet prefers stored keys in the order `Prefers` |
| `AgeingMonitor` | extends `MatchUnit` with the sweep thread | a sweep reads the clock, looks at one slot after the other while packets go on, lets the lock go and reports; the clock may be set back, and then the assertion of `sweep_entries` ends the process; the reset is two actions, tables and then monitor, as in `P4Objects::reset_state` |
| `IndirectTable` | `MatchTableIndirect` and `MatchTableIndirectWS` | one action per call; a failed assertion sets `fault` and ends the behaviour |
| `LearnList` | `LearnEngine::LearnList` | callers, the transmit thread in its four stages (wait, header, send, finish), condition variables with spurious wake-ups |
| `ConfigSwap` | load and swap of configurations, PHV pools, packets | clients go from context to context; the receiving thread goes through `do_swap` step by step; a P4 object is a configuration with a serial number |
| `Runtime` | the calls of the RPC server on a `Context` | a client calls, locks (shared, exclusive or not at all), works on the generation it looked up, and gets an answer, an exception or ends the process; a match key is built, and may fail its assertion, before anything is locked; a load may fail half-way |
| `SimpleSwitch` | threads and queues of the target | a pass over a packet is one step up to each push into a queue; egress queues are bags, because send times and ties between them are left open; a copy keeps `clone_spec` or not, for the field list it is made with may hold it, and the parser that runs over an ingress clone may set it (`ParserClones`) |
| `Queueing` | `Queue`, `QueueingLogic`, `QueueingLogicRL`, `QueueingLogicPriRL` | writers and workers in the steps between their waits; a sleeping worker has a deadline; the clock moves, and may be set back |
| `SimplePre` | `McSimplePre` and `McSimplePreLAG` | clients whose calls are split at every lock; a packet that visits the nodes of a group one by one |
| `Debugger` | `DebuggerNN` | packets that enter, notify and leave; the request loop with its keep-alives, which takes any request at any time: only `ATTACH` and `DETACH` look at `attached`, and `p4dbg` goes on after it was refused; the history `astray` says that with nobody attached somebody asked to stop packets |
| `Ports` | the BMI, packet-in and files managers with the active, passive and dummy monitor | an operation goes from the monitor's lock to its listeners and to the manager's lock step by step; an interface goes up and down, and is polled |
| `Stateful` | `ActionFnEntry::operator()`, `RegisterSync`, registers, counters and the token bucket of a meter | threads that take the locks of their action (`boost::lock`, external: all of them, without deadlock), read their arguments, run primitives one at a time and unlock; an index may be out of range, which ends the process; a controller that writes and resets |
| `Loading` | `P4Objects::init_objects` | one action per section of the JSON file, in the order of the code, with the outcomes ok, failed, exception and crash |
| `Expressions` | `Expression` and `Conditional` | build a tree, flatten it, assign temporaries, evaluate one operation at a time |
| `PacketPath` | `Parser`, `Deparser`, `Header`, `HeaderStack`, `PHV` and the primitives of the target on them | a packet is parsed state by state (extractions, sets from fields, constants, expressions and lookaheads of any width), modified (`add_header` and `add_header_fast`, `modify_field` whether the headers are valid or not, stacks), cloned, deparsed and destroyed; its PHV goes back to the pool |
| `BitFields` | `Field::extract`, `generic_extract`, `generic_deparse`, `cksum16` | a header is extracted, a field assigned, a checksum computed, the header deparsed |
| `MatchUnitProofs`, `ConfigSwapProofs`, `IndirectTableProofs`, `LearnListProofs`, `QueueingProofs`, `SimplePreProofs`, `StatefulProofs` | theorems about the module they are named after | inductive invariants and proofs only |
| `Services` | `Debugger`, `Runtime` and `Ports` side by side | one of the three services runs; they share no state |
| `SwitchProofs` | theorems about `SimpleSwitch` and `Services` | inductive invariants and proofs only |
| `MC*` | instances of the above for TLC | `MCInputs` holds what the parts of `MCSequential` are run on |

How they compose. `AgeingMonitor` extends `MatchUnit`, and `MatchUnit` is shown to
implement `AbstractTable`. `ConfigSwap` and `SimpleSwitch` share the protocol of
`do_swap`: the first has it in detail with one pipeline thread, the second takes it
as one step and has all the threads and queues. `Runtime` has the other side of it,
the clients. `PacketPath` treats a header as whole bytes and `BitFields` has the
bits inside them. `MCLearning` instantiates `LearnList` twice, as a busy list with
two callers and resets and as a calm one with one caller. `MCSequential` and
`Services` (instantiated by `MCServices`) put parts that do not interact side by side
and choose one of them in the initial state, so that a run covers the sum of their
states and not the product: a property of a part is stated where that part was chosen (the indirect table,
which `MCSequential` extends, otherwise stays in its initial state).

## Runs

Runs that pass:

* `table` (`MCMatchUnit.cfg`): two slots, three stored keys, two user keys masked to
  one of them, one refused key, slots that are used twice. `StaleHandlesRefused` says
  that the handle of a deleted entry never reaches its successor, `IInv` is the
  inductive invariant of the proofs, and `ImplementsAbstractTable` says that the match
  unit implements `AbstractTable`, results of every call included. `MaxGeneration` is
  below `VersionMod`, so that no version wraps: all three are claims up to the wrap,
  beyond which the code accepts a handle of an earlier entry.
* `ageing` (`MCAgeingMonitor.cfg`): a sweep builds its handles from the version in the
  metadata of a slot, and that is the version of the entry (`SweptHandlesUsable`; the
  other metadata of a reused slot is not compared); an entry is not reported in two
  consecutive sweeps nor withheld in two, though clients come between the collecting and
  the report; an expired entry that stays is reported, unless the assertion of
  `sweep_entries` ends the process: a packet that hits an entry after the sweep read the
  clock, or a clock that is set back, makes it fail.
* `learn` (`MCLearning.cfg`): two callers, resets, acknowledgements of samples and
  buffers. A sample in the filter waits to be sent, is being sent, or waits for an
  acknowledgement that will find it (`AcksAreSound`), for a controller that acknowledges
  a sample once (`Careful`; `LearnList_retry.cfg` has the other). In the calm instance (one
  caller, a timeout, no reset) samples are sent and calls return
  (`CalmListServes`).
* `swap` (`ConfigSwap.cfg`): a packet is processed with the configuration its
  headers were laid out for, and pools hold no header vectors of another one
  (`PhvFitsConfig`); the pipeline thread never starts on a packet with stale
  pointers. The statements carry the condition that no packet moved into a context
  that `do_swap` had already seen empty (see `ConfigSwap_moves.cfg`).
* `switch_queues`, `switch_live` (`MCSimpleSwitch_queues.cfg`,
  `MCSimpleSwitch_live.cfg`): logical queue sizes count their elements; a request to
  clone is served for one packet and once, though replicas have the whole PHV, field
  lists may carry `clone_spec` into clones, resubmitted and recirculated packets, and
  egress resets it only if the mirror is mapped (`ClonedOnce`); the switch empties
  itself, and the swap that blocks the receiving thread takes place (`SwitchStaysLive`).
* `queueing` (`MCQueueing.cfg`): the four queue classes side by side. A worker does not
  sleep past the send time of an element (`NoLostWakeup`), elements of one logical
  queue and priority leave in the order they came even when rates change and the
  clock is set back (`LeaveInOrder`), and blocked writers and queued elements get
  through (`EverythingIsServed`).
* `pre` (`MCSimplePre.cfg`): tables and handle managers agree, and L1 and L2 nodes point
  at each other one to one; a replication sees one state of the tables, and meets a
  missing node only if a client destroyed one that was still in a group
  (`ReplicationIsSound`); no two calls wait for each other for good.
* `services` (`MCServices.cfg`): the debugger, the runtime interface and the ports. As
  long as nobody who is not attached asked to stop packets, a reply is not overwritten
  by a second one and a detached debugger stops nobody (`ProtocolKept`), and packets do
  not hang; a stopped switch is still (`StoppedMeansStopped`), and requests are answered
  (`NobodyHangs`), whoever sends them. A call under `request_mutex` works on the newest
  live configuration (`UpdatesReachNewest`), and every call is answered. What ends the
  process in the handlers and in the calls of `Context` is an unlocked call, a failed
  load, a parameter of no known type in a match key or an index that nobody checks
  (`FaultsHaveCause`); assertions inside the table methods are the subject of
  `IndirectTable` and `MatchUnit` and not repeated there. Manager, monitor and listeners
  agree on the ports, except where an operation failed after the monitor was told, or
  two for one port overlapped (`PortsInStep`).
* `stateful` (`MCStateful.cfg`): register updates of an action are atomic, the meter
  conforms to its rates and counters agree unless a documented race occurred
  (`StatsConform`), and an abort has a cause that is named.
* `sequential` (`MCSequential.cfg`): the parts that run in one thread or under one
  lock. Indirect tables: `CountsAccounted` says that a reference count differs from the
  number of uses exactly by the calls that failed after lowering it;
  `NothingInUseIsDeleted` that the counts otherwise protect what is in use. Loading:
  every reference of a well formed input is resolved by the order of the sections, and
  arithmetic is enabled for every field that is read as a number. Expressions: the
  flat code computes what the tree means, with the registers it declares
  (`EvalIsSound`). Bits: fields are the slices of the header that their offsets
  say, are emitted as they are, and a written checksum verifies; the three
  statements exclude the layouts of the finding below. Packets: number and bytes of a
  field agree wherever arithmetic is enabled and stacks, but for those of clones, count
  their valid headers (`PhvConsistent`), and what is sent is what parser, primitives and
  clones left (`EmitsWhatItHolds`). The last leaves open, byte by byte, what
  `add_header_fast` and a push make valid without a reset and what `modify_field` takes
  from an invalid header: that may be a value of the packet that had the PHV before.

Properties that state what a line of the repository says, or what one would expect
of it, and that TLC refutes. The first is a run of PROJECT.json, whose finding
quotes the line; the others can be repeated with the configuration named here.

| Configuration (module) | Property | What the code does |
| --- | --- | --- |
| `MCSequential_tested.cfg` (`MCSequential`) | `FieldsAsTested` | a field that starts inside a byte and ends in the next one keeps a bit of its predecessor: `generic_extract` masks the first byte before it assigns the last one, which is the same byte for a field narrower than a byte |
| `IndirectTable_asserted.cfg` (`IndirectTable`, with `-continue`) | `HitFindsMember` | `modify_entry` lowers the count of the old target before it checks the new one and returns an error: the member can be deleted under the entry, and `assert(is_valid_mbr(mbr))` fails |
| same | `MembersOfGroupsStay` | the same lowered count lets a member of a group be deleted (match_tables.cpp:895) |
| same | `MissFindsMember` | the default entry is not counted (match_tables.cpp:451) |
| same | `GroupsLookedUpAreNotEmpty` | a group in use is emptied, or an empty one is made the default (match_tables.cpp:813) |
| same | `GroupHandlesMatchVector` | a reset forgets the groups and not their handles (match_tables.cpp:848) |
| `LearnList_blocked.cfg` (`LearnList`) | `CallsReturn` | a reset empties `buffer_tmp` and wakes nobody up: the pipeline thread that waits for it waits for good |
| `LearnList_callers.cfg` (`LearnList`) | `CallsReturn` | two waiting callers and one wake-up (learning.cpp:258) |
| `LearnList_reset.cfg` (`LearnList`) | `FilteredIsNotified` | a reset during a transmission, then a full buffer: the returning transmit thread clears it unsent (learning.cpp:318) |
| `LearnList_retry.cfg` (`LearnList`) | `RepeatedAckReturns` | a repeated acknowledgement erases an iterator twice (learning.cpp:275) |
| `LearnList_timeout.cfg` (`LearnList`) | `SampleIsSent` | a timeout is set while the transmit thread waits without one (learning.cpp:131) |
| `ConfigSwap_moves.cfg` (`ConfigSwap`) | `PoolIsEmpty`, `SwapIsSwitchWide` | a packet enters a context between the spinning and the new factory (phv_source.cpp:39); packets arrive when `swap_configs` has visited half of the contexts |
| `MCSimpleSwitch_resubmit.cfg` (`MCSimpleSwitch`) | `ResubmittedIsParsedAgain` | the ingress thread waits for room in the queue that it alone reads |
| `MCSimpleSwitch_fields.cfg` (`MCSimpleSwitch`) | `QueueingFieldsExist` | `with_queueing_metadata` is never cleared (simple_switch.cpp:233) |
| `MCSequential_clones.cfg` (`MCSequential`) | `StackCountsAsDocumented` | a clone copies the headers of a stack and not its `next` |

Other behaviours of the code that the models contain, found while translating it,
and that the properties above take into account:

* `RegisterSync` keeps its `unique_lock`s in the action: two threads that run the same
  action share them, and lock or unlock twice, which throws (`AbortsHaveCause`).
* `ActionParam::to<const Data &>` returns references into a vector of temporaries that
  may grow under them; an argument read before the growth is left open.
* `Meter::execute` reads `configured` and the clock before it takes the mutex, and a
  refused `set_rates` leaves the rates half written.
* `RegisterArray::reset_state` says `auto lock = UniqueLock();` (stateful.cpp:27), a lock
  of nothing: `ExclusiveAsDocumented` of `Stateful` fails, and `RegisterUpdatesAtomic`
  excepts the reset.
* A client that is not attached to the debugger can stop packets that nobody lets go: its
  `CONTINUE` ends in a keep-alive that stops the switch (debugger.cpp:865-869), its
  `DETACH` is refused, and its break points can make an event find a reply that is not
  sent yet (`assert(!reply_ready)`). A client that attaches repairs all of it but
  `break_next`, which a `NEXT` without an attachment leaves set.
* An operation on a port that the manager refuses leaves the port with the monitor
  (dev_mgr.cpp:115), and listeners can hear of two events in the other order than the
  monitor noted them (port_monitor.cpp:121, 188).
* A swap of two fields of which only one has arithmetic enabled leaves a stale number.
* A pushed header of a stack, and a header of variable length that is added, keep the
  bytes and the length of their previous use.
* The parser reads past the end of a short packet, and `Packet::remove` asserts
  afterwards; `get_next` asserts on a full stack and `get_last` on an empty one.
* `Field::deparse` clears bits of its neighbour for some layouts (a field that starts
  inside a byte, is wider than a byte and would need more padding to whole bytes
  than its offset: widths 3 and 9, say); `EmitsItsFields` leaves these layouts out.
* `QueueingLogicPriRL::size(queue, priority)` returns the size of the whole queue.
* `load_new_config` called twice before the first call has returned is accepted twice
  (switch.cpp:182): `OverlappingLoadRefused` of `ConfigSwap` fails as soon as there are
  two clients.
* Two clones of a packet that live at the same time can carry the same copy id:
  `CopiesDistinguished` of `Debugger` fails with three packets.

## Bounds

Every bound is a constant named in its module. Two slots are enough for an entry
to take over another's slot while a second one is unaffected; three keys for a
full table. `MaxGeneration` keeps each slot below `VersionMod` deletions.
`MaxAge` bounds the ages of timestamps (and how far they may lie in the future), in
ticks above the largest timeout; the ageing run identifies states that differ only in
the result of the last call (`VIEW`), which the monitor does not look at. In
`LearnList`, `MaxLearned`, the number of changes of parameters and of resets bound
the run (two samples and two changes for the busy list); buffers hold two samples, so
that a buffer can be empty, partial and full.
In `ConfigSwap` two packets are enough for one to be processed while its clone waits,
and `MaxLoads` is 2 so that a second configuration is loaded after the first was
swapped in. In `SimpleSwitch` queues hold one or two packets and a packet descends
from at most one other: a program that recirculates or resubmits for ever can keep
the switch busy, and then no swap completes. In `Queueing` two logical queues are
shared by one worker, so that a wake-up can be for the other queue; a rate is the
number of ticks between two elements (a rate of zero, by which the code divides, is
left out). In `SimplePre` two clients
and one packet make every pair of calls overlap. In `Runtime` two clients do the
same, and a configuration is loaded twice. In `Debugger` three requests are enough for a
client that comes in between two of another; `MaxUpdates` counts the updates of all
packets, and `Filters` lists the filters a client may set. In `Ports` two clients and the
receive loop make three operations (`MaxPortCalls`) on two ports, and interfaces change
twice (`MaxFlips`). In `Stateful` two threads, two registers
and one controller give every order of two locks. `BitFields` has bytes of three
bits in the passing run, so that all layouts of a header of two to three bytes and
all contents are covered, and bytes of eight bits for the layout of the finding.
`PacketPath` has two packets (a packet and its clone, or a packet and the next one that
reuses its PHV), bytes of three values and a stack of three headers. `Expressions` has
trees of depth three over small numbers; `Loading` one object of each kind and its
misspelt references.

`CHECK_DEADLOCK FALSE` is given where the modelled process ends (a failed assertion,
a destructor, a finished input) or where a bound stops the last action.

## Fairness

Only the threads of the switch are fair, and only weakly: they are started once
and loop for ever, and a step that stays possible is taken. Clients need not call,
and the controller need not acknowledge; a call that was made goes on.
`ConfigSwap` also assumes that packets keep arriving, because a swap is carried out
by the thread that receives the next one. `SimpleSwitch` needs no strong fairness:
`SwitchStaysLive` is about times when no new packets compete for the queues. In
`Queueing` time passes (a worker that sleeps until a deadline wakes up after it), and
the order in which a mutex is granted is left open wherever the property does not
depend on it. In `SimplePre`, `Runtime` and `Stateful` a thread whose lock stays free
gets it. In `Debugger` packets end, the request thread runs and its wait of 100 ms ends; the
client need not ask, so that a client that stays attached and silent may hold
packets up for good, as it is meant to.

## Proofs

A theorem holds for every value of the constants that satisfies the named assumptions of
its module (`SizeAssumption`, `SwapAssumption` and so on: sizes and moduli are positive,
maps have the domains the code gives them, markers such as "none" are not keys, no
connection is taken for "no one", and multicast groups are lists of ports of the switch). A
further hypothesis is part of the theorem and is named below. The properties proved are
the ones the runs check, or parts of them; the invariants behind them are defined in the
proof modules. Each proof has one lemma or step per action; facts about what an action
does to one group of variables are lemmas of their own.

**`MatchUnitProofs`**: `IInv` is inductive, and from it follow `TypeOK`,
`LookupConsistent`, `StaleHandlesRefused`, `SweptHandlesUsable` and the refinement of
`AbstractTable`. None of these is inductive by itself. That the slot `get_handle`
returns lies inside the vectors follows only from `num_entries` being the number of
handles in use: among `Size` slots of which fewer are taken, the least free number is
below `Size` (lemma `FirstEmptyIsFree`). That a stale handle stays refused after an
addition needs an account of all handles ever returned (`HandlesAccounted`), and that
versions count deletions (`VersionsCount`): then nothing issued for the slot before can
carry its present version. The swept handles are built from the version in the metadata,
not the one in the entry; `MetaVersions` says that the two agree. `RefinesAbstractTable`
shows that every call is a call of the abstract table with the same result, or a
stutter; its hypothesis `MaxGeneration < VersionMod` says that no slot is deleted from
more often than its version can count, beyond which the code does hand out an old handle
again. `MonitoredTableIsTable` shows that a match unit under the ageing monitor is the
match unit of `Spec`, so that these theorems hold while it is swept
(`ReportedHandlesAreUsable`). `SweepsDoAlternate` needs one fact more, `SweepRemembered`:
what the monitor remembers is what the last sweep reported, and is disjoint from what
that sweep passed over, also after a reset.

**`ConfigSwapProofs`**: `SwapInv` is `TypeOK`, `PhvFitsConfig`, what `do_swap` waited
for staying true until it has left the context (`SpunIsEmpty`), the input buffer holding
live packets once each, and an account of the pointers that the pipeline thread keeps
(`CacheAccounted`): they are good or will be refreshed, except into contexts that
`do_swap` has passed, and no packet is in those. From it `PhvFitsConfig` and
`CachedPointersFresh`, both with the exception for packets that moved between contexts;
and `PoolEmptyWithoutMoves`: with a program that moves none (`~Moves`), the assertion of
phv_source.cpp holds.

**`IndirectTableProofs`**: `IndirectInv` is the types, `CountsAccounted` (a count is the
number of referring entries and groups less the uses given up by failed calls, modulo
the width of the counter) and `DanglingDrifts` (an entry that refers to nothing is one
of those). `NothingInUseIsDeleted` needs one more hypothesis, `CountsSuffice`: the
counter does not wrap, `Cardinality(Keys) + MaxGroups + MaxDrift < CountMod`.

**`LearnListProofs`**: `LearnInv` has the types, that a node in the record of a buffer
carries the id and the position of its place, and `FilterAccounted` (each node of the
filter is in the record of its buffer, and `unacked_count` is the number of them).
`NotifyInv` says, until a reset meets a notification being sent, that what is in the
filter is notified or still buffered and that the buffer in flight is `buffer_tmp`. For
`AcksAreSound`, `SwapsBounded` bounds the number of ids given out by the number of
samples and calls, so that ids are not reused (`IdsSuffice`, `2 * MaxLearned +
MaxChanges < IdMod`, with finitely many callers), and `AckInv` follows each sample from
the buffer through the message to the acknowledgement.

**`QueueingProofs`**: `DataInv` says that elements lie with the worker of their queue,
that those of one queue and priority were stamped in the order they came, and that the
sizes kept by the classes count them; it gives `TypeOK` (with a largest capacity,
`LargestCapacity`) and `LeaveInOrder`. `WakeInv` gives `NoLostWakeup`: a waiting worker
has a deadline that covers its elements, or a writer that will notify it is on its way.

**`SimplePreProofs`**: `ThreadInv` says where each call is and which locks it therefore
holds; from it `LocksExclude` and `TablesFrozen`. `TableInv` keeps L1 and L2 nodes
paired and the handle managers equal to the domains of the maps (`HandlesMatchEntries`),
though creating and destroying a node each take several lock sections. `ListsMatchNodes`
says that lists name existing nodes until a client destroys one in a group, which gives
the second half of `ReplicationIsSound`, `FaultsHaveCause`. `VisitsInOrder` gives the
first: a packet between two nodes has visited a prefix of the list of its group as it
is now and holds, node by node, the copies that the nodes stand for now, because
`TablesFrozen` keeps groups and nodes as they are while it holds its shared locks; the
state at the end is the prefix that is the whole list.

**`StatefulProofs`**: six invariants. `RegInv`: a thread between locking and unlocking
holds the locks of its action, and a value it read is undisturbed; hence
`RegisterUpdatesAtomic`. `MeterInv`: packets passed, tokens left and rate times base
never exceed burst and the tokens due at the last update, and the rates are ordered
unless a `set_rates` was refused; `CountInv`: the halves of a counter agree unless a
write raced; hence `StatsConform`. `OwnInv` (the flags inside the action) and `TempInv`
(references to temporaries) together with the former give `AbortsHaveCause`.

**`SwitchProofs`**, the debugger: `ProtocolKept` is not inductive. `RequestState` adds
that a request is dispatched with no reply ready and that a client that is not attached
has its reply; `RunsOnRequest` that, under an attached client, packets run only while
a request waits for an event. So an event always finds a request to answer, and the
assertions on `reply_ready` hold. All of it is claimed until a client that is not
attached asks to stop packets, and again from the next attachment on, if that finds
`break_next` off (`astray`). `StoppedMeansStopped` holds of each step by itself:
a packet thread that finds `can_continue` off goes to sleep before it touches anything.

**`SwitchProofs`**, the runtime interface: `RuntimeInv` says that a call in exclusive mode
is the holder of `request_mutex`, that a locked call between its lookup and its end
excludes a holder and works on the last configuration, and that the first configuration
loaded. Since only a holder appends a configuration, `UpdatesReachNewest` follows, and
since the last configuration is alive, a locked call never meets freed objects. The rest
of `FaultsHaveCause` is `CallFacts`: call by call, every code that a table method can
answer has its case in `get_exception_code`, only the calls with a match key can meet a
parameter of no known type, and only the calls for the learn engine, which take no lock,
use an engine that may be null.

**`SwitchProofs`**, the target: `SwitchInv` is that packets in `input_buffer`, in the hands
of a thread, on its list of copies and in a physical queue carry no request to clone that
was served, or that another one carries too, and go to ports of the switch
(`ThreadsInv`), and that the elements of a logical queue, equal
ones numbered, are finitely many, as many as `size` says, and with the port's worker
only (`QueuesInv`). `QueueSizesAccounted` needs all of it: that the worker which pops an
element is the one whose port it brings down, and that the size is not zero then, follow
from the books themselves. `RequestsServedOnce` is the first half.

Only model-checked:

* liveness, since `ENABLED` and fairness are outside the prover;
* what recursive definitions and folds compute, which needs induction over data: the
  properties of `Expressions` and `PacketPath` (recursive operators over trees and bit
  strings) and of `BitFields` (folds over bits);
* `WellFormedLoads` and `ArithWhereRead` of `Loading`. Its operators are not recursive,
  but the two rest on the shape of the JSON inputs (each name declared once, which kinds
  of object a section looks up, aliases apart from real fields), and `Loading` states no
  assumption on `Inputs` from which to prove them; they are checked for the inputs that
  `MCInputs` lists.

All of these run under one lock or in one thread, and `MCSequential.cfg` covers every
input within its bounds.

The safety properties of all the other runs are theorems, but for `PortsInStep` of the
`services` run, which is checked only. `ImplementsAbstractTable` is
proved as the refinement of the safety part of `AbstractTable`, which has no other.

## Not modelled

* Packet I/O of the device managers, the notification socket of the port monitor, BMI and
  transport: I/O on devices and sockets. A packet or a message that arrives or leaves is
  a step of the module that handles it.
* That `boost::lock` takes several locks without a deadlock: `Stateful` takes it from the
  library.
* Loggers, option parsing, start-up (`init_from_command_line_options`), bm_apps and the
  command line tools: formatting and client-side code on which no state depends.
* The default entry, `apply_action` and direct meters of direct tables; the trie
  and the ternary scan inside the lookup structures, which `MatchUnit` takes by
  what they promise.
* CRCs, `csum16` and xxhash: functions of byte strings whose tables have no small
  instance.
* Saturating and signed fields, conversions from and to hexadecimal strings, the
  signature of a packet.
* Data races below the level of a call (a hash map read while it is written, a flag
  without a barrier) unless a module names the outcome; PROJECT.json lists them as
  hazards.

## Plan

1. Done: match unit with its abstract table, ageing and proofs; indirect tables;
   learning; configuration swap; threads and queues of simple_switch; queueing
   logic; replication engine; debugger; runtime calls; loading; expressions; actions
   with registers, meters and counters; packet path; bits of fields;
   ports.
2. Done: theorems about the match unit and its monitor, the configuration swap, indirect
   tables, the learn engine, the queues, the replication engine, the stateful objects, the
   threads of simple_switch, the debugger and the runtime interface.
   A run, and no theorem, about the ports.
3. Next modules: `DirectTable` (apply_action, default entry and direct meters);
   `LpmTrie` and the ternary scan against a reference lookup; an inductive invariant for
   `Ports`.
