# A TLA+ verification project for myfuzz

myfuzz runs scenarios of several real RTL simulations. Each CPU and each device
is a process of its own with its own clock; a Python layer steps them, carries
bus accesses, memory accesses and interrupts between them, and records what
happened so that a run can be replayed from the start. Around it stand the parts
that run many such tests: campaigns, matrices of jobs, fuzz sessions with a host
process, a memory budget shared by processes, a supervisor of heavy commands. This
project models the layer (`src/myfuzz/scenario` and what it drives of
`src/myfuzz/local_harness`) and the parts around it that have state of their own.
Line numbers below are of the files under `src/src/myfuzz/`.

## 1. The system

### Parts, their state and their operations

| Part | Code | State | Operations that change it |
|---|---|---|---|
| Transaction ledger | `scenario/ledger.py` | entries by key, next channel sequence, next target sequence | `accept`, `complete_accepted`, `execute_once`, `cancel_accepted` |
| Dataflow router | `scenario/router.py` | queue of accepted requests, delivery rows, delivery counts, confirmations | `enqueue`, `drain_one`, `transact`, `cancel_for_ledger` |
| CPU sessions | `local_harness/cpu_session.py`, `local_harness/cva6_axi4_session.py` | outstanding beats, sequence counters, reset epoch | accepting a beat, taking a response, `begin_quiesce`, `reset_local` |
| Persistent memory | `scenario/memory.py` | byte cells with versions and writers, initial image, instruction slots, commit sequences, generation | `preload`, `declare_instruction_slots`, `accept_instructions`, `read`, `write`, `reinstall_image`, `warm_reset`, `cold_reset` |
| Memory service | `scenario/memory_service.py` | pending commits, reservations, commit sequence | `read`, `write`, `drain_commit_events`, `ack_commit_events` |
| IRQ pulse delivery | `scenario/irq.py`, `scenario/irq_delivery_group.py` | edge counters, pulse window, members of a group | `observe_source`, `sample_cpu`, `reset` |
| Scenario runner | `scenario/runner.py` | lifecycle status, command epoch and sequence, step receipts, budget, event log | `begin_test`, `step`, `execute_step`, `retire_step_receipts_through`, `inject_source`, `reset_all`, `quiesce`, `finalize` |
| Dependency scheduler | `scenario/scheduler.py` | pending and fired actions, trigger counts | `run` |
| Genome and chunk assembly | `scenario/genome.py` | reassembled chunks | `accept`, `finish` |
| Event journal | `scenario/event_journal.py` | events, spilled chunks, cache of chunks, compressed artifact | `append`, reads, iterators, `write_zlib_chunk_events`, `ZlibChunkEventView` |
| Memory tokens | `integration/memory_lock.py` | a state file under a `flock`, leases of processes | `acquire`, `release`, `snapshot`, reclaiming |
| Experiment matrix | `integration/experiment_matrix.py` | attempts, checkpoints, retry queue, samples | `_run_experiment_matrix`, `_persist_checkpoint` |
| Report publication | `integration/experiment_matrix.py` | four names in a directory, and what of them is durable | `_atomic_write_report` |
| Campaign runtime | `runtime/engine.py` | lifecycle, cases, open keys, the cached report | `prepare`, `start`, `submit`, `finish`, `abort`, `close`, `report` |
| Fuzz session | `fuzz/session.py` | budgets, a queue of lines, the host process | `run_session`, `_pump_lines` |
| Process supervisor | `experiments/resource_policy.py` | the processes of a command, what was seen of them | `run_budgeted_process`, `_stop_process_tree` |

### Behaviours that make it hard

* target operations are callbacks in the middle of a ledger call, and use the
  ledger themselves;
* a target can fail after it acted, a callback can fail after its target acted,
  a reset can fail after some of the sessions were reset;
* requests of several CPUs over several devices are ordered per channel and
  queued per device;
* a command can be repeated by a caller that lost the answer;
* the clocks of source and destination are unrelated, so a pulse can end before
  anyone samples it;
* processes that share memory tokens die at any point, and their pids come back;
* a report must survive failing calls, another program and a crash of the machine;
* a host or a command does what it likes between two system calls of the process
  that watches it;
* a generator stands still between two items while its journal grows.

The parts left out (RFuzz transport, experiment jobs, search frontier, RTL composition,
protocol catalogues, strategies, reports) are listed in section 7.

## 2. Modules and how they correspond to the code

The layer itself runs in one Python thread. An interleaving arises where a call
hands control to somebody else (a target operation, a callback, the next call of
a scheduler) or stops half-way with an exception. A call that can do that is
split there into several actions, with a variable that holds what the Python frame
holds; everything else is one action per call. A call that raises before it changes
anything is a stuttering step and has no action. In `MemoryTokens`, `FuzzSession` and
`ProcessSupervisor` there are processes or threads, and an action is what one does
between two points where another can be noticed: a lock, a queue, a system call.
Definitions marked "Faulty form"
are slips the code does not make and a property must notice if it did; no
specification uses them.

| Module | Models | State to code | Actions to code |
|---|---|---|---|
| `OrderedDelivery` | what the ledger promises | number of requests issued and settled per channel, what the target does | abstract |
| `TransactionLedger` | `scenario/ledger.py` | `entries`, `nextChannelSequence`, `nextTargetSequence` are the dictionaries; `stack` holds the calls waiting for their operation with the local `expected` | one per call and outcome; `complete_accepted` and `execute_once` have a first part, and end in `OperationReturns` or `OperationRaises` |
| `DataflowRouter` | `scenario/router.py` with the CPU sessions and the runner that use it | `queued`, `deliveries`, `confirmations`; `slots`, `sequence`, `epoch` of the sessions; `call` is the target call in progress, `resetting` a reset in progress | `Enqueue`, `Transact`, `DrainOne`, the three ends of a target call, `ConsumeResponse`, `BeginQuiesce`, and a reset cancelled request by request |
| `EagerMemory` | what the memory promises | a value for every byte | abstract |
| `PersistentMemory` | `scenario/memory.py` | `bytes` with versions, `initialImages`, `instructionSlots`, `commitSequences`, `generation`, `acceptances` | one per public operation |
| `CpuMemoryPort` | `scenario/memory_service.py`, the ports of `local_harness/cpu_session.py`, composed with `PersistentMemory` and `TransactionLedger` | `response`, `waiting`, `sequences`, `epoch` of the session; `pendingCommits` of the service; `phase` and `call` say how far a step has come | an access is validated in one action and committed in the next; acknowledgement, acceptance of instructions and reset come in between steps |
| `IrqDelivery` | `scenario/irq.py`, `scenario/irq_delivery_group.py` and the runner's calls | per source: level, remaining ticks, masks; per group: samples and origins | `Observe`, `CpuStep`, `Reset` |
| `ScenarioRunner` | the lifecycle, STEP commands and budgets of `scenario/runner.py` | `status`, command epoch and sequence, the receipt table, `records`; history of what ran and what was answered | one per call and outcome, with the part of a step before and after the harness ran |
| `DependencyScheduler` | `scenario/scheduler.py` | tables of `run()`: pending, released, counts, previous matches; `pc` is the place in `run()` | `BeginTest`, `Step`, `Observe`, `Release`, `LoopOn`, `Quiesce`, `Finalize` |
| `LeasePool` | what the token pool promises | the leases of living processes | abstract |
| `MemoryTokens` | `integration/memory_lock.py` | `file` is the published state, `draft` the one the holder of the `flock` will publish; `held`, `issued` are the lease objects; `running`, `birth` what `/proc` says of a pid | a call is taken, locks, reads and reclaims, decides, publishes (or fails to), returns; `Die` and the reuse of a pid come anywhere |
| `EventJournal` | `scenario/event_journal.py` | `spilled`, `current`, `cache` as in the class; `reader` is the frame of a generator; `blocks`, `inflated` the artifact and its view | `Append1`, `Get`, one item of an iterator, `WriteArtifact`, `Lookup` |
| `ReportPublication` | `_atomic_write_report` | `dir`: the names; `onDisk`: where each may lead after a crash; the five flags of the code | one per call that changes or synchronises the directory, with its failure; the other program; a crash |
| `ExperimentMatrix` | `_run_experiment_matrix` | the jobs still to run, `retries` (the set of queued jobs; the queue is sorted before each use by a key that tells all jobs apart), `attempts`, `checkpoints`, `samples`, `terminated` | one per execution of a job, with any result the runner may return |
| `CampaignRuntime` | `runtime/engine.py` | `state`, `cases`, `ledger` (keys left open), `recorded`, `report` | one per method; a channel, kernel and plan that fail or drift |
| `FuzzSession` | `fuzz/session.py` | pipes, queue, flags and counts of the loop; the host | the host, the reader thread, one line of the loop, a timeout, the closing |
| `ProcessSupervisor` | `experiments/resource_policy.py` | states and parents of processes; the snapshot under way, `tracked`, `targets`, `pending` | one per system call of the supervisor; fork, setsid, death and wait of the command |
| `Records` | publication, matrix and campaign side by side | the variables of the three | their own |
| `TransactionLedgerProofs`, `DataflowRouterProofs`, `MemoryProofs` (environment memory and tokens), `CpuMemoryProofs`, `RunnerProofs` (runner and interrupts), `DependencySchedulerProofs`, `ProcessesProofs` (supervisor and session), `RecordsProofs` (publication, matrix, campaign) | proofs | | |

`DataflowRouter` and `CpuMemoryPort` use the ledger by `INSTANCE`: every change of
its dictionaries is one of the ledger's own actions, so what they show holds of the
composition. `MemoryTokens` and `IrqDelivery` name their specifications `TokenSpec` and
`IrqSpec`, because a proof module extends each of them beside another part. The `MC...` modules define the constants of the runs. `MCProcesses` and
`MCRecords` put parts that share no state side by side in one run: a variable `part`,
chosen at the start, says which of them moves, so the states are the sum and not the
product of those of the parts.

Abstractions worth knowing:

* Payloads, receipts and byte values are members of small sets. Digests are equal
  when payloads are.
* IRQ ticks are relative to the CPU's tick, so the number of ticks is not bounded.
  The runner resets the group at the reset barrier and steps the CPU tick by tick,
  and both are assumed there.
* How much evidence one record needs is nondeterministic in `ScenarioRunner`, so the
  byte budget can stop the log at any record. The wall clock can expire at any time.
* An IRQ overrun or a protocol violation fails the test, but the step that found it
  still returns its receipt. A growth violation found by `finalize` replaces an
  earlier failure status. Both are as in the code.
* In `MemoryTokens` a lease is a token, a process and a size; the history keeps only
  tokens. Whether `/proc` shows a pid is a choice made while nobody holds the `flock`; a pid
  may come back as a process of another user, which may not be signalled, and a lease may
  have no start time. `_pid_matches` takes all of these for alive. Every state file is one the pool published: the rejection of files written by
  others is not modelled.
* In `ReportPublication` nothing orders directory changes that are not synchronised: after
  a crash each name may lead to any file it led to since the last synchronisation.
  Looking up a name does not fail. A call of the clean-up may fail as well: its exception
  then replaces the first one, which stays in its context with the note it got (`noted`).
* In `ExperimentMatrix` the runner is unconstrained: it may return another job's result,
  one of an earlier attempt or of the wrong kind.
* In `FuzzSession` time is a choice: a stall may be declared whenever the queue is empty.
  `budget.cases` may be missing (`limited`), and then the cases of a batch are bounded in
  the host. The reader thread may meet a line it cannot decode and end there.
  An obedient host keeps to the protocol until it dies, closes its output or falls silent;
  the other kind prints any line at any time.
* In `ProcessSupervisor` a process is its place in the order of births. `/proc` is read
  in that order, pids do not wrap around during one command, and no process of the command
  runs as another user, so `os.kill` and `os.killpg` never raise `PermissionError`: the
  guarantee of `SurvivorsAreNewborn` rests on all three.
* In `EventJournal` the writing of a chunk may fail. Its offset is recorded before, so the
  chunk counts as being in the file (`Torn`); its events stay in the current list.
* In `DependencyScheduler` `begin_test` may be refused and leave the runner `created`;
  `finalize` then raises, and may raise later too.
* A reset restarts edge detection in `DependencyScheduler`: an output still high
  afterwards is a new occurrence, as in lines 113 to 116 of `scheduler.py`.

## 3. Runs

| Run | Configuration | Bounds | Question |
|---|---|---|---|
| `ledger` | `MCLedger.cfg` | 2 channels, 3 sequences, operations nested 2 deep, 2 payloads, 2 receipts; symmetry of channels and payloads | does a key act at most once, in order, with a frozen receipt? |
| `router` | `MCRouter.cfg` | 2 queueing sessions with 2 slots and 1 slot and one that does not queue, 2 devices, 2 beats per session and epoch, 4 in all (an inline one counts as 2), 1 reset | do queue, ledgers, sessions and delivery rows agree after failures, and is everything queued answered? |
| `memory` | `MCMemory.cfg` | a RAM of 2 bytes with 2 windows, a ROM of 1 byte, budget of 2 bytes, 1 cold reset, 2 commits | is the sparse memory a plain memory? |
| `cpu_memory` | `MCCpuMemory.cfg` | 2 words of RAM, one of them a slot, 3 requests, or 2 and a reset, stream capacity 2, budget 3 bytes | can an access be left uncertain, a store lost, a fetch forgotten, anything of the old epoch used? |
| `irq` | `MCIrq.cfg` | 2 pulsed sources (one with a declared baseline) and a level, width 2, any number of ticks | width, separation, attribution and end of pulses |
| `runner` | `MCRunner.cfg` | 2 sessions, 2 commands per epoch, 1 reset, 7 records | repeated, late and reordered commands, failures at any point |
| `runner_final_budget` | `MCRunnerBudget.cfg` | the same with 3 records | the first finding of section 4 |
| `scheduler` | `MCScheduler.cfg` | 2 components, a reset and two inputs with different triggers, 3 steps of up to 2 observations, batches of 1 and 3 | triggers, delays, turns, status, termination |
| `tokens` | `MCMemoryTokens.cfg` | 2 pids with a thread each, a budget of 2, requests of 1 and 2, 2 grants, 2 start times, a history of 1 entry | do leases survive and end with their processes, and no others? |
| `processes` | `MCProcesses.cfg` | a batch of 3 cases with or without a case budget, an output pipe and a queue of 2 lines, an input pipe of 3, 3 lines of a host that does not keep to the protocol; a command of 3 processes | does a session, or the stopping of a command, end, and end right? |
| `records` | `MCRecords.cfg` | 2 files of another program; 2 builds, 3 fuzz jobs of 2 priorities, 0 to 2 retries; 2 cases of 2 records; 7 events of 3 sizes, one of them too long for a block, chunks of 3, a cache of 1 chunk, 1 iterator | is what the program writes down whole, and true? |
| `campaign_report` | `MCCampaignReport.cfg` | 2 cases of 2 records | the second finding of section 4 |

What they show, property by property:

* **ledger.** `ChannelFrontier`: a channel is always a settled prefix, at most one
  request at its target, a pending suffix, so nothing overtakes a request whose
  outcome was lost. `AtMostOnce`: the number of target effects of a key is what its
  status says. `DeliversInOrder`: targets act in channel order, as a refinement of
  `OrderedDelivery`.
* **router.** `QueueIsSound`: the queue holds exactly the pending requests, the oldest
  of each session can always be drained or cancelled, and the "queue accounting
  mismatch" cannot be raised. `AnswersAreTrue`: no answer crosses a reset; rows, counts
  and confirmations match what targets did. `NothingWaits`: every queued beat is
  answered and a quiesce drains everything, unless the runner fails or resets.
* **memory.** `CellsAreSound`: versions name commits, acceptances are of this generation,
  reserved slots are filled by writers only, and the budget is kept although two
  operations do not check it. `ActsAsPlainMemory`: refinement of `EagerMemory`; nobody
  can tell when a byte was materialised.
* **cpu_memory.** `CommitCannotFail`: after validation the commit meets no error, so no
  access becomes uncertain. `StreamIsExact`: every store is published once, in order,
  and survives a reset until it is acknowledged. `PortsAreCurrent`: answers and retries
  belong to their own request and epoch. `FetchServed`: a waiting fetch is answered
  once its word is complete.
* **irq.** `PulseAsSeen`: width and verdict of each pulse are those of the CPU's ticks.
  `TakesAreAttributed`: an interrupt that is taken is put down to this pulse, to one source
  at most, and to none while another source, pulsed or held, drove the line as well.
  `PulsesComeAndGo`: pulses stay apart, and end.
* **runner.** `CommandsRunOnce`: a STEP command is executed at most once and in order,
  its receipt is stable, and an unknown outcome is neither forgotten nor hidden.
  `TestsAreContained`: sessions that were begun are ended, records keep to the budget.
* **scheduler.** `SelectedByItsOccurrence`: an item fires on the rise it asks for, and no
  rise is overlooked. `ReleasedOnTime`: when it is due, after its delay, and batches do
  not change the turns. `CompleteIsTrue`: "complete" needs every item released, nothing
  raised and nothing left. `TestEnds`: every test ends with the runner asked to finalize,
  and `run()` returns a status exactly if that returned and nothing interrupted it.
* **tokens.** `HoldersCovered`: every lease a living process has is in the state file,
  and an exclusive build is the only lease there. `BooksBalance`: the file always passes
  the pool's own validation, and a lease that ended is listed once.
  `RefusedByTheLiving`: an acquire is refused only for leases whose owner lives or cannot be
  told from a living one. `ActsAsPool`: refinement of `LeasePool`, in which a lease ends by
  its release or by the death of its process, and nothing else.
* **processes.** `NothingAfterEnd`: END is the last thing a host is sent, whoever decided
  to stop. `CompletedIsComplete`: a batch that counts as completed has counted every case
  the host reported, each for its own input, and has used up a budget. `SessionEnds`: the session of an obedient
  host ends, wherever it dies, closes its output or falls silent. `SurvivorsAreNewborn`:
  a process of the command that outlives the call was born after the last listing of
  `/proc`; three processes are the least with an orphan whose parent dies between the
  rows. `StopEnds`: stopping ends even if no signal has an effect.
* **records.** `ReportIsWhole`, `OriginalKept`, `FailureTellsWhere`, `ForeignKept`: at any
  point, also after a crash, the report is the old or the whole new one; the old one can
  be found until the new one is durable; the exception, or the one in its context, says
  where; another program's report is not destroyed. `ReportIsAuthoritative`, `CheckpointsComplete`: the matrix
  reports the last attempt of each job, and every attempt that reached the memory limit
  left its checkpoint. `NothingIsRetried`, `OpenKeysReported`: a campaign submits nothing
  after a doubtful record and names what it left open. `ReadsAreExact`, `ArtifactIsLog`:
  an index reads the event appended there, in the artifact and in a journal whose writes
  succeeded, otherwise up to the chunk that failed; an iterator shows its snapshot, or all of
  it but whole chunks that were spilled meanwhile.

**Why the bounds are enough to be interesting.** Three sequences on a channel are
the least with a settled, an acting and a pending request at once; two channels and
two levels of nesting let a callback use its own channel and another one. In the
router two sources compete for both devices, so a request can wait for an older one
of its channel at the other device. The memory budget is smaller than the memory
and the stream capacity smaller than the number of stores, so both run out. One
reset separates two epochs; an older one adds nothing that the first does not, since
only the current epoch is consulted. The scheduler's items cover a
start, a first and a second rise, a reset and a foreign delay clock. Two start times
are the least that let a pid come back, and a history of one entry is full after the first
release; seven events are two chunks in the file, one more than the cache holds, and a third
begun; three cases with their requests are more lines than output pipe and queue hold.
Resets and inline beats count as requests in the bounds, so that the runs with them are
shorter and the sum stays small. These are
arguments for the instances, not proofs; section 5 says what is proved.

**Deadlock** is checked in `memory`, `irq`, `runner` and `scheduler`. The ledger and
the router stop when the bounded sequence numbers are used up or the channel is
stuck, and `CpuMemoryPort` stops when a refused access has ended the test. A session, a
supervised command, a matrix, a campaign and a publication end, the pool's grants and
the journal's events are bounded. These runs allow deadlock.

**Fairness.** `DataflowRouter`: a target call ends (commands have deadlines), a
reset runs to its end in one Python call, and the runner goes on stepping every
device and source. `CpuMemoryPort` and `IrqDelivery`: the runner goes on stepping the
CPU and sampling sources, as `schedule_order` contains every local harness.
`DependencyScheduler`: `run()` is one thread whose calls return or raise. `FuzzSession`:
the main loop, the reader thread and the closing go on (the queue is read with a timeout,
and waiting for the host has one); the host may stop anywhere. `ProcessSupervisor`: the
supervisor goes on, as each of its waits has a limit; the command may do nothing, and a
fatal signal may stay without effect. All are weak
fairness; nothing is assumed about which outcome a call has. The liveness
statements are about a runner that goes on: one that stops after `max_steps` stops
with whatever is outstanding, which its result reports.

## 4. Findings and observations

`runner_final_budget` (expected to be violated). `finalize` appends its records
without asking for room, also when the log is full: the wall-clock marker at
`runner.py` line 3900 and the record of a growth violation at line 3869. A step that
meets the deadline while its evidence fills the log does the same (line 1981). The
log then holds `max_semantic_records + 1` records or more. `check_usage` in
`contracts.py`, lines 600 to 609, refuses that, and `evidence.py` line 562 calls it
before it writes the bundle. `tests/scenario/test_evidence_budget.py` line 806 expects
the terminated run to be saved. `TestsAreContained` in the run `runner` says what does
hold before finalization.

`campaign_report` (expected to be violated). The property `report` of the campaign
runtime caches what it builds, and `close` builds a report only if there is none
(`runtime/engine.py` line 493). In the counterexample the report is read once before the
first case, the only case fails at its first record and is marked uncertain, and `close`
settles the run: the report is still the first one, without the case, its open key and the
last states of the processes. The same happens when a report is read after a case that went
well and a later case fails. Lines 26 to 28 of the same file say that a failure "keeps the
already-effective records, preserves pending/uncertain transaction keys, marks the case
uncertain", and the design document
`docs/superpowers/specs/2026-10-26-generic-runtime-framework-design.md` line 276 that a
faulted run is settled and saved. `OpenKeysReported` says what holds after `finish` and
`abort`, which always renew the report.

The models also show these differences between the code and what is written about it. No
run is kept for them; the properties of section 3 are stated so that they say exactly
what does hold.

* An iteration over a snapshot of the journal decides at its start how many chunks there
  are (`event_journal.py` line 133). If the current chunk is spilled between two items,
  its events are skipped and later ones shown, while line 170 speaks of the "fixed
  prefix". The callers exhaust an iteration before they append. `ReadsAreExact` says that
  only whole chunks spilled meanwhile are missing, and everything else is in its place.
* A chunk whose writing fails damages the journal: its offset is there already, and the
  current list is full and grows past its size without being written again. Reads from that
  chunk on raise or return other events. `append` raises when it happens.
* A call of the clean-up of a publication that fails replaces the exception that names the
  backup, which stays in the context of the new one. `FailureTellsWhere` counts that as told.
* If `begin_test` is refused while the runner is `created`, the `finalize` that follows it
  raises too, so `run()` of the scheduler ends with an exception and no status.
* When an input cannot be generated, or a case line cannot be read, a fuzz session sends
  END itself and leaves `budget_reached` empty (`session.py` lines 515 to 524 and 556 to
  559); the status is then `host_error`, which the comment at lines 680 to 682 keeps for a
  host that stopped "without the session ending it".
* A host that goes on printing after END restarts the stall window with every line
  (`session.py` line 491), while lines 466 to 468 give it "one stall window".
  `SessionEnds` is claimed for a host that keeps to the protocol.
* A process that forks between the last listing of `/proc` and its SIGKILL leaves a child
  nobody signals (`resource_policy.py` line 234); line 299 says that the tree is cleaned
  "on every exit path". `SurvivorsAreNewborn` is what holds.
* The loop that collects orphans takes a `ChildProcessError` for the end of a process
  (`resource_policy.py` line 259). A killed process whose killed parent has not died yet
  is no child yet either: it is dropped, adopted a moment later, and stays a zombie
  child of the caller.
* A reset triggered by an output of one component starts its delay on that component's
  clock and awaits it on the clock of the first component of the schedule
  (`scheduler.py` lines 211 and 106). No document says what is meant.
* A reserved word that is filled in part keeps its fetch waiting.

## 5. Proofs

### The ledger

`TransactionLedgerProofs` proves, for any set of channels, any sequence bound, any
nesting depth, any payloads and receipts:

| Theorem | Statement |
|---|---|
| `LedgerTypes` | `Spec => []TypeOK` |
| `LedgerAtMostOnce` | `Spec => []AtMostOnce` |
| `LedgerFrontier` | `Spec => []ChannelFrontier` |
| `LedgerAnswers` | `Spec => []AnswersFrozen` |
| `LedgerDelivers` | `Spec => DeliversInOrder`, the refinement of `OrderedDelivery` |

The only assumption is `LedgerConstants`: the bounds are natural numbers and the
marker for "no entry" is not an entry.

The inductive invariant is `LedgerInv`, the conjunction of `TypeOK`,
`ChannelFrontier`, `CallsInFlight` (the local `expected`, read before the operation and
used after it, is never stale), `AtMostOnce` and `AnswersFrozen` (all answers for a key
agree). None is inductive alone. `AtMostOnce` needs `CallsInFlight`: an
operation that returns sets the status of its key, and only because that key is
still in flight does its one effect remain the right number. `ChannelFrontier` needs
it too, because the code advances the channel to the `expected` it read before the
callback. `CallsInFlight` needs `ChannelFrontier`: two waiting calls cannot share a
channel, since a channel has only one request at its target.

`LedgerInit` and `LedgerStep` show the invariant; `LedgerStep` has one step per
call. The lemmas before them say what pushing and popping a frame, adding or moving
an entry and advancing a frontier do to each conjunct. `DeliveryStep` shows that each
call is a step of `OrderedDelivery` or leaves the channels alone.

### The router

`DataflowRouterProofs` proves `RouterQueue` (`Spec => []QueueIsSound`) and `RouterAnswers`
(`Spec => []AnswersAreTrue`) for any finite set of sources, any slots, devices, beats, resets
and confirmations. It assumes `RouterConstants`.

The router is a composition with the ledger, and `Books` is all it needs to know of it: which
frames are on the stack, and that a pending request that is not next on its channel has an
older one before it. `LedgerCalled` shows that each step of the router is one call of a ledger
or leaves the ledgers alone, so that `LedgerInv`, proved in `TransactionLedgerProofs` and
instantiated here, is an invariant of the router as well; it implies `Books`. `RInv` says how the rest
stands towards the books. Each place of the queue has the status that the call in progress,
or the part of a reset that is done, makes one expect (`Line`), the requests of a source are
in order, and no pending request is outside the queue (`Waiting`): that is `QueueIsSound`. An
unknown outcome has failed the runner (`Lost`); slots and queue name each other as long as it
has not (`Known`), and a slot holds only keys of the present epoch (`Current`). A reset
cancels request by request and puts the queue together again at its end, so `Kept` says what
the list put aside holds in the middle of it. `Told`, about delivery rows and counts, needs
`RInv`: a target that acts completes a key that had no row. There is one lemma per action.

### The token pool

`MemoryProofs` proves `TokensCovered`, that is `TokenSpec => []HoldersCovered`, for any
set of pids and threads, any budget and sizes, any number of grants and of uses of a
pid. It assumes `TokenConstants`: threads belong to pids, the sizes are a finite set of
positive numbers, the marker `None` is neither a thread nor a number.

The inductive invariant `TokenInv` adds to the property what the pool's file protocol
keeps: only the thread with the `flock` is in the middle of a call, and it is alive
(`Locked`); a process has only leases of its own pid and start time (`HeldByTheLiving`);
the file, and the draft its holder is about to publish, count their builds rightly, have an
exclusive build alone and all leases of the living (`FileGood`, `DraftGood`); a lease granted and not yet
returned is in the draft, then in the file (`OnItsWay`). The draft is needed because a
decision is made on what was read, and published later; the start time because the death
of a process leaves its leases in the file, where a new process of the same pid must
not be taken for their owner. The step proof has one step per action.

### The publication

`RecordsProofs` proves `OriginalIsKept` (`Spec => []OriginalKept`), `FailureIsTold`
(`Spec => []FailureTellsWhere`), `ReportAlwaysWhole` (`Spec => []ReportIsWhole`) and
`ForeignAlwaysKept` (`Spec => []ForeignKept`) for any set of foreign files and any
number of foreign changes. They assume `DistinctFiles`.

There are two inductive invariants. `InvReport` says that a name leads to one of the files
it may lead to after a crash (`Directory`), and, until the new report is durable, that the
backup or the report leads to the old file whatever a crash undoes (`Safe`): before the
backup is synchronised that is the report, afterwards the backup, and the backup is
obsolete only once the report is durable again. `Safe` ties the flags to the program
counter, because the clean-up decides by the flags which names it removes.

`InvWhole` is about what the report's name may lead to. The new file gets that name, now
or after a crash, only when its contents are synchronised (`Complete`). Without a foreign
change each name leads to the file the program put there (`Undisturbed`). A file the other
program put there, with one change, is still the report, or waits under the temporary name
after the exchange (`Theirs`), and then the flags keep the clean-up from that name.

### The matrix

`RecordsProofs` proves `CheckpointsAreComplete` (`Matrix!Spec => []CheckpointsComplete`) and
`ReportIsTheLast` (`Matrix!Spec => []ReportIsAuthoritative`) for any finite sets of builds
and fuzz jobs, any order, priorities and limit of retries, and a runner that may return
anything. They assume `MatrixConstants`: builds and fuzz jobs are disjoint and each fuzz job
requires a build.

The inductive invariant `MatrixInv` holds as long as nothing was raised. The jobs still to
run are distinct and were not run (`QueuesAreFresh`); each fuzz job is untried, waits for a
retry it still has, or is sampled by its last attempt (`JobsStand`); and a job has one
checkpoint per attempt, except for the attempt that passed (`Tallied`). The last counts a
set of places in the list of checkpoints: `CheckpointAdded` says what one more does to the
counts, `AttemptFails` and `AttemptPasses` what an attempt does to the tally, and
`FuzzAccepted` treats first runs and retries at once. That the next retry is the first in the
sorted queue is not needed, so the theorems hold for any order of retries.

### The campaign

`RecordsProofs` proves `NothingTriedAgain` (`Campaign!Spec => []NothingIsRetried`) and
`OpenKeysAlwaysReported` (`Campaign!Spec => []OpenKeysReported`) for any number of cases and
records. The inductive invariant `CampaignInv` says what each state of the run allows
(`RunIsSound`: a case in doubt is the last one and the run has faulted or is closed), that
every call of the channel was made for a case on record, and as many as that case accounts for
(`CallsAreKnown`), and that the keys in the ledgers are those the failed submissions left open
(`KeysAreKnown`). `CallsAdded` counts the calls of a new case.

### The environment memory

`MemoryProofs` proves `MemoryCellsAreSound` (`Spec => []CellsAreSound`) and
`MemoryActsAsPlain` (`Spec => ActsAsPlainMemory`, the refinement of `EagerMemory`) for any
regions, windows, widths, byte values, initial values and budget. It assumes
`MemoryConstants`: windows lie in known regions and do not overlap, as `__init__` checks,
and the marker for "no cell" is neither a byte nor a cell.

The inductive invariant `MemoryInv` adds three facts to `CellsAreSound`: the types, that
there are finitely many cells (so that the budget says something), and that the bytes of
an acceptance are instruction slots. The last is what keeps `reinstall_image` away from
accepted bytes: it writes image bytes only, and those are never slots. Preload,
reinstall, acceptance, store and first read are all a commit to the cells of one region
with one version, so the argument is made once: `CommitKeeps` (versions), `AcceptancesKept`,
`BudgetKept`, `CommitInv` (all of the invariant) and `CommitSeen` (the bytes as users see
them). One lemma per operation then shows that it is such a commit and which step of
`EagerMemory` it is.

### The memory port

`CpuMemoryProofs` proves `CommitsSucceed` (`Spec => []CommitCannotFail`), `StreamStaysExact`
(`Spec => []StreamIsExact`) and `PortsStayCurrent` (`Spec => []PortsAreCurrent`) for any memory,
word size, byte values, capacity of the stream, requests and resets. It assumes
`PortConstants`, which include those of the memory.

The inductive invariant `PortInv` follows a request from its key to its answer. Before: the
frontier of a channel is one past what its port has asked, or at the key of a fetch that
waits (`Asked`), and the channels of later epochs are untouched (`Issued`). At the ledger: there is one
call, of the present epoch, and what was validated still holds (`Running`), because nothing
but its commit can come next. After: every other entry is complete (`Settled`), its receipt is
the answer the port holds (`Frozen`), and the stream and what was acknowledged of it are the
completed writes, each once (`Stream`).

### The interrupts

`RunnerProofs` proves `PulsesAreAsSeen` (`IrqSpec => []PulseAsSeen`),
`TakesHaveOneOrigin` (`IrqSpec => []TakesAreAttributed`) and `PulsesAreSeparate`
(`IrqSpec => PulsesSeparate`) for any pulsed and held sources, any declared baselines and
any width. It assumes `IrqConstants`.

The properties speak of pulses that are over or credited. `IrqInv` adds the account of a
pulse that is pending (`Account`: the ticks seen so far, and whether all were masked, are
what the policy's counters say), the agreement of the two memories of a level
(`LevelAgrees`: the group's last sample and the policy's `source_level` differ only before
the first sample, where the policy has its baseline), and that the line is high only for
the pending pulse (`LineIsThePulse`). `LevelAgrees` is why the group remembers the right
reference: an edge for the policy is then a rising sample for the group.

### The runner

`RunnerProofs` proves `RunnerIsContained` (`Spec => []TestsAreContained`) and
`RunnerRunsOnce` (`Spec => []CommandsRunOnce`) for any components, payloads, record budget,
number of resets and of commands. It assumes `RunnerConstants`: components are distinct and
the marker `None` is no value it stands beside.

There are two inductive invariants. `LifeInv` is about the life of a test: there is room
for one more record as long as it goes on, only a failed test is at its limit or, with the
wall clock's marker, one above it, and a step is in progress only while the test runs.
Most calls do one of three things to that life (go on, fail, leave it as it was), so
`LifeKeeps` makes the argument once. `CommandInv` is about the commands: the next
command comes after all that ran (`NextIsLast`; a reset moves to a later epoch, so that it
stays true when the sequence restarts), the table and the answers agree (`CacheAgrees`, why
a repeated command is answered with the receipt it had), and a command without answer is the
last one, still in the table, and either in progress or the cause of a recorded failure
(`Uncertain`). The last is why retirement must stop at an uncertain command: `RetireKeeps`
shows that what it deletes had a receipt. `Uncertain` leans on `LifeMoves`, which
`LifeStep` proves: a test that is over stays over, and its failure is not forgotten.

### The scheduler

`DependencySchedulerProofs` proves `SelectionIsExact` (`Spec => []SelectedByItsOccurrence`),
`ReleasesAreOnTime` (`Spec => []ReleasedOnTime`) and `CompleteIsEarned`
(`Spec => []CompleteIsTrue`) for any schedule without repetition, any items, batch sizes,
observations and bound on the steps. It assumes `SchedulerConstants`.

The inductive invariant `SchedInv` has four parts. `LoopIsRound`: the steps made are those of
the finished batches and of the current one, and go round the schedule; the number of steps of
a component is the number of its visits, which batching must not disturb. `WorkIsTimed`: the
pending work of an item is what its delay has left, counted from the step that selected it.
`EdgesAreCounted`: as long as an item waits, its count and its previous match are those of a
count of edges over the whole history. `OutcomeIsEarned`: what the status rests on. The
property speaks of the observation that selected an item, the counters only of an item still
waiting; the proof relates them at the step where the item is selected.

### The supervisor and the session

`ProcessesProofs` proves three theorems about the parts of `MCProcesses`.

`NoOldSurvivor` (`Supervisor!Spec => []SurvivorsAreNewborn`) holds for any number of
processes; it assumes `SomeProcess`. The inductive invariant `StopInv` follows the last round
of SIGKILL back to the listing of `/proc`. Processes are numbered by birth (`Births`), and
while orphans are adopted the parent of a process is alive and older, or is the supervisor
(`Parents`). So a parent is read before its child, every row read leads through rows read
before it to the supervisor, and the tree the supervisor computes holds all it read
(`Reading`). What was there when the names were listed and still runs at the end was then
killed (`Killing`).

`EndIsLast` (`Spec => []NothingAfterEnd`) and `CompletedIsEarned`
(`Spec => []CompletedIsComplete`) hold for any budgets, any sizes of pipes and queue, and any
host, with or without a case budget; they assume `SessionConstants`. `EndIsLast` needs only `Sending`: END is sent exactly when
the flag says so, and nothing after it. For `CompletedIsEarned` the invariant `Talking` says
where the main loop and a host that keeps to the protocol stand towards each other: whose turn
it is (`Turn`), and which lines are on their way through pipe and queue (`Stream`). A case is on
its way exactly while the host has reported one more than the loop has counted, and the
summary comes after every case, so the loop that takes the summary has counted them all.
If the reader thread ends early, at a line it cannot decode, the summary is never read and the
batch does not count as completed (`Cut`). `Ending` says that a loop that stopped without an
error has used up a budget, and which. The lemmas about `Stream` say what
printing a line, pumping it into the queue and taking it out do; each action then needs only
the new place of the two.

## 6. Only model-checked

* All liveness properties: they need fairness, and `ENABLED`, which the prover does not know.
* `BooksBalance`, `RefusedByTheLiving` and `ActsAsPool` of the tokens: they are about sums
  over sets, defined by a fold, and a sum changes as it should only by induction over data.
* `ReadsAreExact` and `ArtifactIsLog` of the journal: concatenations of chunks, for the same
  reason.

Faulty forms of the definitions, one for each property, make each property of every run fail.

## 7. Plan, and what is not modelled

Built so far, in this order: ledger and its proofs, router, memory, memory port,
interrupts, runner, scheduler; then memory tokens and report publication with their
proofs, journal, fuzz session, experiment matrix, campaign, supervisor; then the proofs of the
memory, of the interrupts, of the runner, of the scheduler, of matrix and campaign, of the
supervisor and of the session, of the router and of the memory port. Next:

1. Chunk assembly of genomes; the RFuzz transport as a token protocol; claim and release
   of experiment jobs.
2. Composition of scheduler and runner, so that the failures the scheduler meets are
   those the runner has; of the matrix with the token pool and the supervisor, whose
   interface is one lease and one receipt per attempt.
3. Search frontier as a recursive operator against its definition (TLC only), and
   state dependencies.

Left out of the modelled parts: address decoding and receipt validation of the router,
RVFI and native receipts of the CPU session, registries of issued evidence documents
in the memory service, replayed wall-clock cuts, reset images and evidence observers
of the runner; encodings, checksums and the rejection of damaged files in the journal
and the token pool; contents of samples, cases and certificates in matrix, session and
campaign; admission checks and memory readings of the supervisor. They decide whether a call raises before it changes anything, or
record what happened.

Not modelled and not planned: the wire protocols of the other local sessions
(each wraps one simulator behind the same calls), evidence bundles and replay
(serialisation and comparison of files), certificates and reports (pure checks of
finished traces), input ownership (a static table), RTL composition and protocol
catalogues (translation without state), strategies (heuristics), campaign drivers, and
the compilers and tables of the harness and ISA packages. `PROJECT.json` lists each
with its files.

## 8. Running

`tlc -config MCLedger.cfg MCLedger` and likewise for the other configurations
(`MCRunnerBudget.cfg` with the module `MCRunner`, `MCCampaignReport.cfg` with
`MCCampaign`); `tlapm TransactionLedgerProofs.tla` and likewise for the other seven modules
whose names end in `Proofs`. The longest runs take about three minutes, the
longest proof (`DataflowRouterProofs`) ten to fifteen.
