------------------------ MODULE DependencyScheduler ------------------------
(***************************************************************************)
(* The loop that drives one testcase: DependencyScheduler.run of           *)
(* src/myfuzz/scenario/scheduler.py, over the runner's calls.              *)
(*                                                                         *)
(* Items are the genome's reset actions and input actions.  An item waits  *)
(* for the start or for the n-th time its predicate becomes true in the    *)
(* observed outputs of a component, then for a number of ticks of a clock, *)
(* and is then released once.  The values on the ports are reduced to the  *)
(* set of items whose predicate they match; what the devices show is not   *)
(* predicted.  Every call of the runner may raise.                         *)
(***************************************************************************)
EXTENDS Naturals, Sequences, FiniteSets

CONSTANTS
  Schedule,    \* schedule_order
  Items,       \* the reset actions followed by the actions: see ItemType
  BatchSizes,  \* batch_sizes; <<1>> when there are none
  MaxSteps,    \* max_steps
  Quiesces,    \* quiesce_steps is not zero
  MaxSamples,  \* bound: observations of one step
  None

Components == {Schedule[i] : i \in DOMAIN Schedule}
Numbers == DOMAIN Items
ItemType == [reset : BOOLEAN, start : BOOLEAN, source : Components, occurrence : Nat \ {0},
             own : Components, delayComponent : Components \cup {None}, delay : Nat]
Statuses == {"complete", "path_incomplete", "incomplete", "drained", "environment_error",
             "uncertain_effect", "violation", "budget_exhausted"}

ASSUME SchedulerConstants ==
  /\ Schedule \in Seq(Components) /\ Len(Schedule) > 0
  /\ \A i, j \in DOMAIN Schedule : Schedule[i] = Schedule[j] => i = j
  /\ None \notin Components \cup Nat \cup Statuses
  /\ Items \in Seq(ItemType)
  /\ \A j, k \in Numbers : j < k /\ Items[k].reset => Items[j].reset
  /\ BatchSizes \in Seq(Nat \ {0}) /\ Len(BatchSizes) > 0
  /\ MaxSteps \in Nat \ {0} /\ MaxSamples \in Nat \ {0} /\ Quiesces \in BOOLEAN

VARIABLES
  pc,            \* where run() is
  offset,        \* steps of finished batches
  inBatch,       \* steps of this batch
  batchIndex,    \* batch_index
  ticks,         \* runner.local_ticks
  epoch,         \* runner.command_epoch
  window,        \* observations of the last step not yet looked at
  position,      \* the item release_due looks at
  counts,        \* counts, reset_counts
  previousMatch, \* previous_match, reset_previous_match
  pending,       \* pending, reset_pending: the tick an item waits for
  fired,         \* fired, reset_fired
  cursor,        \* selected_cursors: the observation that selected an item
  begun,         \* the runner is no longer in its state "created"
  raised,        \* an exception ended the loop
  interrupted,   \* one that is no Exception, and so passes through run()
  finalized,     \* "no", or how the call of runner.finalize ended: "returned" or "raised"
  runnerFailure, \* runner.failure_status
  quiesced,      \* quiesce_result.status
  result,        \* SchedulerResult.status
  seen,          \* history: all observations, with the ticks at that time
  steps,         \* history: how often each component was stepped
  releases       \* history: the items released, with the ticks at that time

itemVars == <<counts, previousMatch, pending, fired, cursor>>
loopVars == <<offset, inBatch, batchIndex>>
failureVars == <<begun, raised, interrupted, runnerFailure>>
outcomeVars == <<failureVars, finalized, quiesced, result>>
vars == <<pc, loopVars, ticks, epoch, window, position, itemVars, outcomeVars, seen, steps, releases>>

-----------------------------------------------------------------------------

\* The clock on which an item's delay is started, and the one on which it is awaited.
\* For a reset without a delay component triggered by an output they differ.
ArmClock(k) ==
  CASE Items[k].delayComponent # None -> Items[k].delayComponent
    [] ~Items[k].reset -> Items[k].own
    [] Items[k].start -> Schedule[1]
    [] OTHER -> Items[k].source
DueClock(k) ==
  CASE Items[k].delayComponent # None -> Items[k].delayComponent
    [] ~Items[k].reset -> Items[k].own
    [] OTHER -> Schedule[1]

\* run() up to begin_test.
Init ==
  /\ pc = "begin"
  /\ offset = 0 /\ inBatch = 0 /\ batchIndex = 0
  /\ ticks = [c \in Components |-> 0] /\ epoch = 0
  /\ window = <<>> /\ position = 1
  /\ counts = [k \in Numbers |-> 0]
  /\ previousMatch = [k \in Numbers |-> FALSE]
  /\ pending = [k \in Numbers |-> IF Items[k].start THEN Items[k].delay ELSE None]
  /\ fired = {}
  /\ cursor = [k \in Numbers |-> IF Items[k].start THEN 0 ELSE None]
  /\ begun = FALSE /\ raised = FALSE /\ interrupted = FALSE /\ finalized = "no"
  /\ runnerFailure = None /\ quiesced = None /\ result = None
  /\ seen = <<>> /\ steps = [c \in Components |-> 0] /\ releases = <<>>

\* A runner that has failed refuses all further calls.
Running == runnerFailure = None

\* Faulty form of Raises: what is no Exception leaves run() without the finally clause.
RaisesPast ==
  /\ raised' = TRUE
  /\ interrupted' \in BOOLEAN
  /\ runnerFailure' \in IF Running /\ ~interrupted' THEN {None, "uncertain_effect"} ELSE {runnerFailure}
  /\ pc' = IF interrupted' THEN "done" ELSE "finalize"

\* A call of the runner raises: the loop ends, the finally clause comes next.  The runner
\* may have set its failure status or not; if run() is interrupted nobody looks.
Raises ==
  /\ raised' = TRUE
  /\ interrupted' \in BOOLEAN
  /\ runnerFailure' \in IF Running /\ ~interrupted' THEN {None, "uncertain_effect"} ELSE {runnerFailure}
  /\ pc' = "finalize"

\* begin_test may be refused, and then leaves the runner "created", or fail later.
BeginTest ==
  /\ pc = "begin"
  /\ \/ begun' = TRUE /\ pc' = "release" /\ UNCHANGED <<raised, interrupted, runnerFailure>>
     \/ begun' \in BOOLEAN /\ Raises
  /\ UNCHANGED <<loopVars, ticks, epoch, window, position, itemVars, finalized, quiesced, result, seen, steps, releases>>

\* The size of the current batch; the component it steps next.
BatchSize ==
  LET size == BatchSizes[(batchIndex % Len(BatchSizes)) + 1]
  IN IF size < MaxSteps - offset THEN size ELSE MaxSteps - offset
Turn == Schedule[((offset + inBatch) % Len(Schedule)) + 1]

\* A step of the runner: the component ticks once, a target it clocks as well.  An
\* observation belongs to one of them and matches some predicates on its outputs.  The
\* observations may show a violation that fails the test without an exception.
ObservationsOf(c) ==
  [component : {c}, epoch : {epoch},
   matched : SUBSET {k \in Numbers : ~Items[k].start /\ Items[k].source = c}]
Windows == UNION {[1..n -> UNION {ObservationsOf(c) : c \in Components}] : n \in 1..MaxSamples}

Step ==
  /\ pc = "step"
  /\ \/ \E w \in Windows :
          /\ Running
          /\ window' = w
          /\ ticks' = [c \in Components |->
               IF c = Turn \/ \E i \in DOMAIN w : w[i].component = c THEN ticks[c] + 1 ELSE ticks[c]]
          /\ pc' = "observe"
          /\ runnerFailure' \in {None, "violation"} /\ UNCHANGED <<raised, interrupted>>
     \/ Raises /\ UNCHANGED <<window, ticks>>
  /\ steps' = [steps EXCEPT ![Turn] = @ + 1]
  /\ UNCHANGED <<loopVars, epoch, position, itemVars, begun, finalized, quiesced, result, seen, releases>>

\* observe_step, one observation: edges are counted, and the one that was asked for
\* selects its item.
Watching(k, c) == k \notin fired /\ pending[k] = None /\ ~Items[k].start /\ Items[k].source = c
\* Faulty form of Edge: a level that stays is counted again.
EdgeIsLevel(k, o) == k \in o.matched

Edge(k, o) == k \in o.matched /\ ~previousMatch[k]
Selects(k, o) ==
  Watching(k, o.component) /\ Edge(k, o) /\ counts[k] + 1 = Items[k].occurrence

Observe ==
  /\ pc = "observe" /\ window # <<>>
  /\ LET o == Head(window) IN
     /\ counts' = [k \in Numbers |->
          IF Watching(k, o.component) /\ Edge(k, o) THEN counts[k] + 1 ELSE counts[k]]
     /\ previousMatch' = [k \in Numbers |->
          IF Watching(k, o.component) THEN k \in o.matched ELSE previousMatch[k]]
     /\ pending' = [k \in Numbers |->
          IF Selects(k, o) THEN ticks[ArmClock(k)] + Items[k].delay ELSE pending[k]]
     /\ cursor' = [k \in Numbers |-> IF Selects(k, o) THEN Len(seen) + 1 ELSE cursor[k]]
     /\ seen' = Append(seen, [component |-> o.component, epoch |-> o.epoch, matched |-> o.matched,
                             ticks |-> ticks])
  /\ window' = Tail(window)
  /\ pc' = IF Len(window) = 1 THEN "release" ELSE "observe"
  /\ position' = 1
  /\ UNCHANGED <<loopVars, ticks, epoch, fired, outcomeVars, steps, releases>>

\* Faulty form of Due: a tick early.
DueEarly(k) == pending[k] # None /\ ticks[DueClock(k)] + 1 >= pending[k]

\* release_due, one item: reset_all or inject_source.  A reset starts the edge
\* detection of all items again.
Due(k) == pending[k] # None /\ ticks[DueClock(k)] >= pending[k]
Released(k) ==
  /\ fired' = fired \cup {k}
  /\ pending' = [pending EXCEPT ![k] = None]
  /\ epoch' = IF Items[k].reset THEN epoch + 1 ELSE epoch
  /\ previousMatch' = IF Items[k].reset THEN [j \in Numbers |-> FALSE] ELSE previousMatch
  /\ releases' = Append(releases, [item |-> k, ticks |-> ticks])
  /\ UNCHANGED <<counts, cursor>>

Release ==
  /\ pc = "release" /\ position <= Len(Items)
  /\ \/ ~Due(position) /\ UNCHANGED <<pc, epoch, itemVars, raised, interrupted, runnerFailure, releases>>
     \/ Due(position) /\ Running /\ Released(position) /\ UNCHANGED <<pc, raised, interrupted, runnerFailure>>
     \/ Due(position) /\ Raises /\ UNCHANGED <<epoch, itemVars, releases>>
  /\ position' = position + 1
  /\ UNCHANGED <<loopVars, ticks, window, begun, finalized, quiesced, result, seen, steps>>

\* The loop over batches: release_due after begin_test is followed by the first step,
\* the one after a step by the next step, batch, or the end.
Started == \E c \in Components : steps[c] > 0
LoopOn ==
  /\ pc = "release" /\ position > Len(Items)
  /\ IF ~Started THEN UNCHANGED loopVars
     ELSE IF inBatch + 1 < BatchSize
     THEN inBatch' = inBatch + 1 /\ UNCHANGED <<offset, batchIndex>>
     ELSE offset' = offset + BatchSize /\ inBatch' = 0 /\ batchIndex' = batchIndex + 1
  /\ pc' = IF offset' < MaxSteps THEN "step" ELSE IF Quiesces THEN "quiesce" ELSE "finalize"
  /\ UNCHANGED <<ticks, epoch, window, position, itemVars, outcomeVars, seen, steps, releases>>

Quiesce ==
  /\ pc = "quiesce"
  /\ \/ /\ Running /\ quiesced' \in {"drained", "incomplete"} /\ pc' = "finalize"
        /\ UNCHANGED <<raised, interrupted, runnerFailure>>
     \/ Raises /\ UNCHANGED quiesced
  /\ UNCHANGED <<loopVars, ticks, epoch, window, position, itemVars, begun, finalized, result, seen, steps, releases>>

\* Faulty form of FinalStatus: an exception that left no failure status is forgotten.
FinalStatusForgets(failure) ==
  IF failure # None THEN failure
  ELSE IF quiesced = "incomplete" THEN "incomplete"
  ELSE IF fired = Numbers THEN "complete" ELSE "path_incomplete"

\* The finally clause and the status of the result.
FinalStatus(failure) ==
  IF failure # None THEN failure
  ELSE IF raised THEN "environment_error"
  ELSE IF quiesced = "incomplete" THEN "incomplete"
  ELSE IF fired = Numbers THEN "complete" ELSE "path_incomplete"

\* finalize raises if the test was not begun, and may raise in its checks of the evidence;
\* run() has no result then, nor if it was interrupted.
Finalize ==
  /\ pc = "finalize" /\ pc' = "done"
  /\ \/ /\ begun /\ finalized' = "returned"
        /\ runnerFailure' \in IF Running /\ ~interrupted THEN {None, "budget_exhausted"} ELSE {runnerFailure}
        /\ result' = IF interrupted THEN None ELSE FinalStatus(runnerFailure')
     \/ finalized' = "raised" /\ UNCHANGED <<runnerFailure, result>>
  /\ UNCHANGED <<loopVars, ticks, epoch, window, position, itemVars, begun, raised, interrupted, quiesced,
                 seen, steps, releases>>

Done == pc = "done" /\ UNCHANGED vars

Next ==
  \/ BeginTest
  \/ Step
  \/ Observe
  \/ Release
  \/ LoopOn
  \/ Quiesce
  \/ Finalize
  \/ Done

\* run() is one thread whose calls return or raise.
Spec == Init /\ [][Next]_vars /\ WF_vars(Next)

-----------------------------------------------------------------------------
(* Properties. *)

\* The places in the history where the predicate of item k becomes true: it matches, and
\* did not in the observation of the same source before it, unless a reset lies between.
Rises(k) ==
  LET mine == {i \in DOMAIN seen : seen[i].component = Items[k].source}
      before(j, i) == j < i /\ seen[j].epoch = seen[i].epoch
      last(j, i) == before(j, i) /\ \A m \in mine : before(m, i) => m <= j
  IN {i \in mine : k \in seen[i].matched /\ \A j \in mine : k \in seen[j].matched => ~last(j, i)}

\* An item triggered by an output is selected by exactly the occurrence it asks for: the
\* cursor kept for it points to the n-th rise in the whole history, samples of one step
\* and resets included, and as long as there is no cursor fewer rises were seen.  A held
\* output is one occurrence.
SelectedByItsOccurrence ==
  \A k \in Numbers : ~Items[k].start =>
    LET rises == Rises(k) IN
    IF cursor[k] = None THEN Cardinality(rises) < Items[k].occurrence
    ELSE /\ cursor[k] \in rises
         /\ Cardinality({i \in rises : i <= cursor[k]}) = Items[k].occurrence

\* Between two steps nothing that is due is left unreleased, and no item is released twice.
ReleasedWhenDue ==
  /\ pc = "step" => \A k \in Numbers : ~Due(k)
  /\ \A i, j \in DOMAIN releases : releases[i].item = releases[j].item => i = j

\* A delay is waited for in full, counted from the observation that selected the item, for
\* every item whose delay is started and awaited on the same clock.
DelayKept ==
  \A i \in DOMAIN releases :
    LET k == releases[i].item
        c == DueClock(k)
        from == IF cursor[k] = 0 THEN 0 ELSE seen[cursor[k]].ticks[c]
    IN ArmClock(k) = c => releases[i].ticks[c] >= from + Items[k].delay

\* Cutting the steps into batches changes nothing: the components are stepped in the
\* order of schedule_order from the first step to the last, max_steps times at most.
RoundRobin ==
  \E n \in 0..MaxSteps : \A c \in Components :
    steps[c] = Cardinality({i \in 1..n : Schedule[((i - 1) % Len(Schedule)) + 1] = c})

\* Items are released once, not early and not late, in steps that batching leaves as
\* they are.
ReleasedOnTime == ReleasedWhenDue /\ DelayKept /\ RoundRobin

\* "complete" is reported only for a test in which every item was released, in which
\* nothing raised or failed and whose pending work was drained.
CompleteIsTrue ==
  result = "complete" =>
    /\ {releases[i].item : i \in DOMAIN releases} = Numbers
    /\ ~raised /\ runnerFailure = None /\ quiesced # "incomplete"
    /\ Quiesces => quiesced = "drained"

\* Every test ends, whatever raises on the way, with the runner asked to finalize; run() then
\* returns a status, unless it was interrupted or finalize raised.
TestEnds ==
  <>(/\ pc = "done" /\ finalized # "no"
     /\ result # None <=> finalized = "returned" /\ ~interrupted)
=============================================================================
