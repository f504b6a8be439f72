-------------------------- MODULE ScenarioRunner --------------------------
(***************************************************************************)
(* The life of one testcase: ScenarioRunner of                             *)
(* src/myfuzz/scenario/runner.py.                                          *)
(*                                                                         *)
(* A caller begins the test, changes inputs, sends STEP commands, resets,  *)
(* quiesces and finalizes.  STEP commands come over a transport that may   *)
(* repeat, delay and reorder them: any command identity may arrive at any  *)
(* time.  The runner caches the receipt of every command until the caller  *)
(* retires it.                                                             *)
(*                                                                         *)
(* A receipt is the component's tick, the event log is its length, a       *)
(* payload is a small value.  The wall clock may run out at any moment.    *)
(* What a step does in the sessions is in the modules of the router, the   *)
(* memory and the interrupt line; here it returns or fails.  Refused calls *)
(* change nothing.                                                         *)
(***************************************************************************)
EXTENDS Naturals, Sequences

CONSTANTS
  Components,   \* local harnesses, in the order of sorted(self.sessions)
  Payloads,     \* input values; Quiet is the value after a reset
  Quiet,
  MaxRecords,   \* max_semantic_records
  MaxSequence,  \* bound: commands of an epoch
  MaxEpoch,     \* bound: resets
  None

Sessions == {Components[i] : i \in DOMAIN Components}
Identities == (0..MaxEpoch) \X (1..MaxSequence)

\* An entry of _step_commands: component, payload, and the receipt once it is known.
CachedCommands == [component : Sessions, payload : Payloads, receipt : Nat \cup {None}]
\* What failure_status can be; a protocol violation and an interrupt overrun are one.
Failures == {"budget_exhausted", "environment_error", "uncertain_effect", "violation"}

ASSUME RunnerConstants ==
  /\ \A i, j \in DOMAIN Components : Components[i] = Components[j] => i = j
  /\ Quiet \in Payloads /\ None \notin Payloads /\ None \notin Sessions /\ None \notin Nat
  /\ None \notin Identities /\ None \notin CachedCommands /\ None \notin Failures
  /\ MaxRecords \in Nat \ {0} /\ MaxSequence \in Nat /\ MaxEpoch \in Nat

VARIABLES
  status,        \* _status
  failureStatus, \* failure_status
  commandEpoch,  \* command_epoch
  nextSequence,  \* _next_command_sequence
  stepCommands,  \* _step_commands
  retiredFloor,  \* _retired_step_floor
  inputs,        \* _inputs of a component
  localTicks,    \* local_ticks
  records,       \* len(_events)
  wallCut,       \* a max_wall_time_ms marker is in the log
  expired,       \* the wall clock has passed the deadline
  sessions,      \* "idle", "begun" or "ended"
  cleanupDone,   \* _begin_cleanup_done
  inFlight,      \* the command whose step is running
  draining,      \* quiesce is running
  executed,      \* history: the commands that reached a local harness, in order
  answers        \* history: receipts handed out

commandVars == <<nextSequence, stepCommands, retiredFloor, executed, answers>>
logVars == <<records, wallCut>>
vars == <<status, failureStatus, commandEpoch, commandVars, inputs, localTicks, logVars,
          expired, sessions, cleanupDone, inFlight, draining>>

Init ==
  /\ status = "created" /\ failureStatus = None
  /\ commandEpoch = 0 /\ nextSequence = 1
  /\ stepCommands = [i \in Identities |-> None]
  /\ retiredFloor = [e \in 0..MaxEpoch |-> 0]
  /\ inputs = [c \in Sessions |-> Quiet]
  /\ localTicks = [c \in Sessions |-> 0]
  /\ records = 0 /\ wallCut = FALSE /\ expired = FALSE
  /\ sessions = [c \in Sessions |-> "idle"]
  /\ cleanupDone = FALSE
  /\ inFlight = None /\ draining = FALSE
  /\ executed = <<>> /\ answers = {}

\* No step and no quiesce is running.
AtRest == inFlight = None /\ ~draining

-----------------------------------------------------------------------------
(* The event log and its budgets. *)

\* _ensure_semantic_capacity: the last record is kept for the marker.
Room == records < MaxRecords - 1

\* _EventLog.append of n records that all find room.
Log(n) ==
  /\ records + n < MaxRecords
  /\ records' = records + n
  /\ UNCHANGED <<status, failureStatus, wallCut>>

\* _exhaust_budget, after n other records.
ExhaustBudget(limit, n) ==
  /\ failureStatus' = "budget_exhausted"
  /\ status' = "failed"
  /\ records' = records + n + 1
  /\ wallCut' = (wallCut \/ limit = "max_wall_time_ms")

\* At most so many appends run out of records or, once a record is in the log, of bytes.
LogStops(most) ==
  \E n \in 0..most :
    /\ records + n < MaxRecords /\ (Room => n > 0)
    /\ ExhaustBudget("max_semantic_records", n)

\* _ensure_wall_capacity and _ensure_semantic_capacity before an operation.
Admitted == ~expired /\ Room
BudgetRefuses ==
  /\ ~Admitted
  /\ ExhaustBudget(IF expired THEN "max_wall_time_ms" ELSE "max_semantic_records", 0)

\* An operation has failed and appends its failure record.
LogFailure ==
  \/ /\ Room
     /\ status' = "failed" /\ records' = records + 1
     /\ UNCHANGED <<failureStatus, wallCut>>
  \/ LogStops(1)

\* The testcase's wall clock runs from begin_test on.
WallExpires ==
  /\ status \notin {"created", "finalized"} /\ ~expired
  /\ expired' = TRUE
  /\ UNCHANGED <<status, failureStatus, commandEpoch, commandVars, inputs, localTicks, logVars,
                 sessions, cleanupDone, inFlight, draining>>

-----------------------------------------------------------------------------
(* Beginning and ending. *)

\* begin_test: all sessions begin; the evidence meter may still refuse to go on.
BeginTest ==
  /\ status = "created"
  /\ sessions' = [c \in Sessions |-> "begun"]
  /\ \/ status' = "running" /\ UNCHANGED <<failureStatus, logVars>>
     \/ ExhaustBudget("max_evidence_bytes", 0)
  /\ UNCHANGED <<commandEpoch, commandVars, inputs, localTicks, expired, cleanupDone, inFlight, draining>>

\* Faulty form of BeginFails: only the session that failed is ended.
BeginFailsKeepsStarted(n) ==
  /\ status = "created"
  /\ sessions' = [c \in Sessions |-> IF c = Components[n] THEN "ended"
                                    ELSE IF \E i \in 1..n : Components[i] = c THEN "begun" ELSE "idle"]
  /\ cleanupDone' = TRUE
  /\ LogFailure
  /\ UNCHANGED <<commandEpoch, commandVars, inputs, localTicks, expired, inFlight, draining>>

\* begin_test fails at its n-th session.  In the first loop (prepare_local) only that
\* one is ended; in the second (begin_case) all that began are, and the one attempted.
BeginFails(n) ==
  /\ status = "created"
  /\ \E first \in {1, n} :
       sessions' = [c \in Sessions |->
                      IF \E i \in first..n : Components[i] = c THEN "ended" ELSE "idle"]
  /\ cleanupDone' = TRUE
  /\ \/ LogFailure /\ UNCHANGED expired
     \/ ExhaustBudget("max_wall_time_ms", 0) /\ expired' = TRUE
  /\ UNCHANGED <<commandEpoch, commandVars, inputs, localTicks, inFlight, draining>>

\* finalize: every session is ended, whatever end_case says.  The evidence meter, the
\* wall clock and the errors of the cleanup then put their records into the log
\* without asking for room (append_unchecked).
Finalize(cleanupFails, meter) ==
  LET metered == meter = "grew" \/ (meter = "full" /\ failureStatus = None)
      failure == IF ~metered THEN failureStatus
                 ELSE IF meter = "grew" THEN "environment_error" ELSE "budget_exhausted"
      overdue == expired /\ ~wallCut
      unclean == ~overdue /\ cleanupFails /\ failure = None
      Count(b) == IF b THEN 1 ELSE 0
  IN
  /\ AtRest /\ status \in {"running", "quiescing", "failed"}
  /\ status' = "finalized"
  /\ IF cleanupDone THEN UNCHANGED <<sessions, failureStatus, logVars>>
     ELSE /\ sessions' = [c \in Sessions |-> "ended"]
          /\ failureStatus' = IF unclean THEN "environment_error"
                              ELSE IF overdue /\ failure = None THEN "budget_exhausted"
                              ELSE failure
          /\ records' = records + Count(metered) + Count(overdue) + Count(unclean)
          /\ wallCut' = (wallCut \/ overdue)
  /\ UNCHANGED <<commandEpoch, commandVars, inputs, localTicks, expired, cleanupDone, inFlight, draining>>

-----------------------------------------------------------------------------
(* STEP commands. *)

\* inject_source: an input changes.
InjectSource(c, value) ==
  /\ AtRest /\ status = "running"
  /\ \/ /\ Admitted
        /\ inputs' = [inputs EXCEPT ![c] = value]
        /\ Log(1) \/ LogStops(1)
     \/ BudgetRefuses /\ UNCHANGED inputs
  /\ UNCHANGED <<commandEpoch, commandVars, localTicks, expired, sessions, cleanupDone, inFlight, draining>>

\* _execute_step of a command that is known: its receipt, if there is one.
AnswerKnown(identity, c, payload) ==
  /\ AtRest /\ status # "created"
  /\ identity[2] > retiredFloor[identity[1]]
  /\ stepCommands[identity] # None
  /\ stepCommands[identity].component = c /\ stepCommands[identity].payload = payload
  /\ stepCommands[identity].receipt # None
  /\ answers' = answers \cup {<<identity, stepCommands[identity].receipt>>}
  /\ UNCHANGED <<status, failureStatus, commandEpoch, nextSequence, stepCommands, retiredFloor, executed,
                 inputs, localTicks, logVars, expired, sessions, cleanupDone, inFlight, draining>>

\* The conditions for a command that is not known.
Fresh(identity, c, payload) ==
  /\ inFlight = None
  /\ identity[2] > retiredFloor[identity[1]]
  /\ stepCommands[identity] = None
  /\ status \in {"running", "quiescing"}
  /\ identity = <<commandEpoch, nextSequence>>
  /\ payload = inputs[c]

\* _execute_step up to the local step: the command is entered before it has an effect.
StartStep(identity, c, payload) ==
  /\ Fresh(identity, c, payload)
  /\ \/ /\ Admitted
        /\ stepCommands' = [stepCommands EXCEPT ![identity] =
             [component |-> c, payload |-> payload, receipt |-> None]]
        /\ nextSequence' = nextSequence + 1
        /\ inFlight' = identity
        /\ executed' = Append(executed, identity)
        /\ UNCHANGED <<status, failureStatus, logVars>>
     \/ /\ Admitted /\ ExhaustBudget("max_scheduler_steps", 0)
        /\ UNCHANGED <<stepCommands, nextSequence, inFlight, executed>>
     \/ BudgetRefuses /\ UNCHANGED <<stepCommands, nextSequence, inFlight, executed>>
  /\ UNCHANGED <<commandEpoch, retiredFloor, answers, inputs, localTicks, expired, sessions,
                 cleanupDone, draining>>

Stepping == stepCommands[inFlight].component
Tick == localTicks' = [localTicks EXCEPT ![Stepping] = @ + 1]

\* The step returns and its observations find room in the log.  They may show that a
\* protocol was violated or an interrupt overrun: the test has failed, the step has not.
StepReturns ==
  /\ inFlight # None
  /\ Tick
  /\ \E n \in 1..MaxRecords :
       \/ Log(n)
       \/ /\ records + n < MaxRecords
          /\ records' = records + n /\ UNCHANGED wallCut
          /\ status' = "failed" /\ failureStatus' = "violation"
  /\ stepCommands' = [stepCommands EXCEPT ![inFlight].receipt = localTicks'[Stepping]]
  /\ answers' = answers \cup {<<inFlight, localTicks'[Stepping]>>}
  /\ inFlight' = None
  /\ UNCHANGED <<commandEpoch, nextSequence, retiredFloor, executed, inputs,
                 expired, sessions, cleanupDone, draining>>

Failed(failures, wall) ==
  /\ status' = "failed" /\ failureStatus' \in failures
  /\ wallCut' = (wallCut \/ wall)
  /\ inFlight' = None

\* The local step raises, with or without an effect.  Its harness_failure record is
\* followed by the evidence drained after it, which may fill the log; that the step ran
\* into the wall clock is marked after that without asking for room.
StepFails(timedOut) ==
  /\ inFlight # None
  /\ Tick \/ UNCHANGED localTicks
  /\ timedOut => expired
  /\ \E logged \in (records + 1)..MaxRecords :
       /\ records' = IF timedOut THEN logged + 1 ELSE logged
       /\ Failed(IF timedOut \/ logged = MaxRecords THEN {"budget_exhausted"}
                 ELSE {"uncertain_effect", "violation", "budget_exhausted"}, timedOut)
  /\ UNCHANGED <<commandEpoch, commandVars, inputs, expired, sessions, cleanupDone, draining>>

\* The step returned, but its observations are not accepted or not all logged: the receipt
\* stays unknown.  A log that is full, or a violation seen before, leaves no failure record.
StepRejected(timedOut) ==
  /\ inFlight # None
  /\ Tick
  /\ timedOut => expired
  /\ \E logged \in records..(MaxRecords - 1) :
       \/ /\ logged < MaxRecords - 1
          /\ records' = IF timedOut THEN logged + 2 ELSE logged + 1
          /\ Failed(IF timedOut THEN {"budget_exhausted"}
                    ELSE {"uncertain_effect", "environment_error"}, timedOut)
       \/ /\ logged > records
          /\ \/ records' = logged + 1 /\ Failed({"budget_exhausted"}, FALSE)
             \/ records' = logged /\ Failed({"violation"}, FALSE)
  /\ UNCHANGED <<commandEpoch, commandVars, inputs, expired, sessions, cleanupDone, draining>>

\* Faulty form of Retire: a command without a receipt is released too.
RetireUncertain(epoch, sequence) ==
  /\ AtRest /\ epoch <= commandEpoch
  /\ epoch = commandEpoch => sequence < nextSequence
  /\ retiredFloor[epoch] <= sequence
  /\ stepCommands' = [i \in Identities |->
       IF i[1] = epoch /\ i[2] <= sequence THEN None ELSE stepCommands[i]]
  /\ retiredFloor' = [retiredFloor EXCEPT ![epoch] = sequence]
  /\ UNCHANGED <<status, failureStatus, commandEpoch, nextSequence, executed, answers, inputs, localTicks,
                 logVars, expired, sessions, cleanupDone, inFlight, draining>>

\* retire_step_receipts_through: the receipts are released one by one, in the order of
\* the commands, up to the first one that is uncertain; the floor moves only when
\* there is none.
Retire(epoch, sequence) ==
  LET floor == retiredFloor[epoch]
      due == {i \in Identities : /\ i[1] = epoch /\ floor < i[2] /\ i[2] <= sequence
                                 /\ stepCommands[i] # None}
      uncertain == {i \in due : stepCommands[i].receipt = None}
      released == {i \in due : \A u \in uncertain : i[2] < u[2]}
  IN
  /\ AtRest /\ epoch <= commandEpoch
  /\ epoch = commandEpoch => sequence < nextSequence
  /\ floor <= sequence
  /\ stepCommands' = [i \in Identities |-> IF i \in released THEN None ELSE stepCommands[i]]
  /\ retiredFloor' = IF uncertain = {} THEN [retiredFloor EXCEPT ![epoch] = sequence] ELSE retiredFloor
  /\ UNCHANGED <<status, failureStatus, commandEpoch, nextSequence, executed, answers, inputs, localTicks,
                 logVars, expired, sessions, cleanupDone, inFlight, draining>>

-----------------------------------------------------------------------------
(* Reset and quiesce. *)

NewEpoch ==
  /\ commandEpoch' = commandEpoch + 1
  /\ nextSequence' = 1

Cleared == inputs' = [c \in Sessions |-> Quiet]

\* reset_all: the sessions are reset, inputs are cleared and a new command epoch begins.
\* The records of the reset may fill the log before, between or after these.
ResetAll ==
  /\ AtRest /\ status = "running" /\ commandEpoch < MaxEpoch
  /\ \/ /\ Admitted /\ Cleared /\ NewEpoch
        /\ (\E n \in 1..MaxRecords : Log(n)) \/ LogStops(MaxRecords)
     \/ /\ Admitted
        /\ Cleared \/ UNCHANGED inputs
        /\ LogStops(MaxRecords) /\ UNCHANGED <<commandEpoch, nextSequence>>
     \/ BudgetRefuses /\ UNCHANGED <<inputs, commandEpoch, nextSequence>>
  /\ UNCHANGED <<stepCommands, retiredFloor, executed, answers, localTicks, expired,
                 sessions, cleanupDone, inFlight, draining>>

\* A session cannot be reset: some are reset and some are not, and the test is over.
ResetFails ==
  /\ AtRest /\ status = "running" /\ commandEpoch < MaxEpoch /\ Admitted
  /\ \/ LogFailure /\ UNCHANGED expired
     \/ ExhaustBudget("max_wall_time_ms", 0) /\ expired' = TRUE
  /\ UNCHANGED <<commandEpoch, commandVars, inputs, localTicks, sessions, cleanupDone, inFlight, draining>>

\* quiesce begins; its steps are ordinary STEP commands.
Quiesce ==
  /\ AtRest /\ status = "running"
  /\ \/ /\ Admitted /\ status' = "quiescing" /\ draining' = TRUE
        /\ records' = records + 1 /\ UNCHANGED <<failureStatus, wallCut>>
     \/ /\ Admitted /\ LogStops(1) /\ UNCHANGED draining
     \/ BudgetRefuses /\ UNCHANGED draining
  /\ UNCHANGED <<commandEpoch, commandVars, inputs, localTicks, expired, sessions, cleanupDone, inFlight>>

\* quiesce ends with its record, or fails: in a session, or because a step of it did.
QuiesceEnds ==
  /\ draining /\ inFlight = None
  /\ draining' = FALSE
  /\ \/ status = "quiescing" /\ Log(1)
     \/ failureStatus # "budget_exhausted" /\ LogFailure
     \/ failureStatus = "budget_exhausted" /\ UNCHANGED <<status, failureStatus, logVars>>
  /\ UNCHANGED <<commandEpoch, commandVars, inputs, localTicks, expired, sessions, cleanupDone, inFlight>>

Next ==
  \/ WallExpires
  \/ BeginTest
  \/ \E n \in DOMAIN Components : BeginFails(n)
  \/ \E fails \in BOOLEAN, meter \in {"fits", "full", "grew"} : Finalize(fails, meter)
  \/ \E c \in Sessions, value \in Payloads : InjectSource(c, value)
  \/ \E i \in Identities, c \in Sessions, payload \in Payloads :
       AnswerKnown(i, c, payload) \/ StartStep(i, c, payload)
  \/ StepReturns
  \/ \E timedOut \in BOOLEAN : StepFails(timedOut) \/ StepRejected(timedOut)
  \/ \E e \in 0..MaxEpoch, n \in 0..MaxSequence : Retire(e, n)
  \/ ResetAll
  \/ ResetFails
  \/ Quiesce
  \/ QuiesceEnds

Spec == Init /\ [][Next]_vars

-----------------------------------------------------------------------------
(* Properties. *)

Before(i, j) == i[1] < j[1] \/ (i[1] = j[1] /\ i[2] < j[2])
Answered(i) == \E a \in answers : a[1] = i

\* A STEP command reaches a local harness at most once and never after a later one, of
\* its epoch or of a later epoch, whatever is repeated, delayed, retired or reset.
StepsRunOnceInOrder ==
  \A m, n \in DOMAIN executed : m < n => Before(executed[m], executed[n])

\* All answers to one command carry the same receipt, and only a command that ran is
\* answered: the cache never returns the observation of another step.
OneReceiptPerCommand ==
  \A a, b \in answers : /\ a[1] = b[1] => a[2] = b[2]
                        /\ \E n \in DOMAIN executed : executed[n] = a[1]

\* A command whose outcome is unknown stays in the table, so a repetition is refused as
\* uncertain, no further command runs after it, and its test ends with a failure status.
UncertainIsRemembered ==
  \A n \in DOMAIN executed :
    ~Answered(executed[n]) =>
      /\ stepCommands[executed[n]] # None /\ stepCommands[executed[n]].receipt = None
      /\ n = Len(executed)
      /\ inFlight = executed[n] \/ status \in {"failed", "finalized"}
      /\ status = "finalized" => failureStatus # None

\* execute_step is exactly-once as far as anyone can know: a command runs once and in
\* order, is answered with one receipt, and is never forgotten without one.
CommandsRunOnce == StepsRunOnceInOrder /\ OneReceiptPerCommand /\ UncertainIsRemembered

\* When a test is over no session is left running, however it began or failed.
SessionsEnded == status = "finalized" => \A c \in Sessions : sessions[c] # "begun"

\* Before it is finalized a test exceeds its record budget only by the marker of the
\* wall clock, and by that one record.
RecordsWithinBudget ==
  status # "finalized" => records <= MaxRecords + (IF wallCut THEN 1 ELSE 0)

\* A test leaves neither a running session nor, up to its end, more records than it may.
TestsAreContained == SessionsEnded /\ RecordsWithinBudget

\* check_usage: "Finalization records may use the full capacity", and no more.
FinalRecordsWithinBudget == records <= MaxRecords

=============================================================================
