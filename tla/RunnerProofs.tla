---------------------------- MODULE RunnerProofs ----------------------------
(***************************************************************************)
(* Proofs about a test that runs: the life of the test and of its STEP     *)
(* commands (ScenarioRunner), and the interrupt pulses that its steps      *)
(* deliver to the CPU (IrqDelivery).  The two parts are independent.       *)
(***************************************************************************)
EXTENDS ScenarioRunner, IrqDelivery, TLAPS

-----------------------------------------------------------------------------
(***************************************************************************)
(* The STEP commands of a test run once, and a test is contained, for any  *)
(* harnesses, payloads, record budget, number of commands and of resets.   *)
(*                                                                         *)
(* The life of a test (status, failure, records, sessions) does not depend *)
(* on its commands, so its invariant comes first.  That of the commands    *)
(* then needs of the life only that a test that has failed stays failed    *)
(* (LifeMoves).                                                            *)
(***************************************************************************)

Over == {"failed", "finalized"}
Statuses == {"created", "running", "quiescing"} \cup Over

LifeInv ==
  /\ status \in Statuses /\ failureStatus \in Failures \cup {None}
  /\ records \in Nat /\ wallCut \in BOOLEAN /\ cleanupDone \in BOOLEAN
  /\ sessions \in [Sessions -> {"idle", "begun", "ended"}]
  /\ status = "created" => ~cleanupDone
  /\ cleanupDone \/ status = "finalized" => \A c \in Sessions : sessions[c] # "begun"
  /\ status \notin Over => records < MaxRecords
  /\ status = "failed" => records <= MaxRecords + (IF wallCut THEN 1 ELSE 0)
  /\ inFlight # None => status \in {"running", "quiescing"}
  /\ draining => status \in {"quiescing", "failed"}

\* What a step does to the life of a test: it goes on with room in the log, it has failed
\* (within the budget but for the wall clock's marker), or its life is as it was.
GoesOn ==
  /\ status \notin Over \cup {"created"} /\ status' \in {status, "quiescing"}
  /\ failureStatus' = failureStatus /\ wallCut' = wallCut
  /\ records' \in Nat /\ records' < MaxRecords
Fails ==
  /\ status' = "failed" /\ failureStatus' \in Failures \cup {failureStatus}
  /\ wallCut' \in BOOLEAN
  /\ records' \in Nat /\ records' <= MaxRecords + (IF wallCut' THEN 1 ELSE 0)
Same == status' = status /\ failureStatus' = failureStatus /\ wallCut' = wallCut /\ records' = records

\* A test that is over stays over, and a failure is not forgotten.
LifeMoves ==
  /\ status \in Over => status' \in Over
  /\ failureStatus # None => failureStatus' # None

LEMMA LifeKeeps ==
  ASSUME LifeInv, GoesOn \/ (status # "finalized" /\ Fails) \/ Same,
         cleanupDone' = cleanupDone, sessions' = sessions,
         inFlight' # None => status' \in {"running", "quiescing"},
         draining' => status' \in {"quiescing", "failed"}
  PROVE  LifeInv' /\ LifeMoves
<1>1. None \notin Failures
  BY Zenon, RunnerConstants
<1>2. CASE GoesOn
  BY Zenon, <1>2 DEF GoesOn, LifeInv, LifeMoves, Statuses, Over
<1>3. CASE status # "finalized" /\ Fails
  <2>1. LifeInv'
    BY Zenon, <1>3 DEF Fails, LifeInv, Statuses, Over
  <2>2. LifeMoves
    BY Zenon, <1>1, <1>3 DEF Fails, LifeMoves, Over
  <2> QED BY Zenon, <2>1, <2>2
<1>4. CASE Same
  BY Zenon, <1>4 DEF Same, LifeInv, LifeMoves, Over
<1> QED BY Zenon, <1>2, <1>3, <1>4

\* The ways to fail: a budget is exhausted, an operation is refused or fails.
LEMMA ExhaustFails ==
  ASSUME LifeInv, NEW limit, NEW n \in Nat, records + n < MaxRecords, ExhaustBudget(limit, n)
  PROVE  Fails
<1>1. records \in Nat /\ wallCut \in BOOLEAN /\ MaxRecords \in Nat
  BY Zenon, RunnerConstants DEF LifeInv
<1>2. wallCut' \in BOOLEAN
  BY Zenon, <1>1 DEF ExhaustBudget
<1>3. records' = records + n + 1
  BY Zenon DEF ExhaustBudget
<1>4. records' \in Nat /\ records' <= MaxRecords
  BY <1>1, <1>3
<1> QED BY <1>1, <1>2, <1>4 DEF ExhaustBudget, Fails, Failures

LEMMA StopsFail ==
  ASSUME LifeInv, NEW most \in Nat, LogStops(most)
  PROVE  Fails
<1>1. PICK n \in 0..most : records + n < MaxRecords /\ ExhaustBudget("max_semantic_records", n)
  BY Zenon DEF LogStops
<1>2. n \in Nat
  OBVIOUS
<1> QED BY Zenon, <1>1, <1>2, ExhaustFails

LEMMA RefusedFails ==
  ASSUME LifeInv, status \notin Over, NEW limit, ExhaustBudget(limit, 0)
  PROVE  Fails
<1>1. records + 0 < MaxRecords
  BY DEF LifeInv
<1> QED BY Zenon, <1>1, ExhaustFails

LEMMA FailureFails ==
  ASSUME LifeInv, LogFailure
  PROVE  Fails
<1>1. CASE LogStops(1)
  BY Zenon, <1>1, StopsFail
<1>2. CASE Room /\ status' = "failed" /\ records' = records + 1 /\ UNCHANGED <<failureStatus, wallCut>>
  BY <1>2, RunnerConstants DEF LifeInv, Room, Fails
<1> QED BY Zenon, <1>1, <1>2 DEF LogFailure

LEMMA LogGoesOn ==
  ASSUME LifeInv, status \notin Over \cup {"created"}, NEW n \in Nat, Log(n)
  PROVE  GoesOn
BY DEF LifeInv, Log, GoesOn

\* A failed step: its records, and the marker of the wall clock if it ran into that.
LEMMA FailedFails ==
  ASSUME LifeInv, NEW failures \in SUBSET Failures, NEW wall \in BOOLEAN, Failed(failures, wall),
         NEW m \in Nat, m <= MaxRecords, records' = IF wall THEN m + 1 ELSE m
  PROVE  Fails
<1>1. MaxRecords \in Nat /\ wallCut \in BOOLEAN
  BY Zenon, RunnerConstants DEF LifeInv
<1>2. wallCut' = (wallCut \/ wall) /\ status' = "failed" /\ failureStatus' \in Failures
  BY Zenon DEF Failed
<1>3. wallCut' \in BOOLEAN /\ (wall => wallCut')
  BY Zenon, <1>1, <1>2
<1>4. records' \in Nat /\ records' <= MaxRecords + (IF wallCut' THEN 1 ELSE 0)
  BY <1>1, <1>3
<1> QED BY Zenon, <1>2, <1>3, <1>4 DEF Fails

LEMMA BeginKeeps ==
  ASSUME LifeInv, BeginTest \/ \E n \in DOMAIN Components : BeginFails(n)
  PROVE  LifeInv' /\ LifeMoves
<1>1. /\ status = "created" /\ ~cleanupDone /\ records \in Nat /\ records < MaxRecords
      /\ inFlight' = inFlight /\ draining' = draining /\ inFlight = None /\ ~draining
  BY Zenon DEF LifeInv, BeginTest, BeginFails, Over
<1>2. None \notin Failures
  BY Zenon, RunnerConstants
<1>3. CASE BeginTest
  <2>1. cleanupDone' = cleanupDone /\ sessions' \in [Sessions -> {"idle", "begun", "ended"}]
    BY Zenon, <1>3 DEF BeginTest
  <2>2. CASE status' = "running" /\ UNCHANGED <<failureStatus, logVars>>
    BY Zenon, <1>1, <2>1, <2>2 DEF LifeInv, LifeMoves, logVars, Statuses, Over
  <2>3. CASE ExhaustBudget("max_evidence_bytes", 0)
    <3>1. Fails
      BY Zenon, <1>1, <2>3, RefusedFails DEF Over
    <3> QED BY Zenon, <1>1, <1>2, <2>1, <3>1 DEF Fails, LifeInv, LifeMoves, Statuses, Over
  <2> QED BY Zenon, <1>3, <2>2, <2>3 DEF BeginTest
<1>4. ASSUME NEW n \in DOMAIN Components, BeginFails(n)
      PROVE  LifeInv' /\ LifeMoves
  <2>1. /\ cleanupDone' = TRUE /\ sessions' \in [Sessions -> {"idle", "begun", "ended"}]
        /\ \A c \in Sessions : sessions'[c] # "begun"
    BY Zenon, <1>4 DEF BeginFails
  <2>2. Fails
    BY Zenon, <1>1, <1>4, FailureFails, RefusedFails DEF BeginFails, Over
  <2> QED BY Zenon, <1>1, <1>2, <2>1, <2>2 DEF Fails, LifeInv, LifeMoves, Statuses, Over
<1> QED BY Zenon, <1>3, <1>4

LEMMA FinalizeKeeps ==
  ASSUME LifeInv, NEW fails \in BOOLEAN, NEW meter \in {"fits", "full", "grew"}, Finalize(fails, meter)
  PROVE  LifeInv' /\ LifeMoves
<1>1. /\ status' = "finalized" /\ inFlight' = None /\ ~draining' /\ cleanupDone' = cleanupDone
  BY Zenon DEF Finalize, AtRest
<1>2. CASE cleanupDone
  BY Zenon, <1>1, <1>2 DEF Finalize, LifeInv, LifeMoves, logVars, Statuses, Over
<1>3. CASE ~cleanupDone
  <2> DEFINE metered == meter = "grew" \/ (meter = "full" /\ failureStatus = None)
             failure == IF ~metered THEN failureStatus
                        ELSE IF meter = "grew" THEN "environment_error" ELSE "budget_exhausted"
             overdue == expired /\ ~wallCut
             unclean == ~overdue /\ fails /\ failure = None
             Count(b) == IF b THEN 1 ELSE 0
  <2>1. /\ sessions' = [c \in Sessions |-> "ended"]
        /\ failureStatus' = IF unclean THEN "environment_error"
                            ELSE IF overdue /\ failure = None THEN "budget_exhausted" ELSE failure
        /\ records' = records + Count(metered) + Count(overdue) + Count(unclean)
        /\ wallCut' = (wallCut \/ overdue)
    BY Zenon, <1>3 DEF Finalize
  <2>2. Count(metered) \in Nat /\ Count(overdue) \in Nat /\ Count(unclean) \in Nat
    BY Zenon
  <2>3. failure \in Failures \cup {None} /\ (failureStatus # None => failure # None)
    BY Zenon, RunnerConstants DEF LifeInv, Failures
  <2>4. wallCut' \in BOOLEAN
    BY Zenon, <2>1 DEF LifeInv
  <2> HIDE DEF metered, failure, overdue, unclean, Count
  <2>5. records' \in Nat
    BY <2>1, <2>2 DEF LifeInv
  <2>6. failureStatus' \in Failures \cup {None} /\ (failureStatus # None => failureStatus' # None)
    BY Zenon, <2>1, <2>3, RunnerConstants DEF Failures
  <2>7. sessions' \in [Sessions -> {"idle", "begun", "ended"}] /\ \A c \in Sessions : sessions'[c] # "begun"
    BY Zenon, <2>1
  <2> QED BY Zenon, <1>1, <1>3, <2>4, <2>5, <2>6, <2>7 DEF LifeInv, LifeMoves, Statuses, Over
<1> QED BY Zenon, <1>2, <1>3 DEF LifeInv

\* The steps of a command.
LEMMA StepLife ==
  ASSUME LifeInv, StepReturns \/ \E timedOut \in BOOLEAN : StepFails(timedOut) \/ StepRejected(timedOut)
  PROVE  LifeInv' /\ LifeMoves
<1>1. /\ inFlight # None /\ inFlight' = None /\ draining' = draining
      /\ cleanupDone' = cleanupDone /\ sessions' = sessions
  BY Zenon DEF StepReturns, StepFails, StepRejected, Failed
<1>2. /\ status \in {"running", "quiescing"} /\ status \notin Over \cup {"created"} /\ records \in Nat
      /\ records < MaxRecords /\ MaxRecords \in Nat /\ wallCut \in BOOLEAN
      /\ draining => status = "quiescing"
  BY Zenon, <1>1, RunnerConstants DEF LifeInv, Over
<1>3. CASE StepReturns
  <2>1. PICK n \in 1..MaxRecords :
           \/ Log(n)
           \/ /\ records + n < MaxRecords
              /\ records' = records + n /\ UNCHANGED wallCut
              /\ status' = "failed" /\ failureStatus' = "violation"
    BY Zenon, <1>3 DEF StepReturns
  <2>2. n \in Nat
    OBVIOUS
  <2>3. CASE Log(n)
    <3>1. GoesOn /\ status' = status
      BY Zenon, <1>2, <2>2, <2>3, LogGoesOn DEF Log
    <3> QED BY Zenon, <1>1, <1>2, <3>1, LifeKeeps
  <2>4. CASE /\ records + n < MaxRecords
             /\ records' = records + n /\ UNCHANGED wallCut
             /\ status' = "failed" /\ failureStatus' = "violation"
    <3>1. Fails
      BY <1>2, <2>2, <2>4 DEF Fails, Failures
    <3> QED BY Zenon, <1>1, <1>2, <2>4, <3>1, LifeKeeps
  <2> QED BY Zenon, <2>1, <2>3, <2>4
<1>4. ASSUME NEW timedOut \in BOOLEAN, StepFails(timedOut)
      PROVE  LifeInv' /\ LifeMoves
  <2>1. PICK logged \in (records + 1)..MaxRecords :
          /\ records' = IF timedOut THEN logged + 1 ELSE logged
          /\ Failed(IF timedOut \/ logged = MaxRecords THEN {"budget_exhausted"}
                    ELSE {"uncertain_effect", "violation", "budget_exhausted"}, timedOut)
    BY Zenon, <1>4 DEF StepFails
  <2>2. logged \in Nat /\ logged <= MaxRecords
    BY <1>2
  <2>3. (IF timedOut \/ logged = MaxRecords THEN {"budget_exhausted"}
         ELSE {"uncertain_effect", "violation", "budget_exhausted"}) \in SUBSET Failures
    BY Zenon DEF Failures
  <2>4. Fails
    BY Zenon, <2>1, <2>2, <2>3, FailedFails
  <2> QED BY Zenon, <1>1, <1>2, <2>4, LifeKeeps DEF Fails
<1>5. ASSUME NEW timedOut \in BOOLEAN, StepRejected(timedOut)
      PROVE  LifeInv' /\ LifeMoves
  <2>1. PICK logged \in records..(MaxRecords - 1) :
          \/ /\ logged < MaxRecords - 1
             /\ records' = IF timedOut THEN logged + 2 ELSE logged + 1
             /\ Failed(IF timedOut THEN {"budget_exhausted"}
                       ELSE {"uncertain_effect", "environment_error"}, timedOut)
          \/ records' = logged + 1 /\ Failed({"budget_exhausted"}, FALSE)
          \/ records' = logged /\ Failed({"violation"}, FALSE)
    BY Zenon, <1>5 DEF StepRejected
  <2>2. logged \in Nat /\ logged + 1 \in Nat /\ logged + 1 <= MaxRecords /\ logged <= MaxRecords
    BY <1>2
  <2>3. CASE /\ logged < MaxRecords - 1
             /\ records' = IF timedOut THEN logged + 2 ELSE logged + 1
             /\ Failed(IF timedOut THEN {"budget_exhausted"}
                       ELSE {"uncertain_effect", "environment_error"}, timedOut)
    <3>1. records' = IF timedOut THEN (logged + 1) + 1 ELSE logged + 1
      BY <2>2, <2>3
    <3>2. (IF timedOut THEN {"budget_exhausted"} ELSE {"uncertain_effect", "environment_error"}) \in SUBSET Failures
      BY Zenon DEF Failures
    <3> QED BY Zenon, <1>1, <1>2, <2>2, <2>3, <3>1, <3>2, FailedFails, LifeKeeps DEF Fails
  <2>4. CASE records' = logged + 1 /\ Failed({"budget_exhausted"}, FALSE)
    <3>1. {"budget_exhausted"} \in SUBSET Failures /\ records' = IF FALSE THEN (logged + 1) + 1 ELSE logged + 1
      BY Zenon, <2>4 DEF Failures
    <3> QED BY Zenon, <1>1, <1>2, <2>2, <2>4, <3>1, FailedFails, LifeKeeps DEF Fails
  <2>5. CASE records' = logged /\ Failed({"violation"}, FALSE)
    <3>1. {"violation"} \in SUBSET Failures /\ records' = IF FALSE THEN logged + 1 ELSE logged
      BY Zenon, <2>5 DEF Failures
    <3> QED BY Zenon, <1>1, <1>2, <2>2, <2>5, <3>1, FailedFails, LifeKeeps DEF Fails
  <2> QED BY Zenon, <2>1, <2>3, <2>4, <2>5
<1> QED BY Zenon, <1>3, <1>4, <1>5

LEMMA StartLife ==
  ASSUME LifeInv, NEW i \in Identities, NEW c, NEW payload, StartStep(i, c, payload)
  PROVE  LifeInv' /\ LifeMoves
<1>1. /\ inFlight = None /\ status \in {"running", "quiescing"} /\ status \notin Over
      /\ draining' = draining /\ cleanupDone' = cleanupDone /\ sessions' = sessions
  BY Zenon DEF StartStep, Fresh, Over
<1>2. (draining => status = "quiescing") /\ status # "finalized"
  BY Zenon, <1>1 DEF LifeInv
<1>3. CASE UNCHANGED <<status, failureStatus, logVars>>
  BY Zenon, <1>1, <1>2, <1>3, LifeKeeps DEF Same, logVars
<1>4. ASSUME NEW limit, ExhaustBudget(limit, 0), inFlight' = inFlight
      PROVE  LifeInv' /\ LifeMoves
  <2>1. Fails
    BY Zenon, <1>1, <1>4, RefusedFails
  <2> QED BY Zenon, <1>1, <1>2, <1>4, <2>1, LifeKeeps DEF Fails
<1> QED BY Zenon, <1>3, <1>4 DEF StartStep, BudgetRefuses

\* The calls that only use the log: inject_source, reset_all and quiesce.
LEMMA CallLife ==
  ASSUME LifeInv,
         \/ \E c \in Sessions, value \in Payloads : InjectSource(c, value)
         \/ ResetAll \/ ResetFails \/ Quiesce \/ QuiesceEnds
  PROVE  LifeInv' /\ LifeMoves
<1>1. inFlight' = None /\ cleanupDone' = cleanupDone /\ sessions' = sessions
  BY Zenon DEF InjectSource, ResetAll, ResetFails, Quiesce, QuiesceEnds, AtRest
<1>2. records \in Nat /\ MaxRecords \in Nat /\ None \notin Failures
  BY Zenon, RunnerConstants DEF LifeInv
<1>3. CASE QuiesceEnds
  <2>1. ~draining' /\ status \in {"quiescing", "failed"}
    BY Zenon, <1>3 DEF QuiesceEnds, LifeInv
  <2>2. CASE status = "quiescing" /\ Log(1)
    <3>1. GoesOn
      BY Zenon, <2>2, LogGoesOn DEF Over
    <3> QED BY Zenon, <1>1, <2>1, <3>1, LifeKeeps
  <2>3. CASE LogFailure
    BY Zenon, <1>1, <2>1, <2>3, FailureFails, LifeKeeps
  <2>4. CASE UNCHANGED <<status, failureStatus, logVars>>
    BY Zenon, <1>1, <2>1, <2>4, LifeKeeps DEF Same, logVars
  <2> QED BY Zenon, <1>3, <2>2, <2>3, <2>4 DEF QuiesceEnds
<1>4. CASE ~QuiesceEnds
  <2>1. status = "running" /\ status \notin Over \cup {"created"} /\ ~draining
    BY Zenon, <1>4 DEF InjectSource, ResetAll, ResetFails, Quiesce, AtRest, Over
  <2>2. ASSUME Fails, draining' = draining PROVE LifeInv' /\ LifeMoves
    BY Zenon, <1>1, <2>1, <2>2, LifeKeeps
  <2>3. ASSUME NEW n \in Nat, Log(n), draining' = draining PROVE LifeInv' /\ LifeMoves
    <3>1. GoesOn
      BY Zenon, <2>1, <2>3, LogGoesOn
    <3> QED BY Zenon, <1>1, <2>1, <2>3, <3>1, LifeKeeps
  <2>4. ASSUME BudgetRefuses, draining' = draining PROVE LifeInv' /\ LifeMoves
    <3>1. Fails
      BY Zenon, <2>1, <2>4, RefusedFails DEF BudgetRefuses
    <3> QED BY Zenon, <2>2, <2>4, <3>1
  <2>5. ASSUME NEW n \in Nat, LogStops(n), draining' = draining PROVE LifeInv' /\ LifeMoves
    BY Zenon, <2>2, <2>5, StopsFail
  <2>6. ASSUME NEW c \in Sessions, NEW value \in Payloads, InjectSource(c, value)
        PROVE  LifeInv' /\ LifeMoves
    BY Zenon, <2>3, <2>4, <2>5, <2>6 DEF InjectSource
  <2>7. CASE ResetAll
    <3>1. draining' = draining
      BY Zenon, <2>7 DEF ResetAll
    <3>2. (\E n \in 1..MaxRecords : Log(n)) \/ LogStops(MaxRecords) \/ BudgetRefuses
      BY Zenon, <2>7 DEF ResetAll
    <3> QED BY <1>2, <2>3, <2>4, <2>5, <3>1, <3>2
  <2>8. CASE ResetFails
    <3>1. draining' = draining /\ (LogFailure \/ ExhaustBudget("max_wall_time_ms", 0))
      BY Zenon, <2>8 DEF ResetFails
    <3> QED BY Zenon, <2>1, <2>2, <3>1, FailureFails, RefusedFails
  <2>9. CASE Quiesce
    <3>1. CASE /\ Admitted /\ status' = "quiescing" /\ draining' = TRUE
               /\ records' = records + 1 /\ UNCHANGED <<failureStatus, wallCut>>
      <4>1. GoesOn
        BY <1>2, <2>1, <3>1 DEF GoesOn, Admitted, Room
      <4> QED BY Zenon, <1>1, <3>1, <4>1, LifeKeeps
    <3>2. CASE LogStops(1) /\ UNCHANGED draining
      BY Zenon, <2>5, <3>2
    <3>3. CASE BudgetRefuses /\ UNCHANGED draining
      BY Zenon, <2>4, <3>3
    <3> QED BY Zenon, <2>9, <3>1, <3>2, <3>3 DEF Quiesce
  <2> QED BY Zenon, <1>4, <2>6, <2>7, <2>8, <2>9
<1> QED BY Zenon, <1>3, <1>4

LEMMA LifeStep == LifeInv /\ [Next]_vars => LifeInv' /\ LifeMoves
<1> SUFFICES ASSUME LifeInv, [Next]_vars PROVE LifeInv' /\ LifeMoves
  BY Zenon
<1>1. ASSUME UNCHANGED <<status, failureStatus, records, wallCut, cleanupDone, sessions, inFlight, draining>>
      PROVE  LifeInv' /\ LifeMoves
  BY Zenon, <1>1 DEF LifeInv, LifeMoves
<1>2. CASE UNCHANGED vars
  BY Zenon, <1>1, <1>2 DEF vars, logVars
<1>3. CASE WallExpires
  BY Zenon, <1>1, <1>3 DEF WallExpires, logVars
<1>4. CASE BeginTest \/ \E n \in DOMAIN Components : BeginFails(n)
  BY Zenon, <1>4, BeginKeeps
<1>5. ASSUME NEW fails \in BOOLEAN, NEW meter \in {"fits", "full", "grew"}, Finalize(fails, meter)
      PROVE  LifeInv' /\ LifeMoves
  BY Zenon, <1>5, FinalizeKeeps
<1>6. CASE \/ \E c \in Sessions, value \in Payloads : InjectSource(c, value)
           \/ ResetAll \/ ResetFails \/ Quiesce \/ QuiesceEnds
  BY Zenon, <1>6, CallLife
<1>7. ASSUME NEW i \in Identities, NEW c \in Sessions, NEW payload \in Payloads,
             AnswerKnown(i, c, payload) \/ StartStep(i, c, payload)
      PROVE  LifeInv' /\ LifeMoves
  <2>1. CASE AnswerKnown(i, c, payload)
    BY Zenon, <1>1, <2>1 DEF AnswerKnown, logVars
  <2>2. CASE StartStep(i, c, payload)
    BY Zenon, <2>2, StartLife
  <2> QED BY Zenon, <1>7, <2>1, <2>2
<1>8. CASE StepReturns \/ \E timedOut \in BOOLEAN : StepFails(timedOut) \/ StepRejected(timedOut)
  BY Zenon, <1>8, StepLife
<1>9. ASSUME NEW e \in 0..MaxEpoch, NEW n \in 0..MaxSequence, Retire(e, n)
      PROVE  LifeInv' /\ LifeMoves
  BY Zenon, <1>1, <1>9 DEF Retire, logVars
<1> QED BY Zenon, <1>2, <1>3, <1>4, <1>5, <1>6, <1>7, <1>8, <1>9 DEF Next

LEMMA LifeInit == Init => LifeInv
<1> SUFFICES ASSUME Init PROVE LifeInv
  BY Zenon
<1>1. /\ status = "created" /\ failureStatus = None /\ records = 0 /\ wallCut = FALSE /\ cleanupDone = FALSE
      /\ inFlight = None /\ draining = FALSE
      /\ sessions \in [Sessions -> {"idle", "begun", "ended"}]
  BY Zenon DEF Init
<1>2. records \in Nat /\ records < MaxRecords
  BY <1>1, RunnerConstants
<1> QED BY Zenon, <1>1, <1>2 DEF LifeInv, Statuses, Over

-----------------------------------------------------------------------------
(* The commands. *)

Ran(i) == \E n \in DOMAIN executed : executed[n] = i

CommandTypes ==
  /\ commandEpoch \in Nat /\ nextSequence \in Nat \ {0}
  /\ stepCommands \in [Identities -> CachedCommands \cup {None}]
  /\ localTicks \in [Sessions -> Nat]
  /\ executed \in Seq(Identities)
  /\ answers \subseteq Identities \X Nat
  /\ inFlight \in Identities \cup {None}

\* The next command comes after all that ran.
NextIsLast == \A n \in DOMAIN executed : Before(executed[n], <<commandEpoch, nextSequence>>)

\* The table and the answers agree.
CacheAgrees ==
  \A i \in Identities : stepCommands[i] # None =>
    /\ Ran(i)
    /\ stepCommands[i].receipt = None => ~Answered(i)
    /\ stepCommands[i].receipt # None => <<i, stepCommands[i].receipt>> \in answers

\* UncertainIsRemembered, with the failure status from the moment the step has failed.
Uncertain ==
  \A n \in DOMAIN executed : ~Answered(executed[n]) =>
    /\ stepCommands[executed[n]] # None /\ stepCommands[executed[n]].receipt = None
    /\ n = Len(executed)
    /\ inFlight = executed[n] \/ (status \in Over /\ failureStatus # None)

Flying == inFlight # None => stepCommands[inFlight] # None /\ stepCommands[inFlight].receipt = None

CommandInv ==
  CommandTypes /\ StepsRunOnceInOrder /\ NextIsLast /\ OneReceiptPerCommand /\ CacheAgrees /\ Uncertain /\ Flying

\* A step that leaves the commands alone keeps their invariant, also when it begins a new
\* epoch.
LEMMA CommandsUnchanged ==
  ASSUME CommandInv, LifeMoves,
         stepCommands' = stepCommands, executed' = executed, answers' = answers, localTicks' = localTicks,
         inFlight' = inFlight,
         \/ commandEpoch' = commandEpoch /\ nextSequence' = nextSequence
         \/ commandEpoch' = commandEpoch + 1 /\ nextSequence' = 1
  PROVE  CommandInv'
<1>1. CommandTypes /\ StepsRunOnceInOrder /\ NextIsLast /\ OneReceiptPerCommand /\ CacheAgrees /\ Uncertain /\ Flying
  BY Zenon DEF CommandInv
<1>2. CommandTypes'
  BY <1>1 DEF CommandTypes
<1>3. NextIsLast'
  <2> SUFFICES ASSUME NEW n \in DOMAIN executed
               PROVE  Before(executed[n], <<commandEpoch', nextSequence'>>)
    BY Zenon DEF NextIsLast, Before
  <2>1. executed[n] \in Identities /\ Before(executed[n], <<commandEpoch, nextSequence>>)
    <3>1. executed[n] \in Identities
      BY <1>1 DEF CommandTypes
    <3>2. Before(executed[n], <<commandEpoch, nextSequence>>)
      BY Zenon, <1>1, Zenon DEF NextIsLast
    <3> QED BY Zenon, <3>1, <3>2
  <2>2. executed[n][1] \in Nat /\ executed[n][2] \in Nat
    BY <2>1, RunnerConstants DEF Identities
  <2> QED BY <1>1, <2>1, <2>2 DEF Before, CommandTypes
<1>4. StepsRunOnceInOrder' /\ OneReceiptPerCommand' /\ CacheAgrees' /\ Flying'
  BY <1>1 DEF StepsRunOnceInOrder, Before, OneReceiptPerCommand, CacheAgrees, Ran, Answered, Flying
<1>5. Uncertain'
  BY Zenon, <1>1 DEF Uncertain, Answered, LifeMoves
<1> QED BY Zenon, <1>2, <1>3, <1>4, <1>5 DEF CommandInv

\* A command runs: everything before it has been answered, for a test that has not failed
\* has no uncertain command, and it comes after everything before.
LEMMA StartKeeps ==
  ASSUME LifeInv, CommandInv, LifeMoves, NEW i \in Identities, NEW c \in Sessions, NEW payload \in Payloads,
         StartStep(i, c, payload)
  PROVE  CommandInv'
<1>1. CommandTypes /\ StepsRunOnceInOrder /\ NextIsLast /\ OneReceiptPerCommand /\ CacheAgrees /\ Uncertain /\ Flying
  BY Zenon DEF CommandInv
<1>2. /\ commandEpoch' = commandEpoch /\ answers' = answers /\ localTicks' = localTicks
      /\ inFlight = None /\ stepCommands[i] = None /\ status \notin Over
      /\ i = <<commandEpoch, nextSequence>>
  BY Zenon DEF StartStep, Fresh, Over
<1>3. CASE UNCHANGED <<stepCommands, nextSequence, inFlight, executed>>
  BY Zenon, <1>2, <1>3, CommandsUnchanged
<1>4. CASE /\ stepCommands' = [stepCommands EXCEPT ![i] = [component |-> c, payload |-> payload, receipt |-> None]]
           /\ nextSequence' = nextSequence + 1 /\ inFlight' = i /\ executed' = Append(executed, i)
  <2> DEFINE k == Len(executed) + 1
             entry == [component |-> c, payload |-> payload, receipt |-> None]
  <2>1. /\ executed' \in Seq(Identities) /\ DOMAIN executed' = DOMAIN executed \cup {k}
        /\ k \notin DOMAIN executed /\ k = Len(executed') /\ executed'[k] = i
        /\ \A n \in DOMAIN executed : executed'[n] = executed[n] /\ n \in Nat /\ n < k
    BY <1>1, <1>4 DEF CommandTypes
  <2>2. entry \in CachedCommands /\ entry # None /\ entry.receipt = None
    BY RunnerConstants DEF CachedCommands
  <2> HIDE DEF k, entry
  <2>3. /\ stepCommands'[i] = entry
        /\ \A j \in Identities \ {i} : stepCommands'[j] = stepCommands[j]
    BY Zenon, <1>1, <1>4 DEF CommandTypes, entry
  <2>4. CommandTypes'
    <3>1. stepCommands' = [stepCommands EXCEPT ![i] = entry]
      BY Zenon, <1>4 DEF entry
    <3> QED BY <1>1, <1>2, <1>4, <2>1, <2>2, <3>1 DEF CommandTypes
  <2>5. \A n \in DOMAIN executed : Before(executed[n], i)
    BY Zenon, <1>1, <1>2 DEF NextIsLast
  <2>6. StepsRunOnceInOrder'
    <3> SUFFICES ASSUME NEW m \in DOMAIN executed', NEW n \in DOMAIN executed', m < n
                 PROVE  Before(executed'[m], executed'[n])
      BY Zenon DEF StepsRunOnceInOrder, Before
    <3>1. m \in DOMAIN executed
      <4>1. k \in Nat
        BY <1>1 DEF CommandTypes, k
      <4>2. n = k \/ (n \in Nat /\ n < k)
        BY Zenon, <2>1, Zenon
      <4>3. m # k
        BY <4>1, <4>2
      <4> QED BY Zenon, <2>1, <4>3, Zenon
    <3>2. CASE n = k
      BY Zenon, <2>1, <2>5, <3>1, <3>2
    <3>3. CASE n \in DOMAIN executed
      BY Zenon, <1>1, <2>1, <3>1, <3>3 DEF StepsRunOnceInOrder
    <3> QED BY Zenon, <2>1, <3>2, <3>3
  <2>7. NextIsLast'
    <3> SUFFICES ASSUME NEW n \in DOMAIN executed'
                 PROVE  Before(executed'[n], <<commandEpoch', nextSequence'>>)
      BY Zenon DEF NextIsLast, Before
    <3>1. executed'[n] \in Identities /\ (n = k \/ Before(executed'[n], i))
      <4>1. executed'[n] \in Identities
        <5>1. \A m \in DOMAIN executed : executed[m] \in Identities
          BY <1>1 DEF CommandTypes
        <5>2. executed'[n] = i \/ (n \in DOMAIN executed /\ executed'[n] = executed[n])
          BY Zenon, <2>1, Zenon
        <5> QED BY Zenon, <5>1, <5>2
      <4>2. CASE n \in DOMAIN executed
        <5>1. executed'[n] = executed[n] /\ Before(executed[n], i)
          BY Zenon, <2>1, <2>5, <4>2, Zenon
        <5> QED BY Zenon, <4>1, <5>1
      <4> QED BY Zenon, <2>1, <4>1, <4>2
    <3>2. executed'[n][1] \in Nat /\ executed'[n][2] \in Nat
      BY <3>1, RunnerConstants DEF Identities
    <3>3. i[1] = commandEpoch /\ i[2] = nextSequence /\ commandEpoch \in Nat /\ nextSequence \in Nat
      BY Zenon, <1>1, <1>2 DEF CommandTypes
    <3>4. n = k => executed'[n] = i
      BY Zenon, <2>1
    <3> QED BY <1>2, <1>4, <3>1, <3>2, <3>3, <3>4 DEF Before
  <2>8. \A j \in Identities : (Answered(j)' <=> Answered(j)) /\ (Ran(j) => Ran(j)') /\ (Answered(j) => Ran(j))
    <3>1. \A j \in Identities : Answered(j)' <=> Answered(j)
      BY Zenon, <1>2 DEF Answered
    <3>2. \A j \in Identities : Ran(j) => Ran(j)'
      BY Zenon, <2>1 DEF Ran
    <3>3. \A j \in Identities : Answered(j) => Ran(j)
      BY Zenon, <1>1 DEF Answered, Ran, OneReceiptPerCommand
    <3> QED BY Zenon, <3>1, <3>2, <3>3
  <2>9. OneReceiptPerCommand'
    <3>1. \A a \in answers : \E n \in DOMAIN executed' : executed'[n] = a[1]
      BY Zenon, <1>1, <2>1 DEF OneReceiptPerCommand
    <3> QED BY Zenon, <1>1, <1>2, <3>1 DEF OneReceiptPerCommand
  <2>10. ~Answered(i) /\ Ran(i)'
    <3>1. ~Ran(i)
      <4>1. i[1] \in Nat /\ i[2] \in Nat
        BY RunnerConstants DEF Identities
      <4>2. ~Before(i, i)
        BY <4>1 DEF Before
      <4> QED BY Zenon, <2>5, <4>2 DEF Ran
    <3> QED BY Zenon, <2>1, <2>8, <3>1 DEF Ran
  <2>11. CacheAgrees'
    <3> SUFFICES ASSUME NEW j \in Identities, stepCommands'[j] # None
                 PROVE  /\ Ran(j)'
                        /\ stepCommands'[j].receipt = None => ~Answered(j)'
                        /\ stepCommands'[j].receipt # None => <<j, stepCommands'[j].receipt>> \in answers'
      BY Zenon DEF CacheAgrees
    <3>1. CASE j = i
      BY Zenon, <2>2, <2>3, <2>8, <2>10, <3>1
    <3>2. CASE j # i
      BY Zenon, <1>1, <1>2, <2>3, <2>8, <3>2 DEF CacheAgrees
    <3> QED BY Zenon, <3>1, <3>2
  <2>12. Uncertain'
    <3> SUFFICES ASSUME NEW n \in DOMAIN executed', ~Answered(executed'[n])
                 PROVE  n = k
      BY ZenonT(60), <1>2, <1>4, <2>1, <2>2, <2>3 DEF Uncertain, Answered
    <3>1. \A m \in DOMAIN executed : Answered(executed[m])
      <4> SUFFICES ASSUME NEW m \in DOMAIN executed, ~Answered(executed[m]) PROVE FALSE
        BY Zenon
      <4>1. inFlight = executed[m] /\ executed[m] \in Identities
        BY <1>1, <1>2 DEF Uncertain, CommandTypes
      <4> QED BY Zenon, <1>2, <4>1, RunnerConstants
    <3> QED BY Zenon, <2>1, <3>1
  <2>13. Flying'
    BY Zenon, <1>4, <2>2, <2>3 DEF Flying
  <2> QED BY Zenon, <2>4, <2>6, <2>7, <2>9, <2>11, <2>12, <2>13 DEF CommandInv
<1> QED BY Zenon, <1>3, <1>4 DEF StartStep

\* A step returns: its receipt goes into the table and out to the caller, for the first time.
LEMMA ReturnKeeps ==
  ASSUME LifeInv, CommandInv, StepReturns
  PROVE  CommandInv'
<1>1. CommandTypes /\ StepsRunOnceInOrder /\ NextIsLast /\ OneReceiptPerCommand /\ CacheAgrees /\ Uncertain /\ Flying
  BY Zenon DEF CommandInv
<1>2. /\ inFlight \in Identities /\ inFlight' = None /\ commandEpoch' = commandEpoch
      /\ nextSequence' = nextSequence /\ executed' = executed /\ status \notin Over
  BY Zenon, <1>1 DEF StepReturns, CommandTypes, LifeInv, Over
<1> DEFINE f == inFlight
           old == stepCommands[f]
           receipt == localTicks'[Stepping]
<1>3. old \in CachedCommands /\ old # None /\ old.receipt = None
  BY Zenon, <1>1, <1>2 DEF StepReturns, Flying, CommandTypes
<1>4. old.component \in Sessions
  BY Zenon, <1>3 DEF CachedCommands
<1>5. localTicks' = [localTicks EXCEPT ![old.component] = @ + 1]
  BY Zenon DEF StepReturns, Tick, Stepping
<1>6. localTicks' \in [Sessions -> Nat] /\ receipt \in Nat
  BY <1>1, <1>4, <1>5 DEF CommandTypes, Stepping
<1>7. /\ stepCommands' = [stepCommands EXCEPT ![f].receipt = receipt]
      /\ answers' = answers \cup {<<f, receipt>>}
  BY Zenon DEF StepReturns
<1>8. None \notin Nat /\ None \notin CachedCommands /\ None \notin Identities
  BY Zenon, RunnerConstants
<1> DEFINE new == [old EXCEPT !.receipt = receipt]
<1>9. new \in CachedCommands /\ new.receipt = receipt
  <2> HIDE DEF old, receipt
  <2> QED BY Zenon, <1>3, <1>6 DEF CachedCommands
<1>10. stepCommands' = [stepCommands EXCEPT ![f] = new]
  BY Zenon, <1>7
<1>11. Ran(f) /\ ~Answered(f)
  BY Zenon, <1>1, <1>2, <1>3 DEF CacheAgrees
<1> HIDE DEF f, old, receipt, new
<1>12. f \in Identities /\ stepCommands'[f] = new /\ \A j \in Identities \ {f} : stepCommands'[j] = stepCommands[j]
  BY Zenon, <1>1, <1>2, <1>10 DEF CommandTypes, f
<1>13. CommandTypes'
  <2>1. stepCommands' \in [Identities -> CachedCommands \cup {None}]
    BY Zenon, <1>1, <1>9, <1>10, <1>12 DEF CommandTypes
  <2>2. answers' \subseteq Identities \X Nat
    BY <1>1, <1>6, <1>7, <1>12 DEF CommandTypes
  <2> QED BY Zenon, <1>1, <1>2, <1>6, <2>1, <2>2 DEF CommandTypes
<1>14. StepsRunOnceInOrder' /\ NextIsLast'
  BY <1>1, <1>2 DEF StepsRunOnceInOrder, NextIsLast, Before
<1>15. \A j \in Identities : (Answered(j)' <=> Answered(j) \/ j = f) /\ (Ran(j)' <=> Ran(j))
  <2>1. <<f, receipt>>[1] = f
    BY Zenon
  <2>2. \A j \in Identities : Answered(j)' <=> Answered(j) \/ j = f
    BY Zenon, <1>7, <2>1 DEF Answered
  <2> QED BY Zenon, <1>2, <2>2 DEF Ran
<1>16. OneReceiptPerCommand'
  <2> SUFFICES ASSUME NEW a \in answers', NEW b \in answers'
               PROVE  (a[1] = b[1] => a[2] = b[2]) /\ \E n \in DOMAIN executed : executed[n] = a[1]
    BY Zenon, <1>2 DEF OneReceiptPerCommand
  <2>1. \A x \in answers : x[1] # f
    BY Zenon, <1>11 DEF Answered
  <2>2. CASE a \in answers /\ b \in answers
    BY Zenon, <1>1, <2>2 DEF OneReceiptPerCommand
  <2>3. CASE a = <<f, receipt>> /\ b = <<f, receipt>>
    BY Zenon, <1>11, <2>3 DEF Ran
  <2>4. CASE a = <<f, receipt>> /\ b \in answers
    BY Zenon, <1>11, <2>1, <2>4 DEF Ran
  <2>5. CASE a \in answers /\ b = <<f, receipt>>
    BY Zenon, <1>1, <2>1, <2>5 DEF OneReceiptPerCommand
  <2> QED BY Zenon, <1>7, <2>2, <2>3, <2>4, <2>5
<1>17. CacheAgrees'
  <2> SUFFICES ASSUME NEW j \in Identities, stepCommands'[j] # None
               PROVE  /\ Ran(j)'
                      /\ stepCommands'[j].receipt = None => ~Answered(j)'
                      /\ stepCommands'[j].receipt # None => <<j, stepCommands'[j].receipt>> \in answers'
    BY Zenon DEF CacheAgrees
  <2>1. CASE j = f
    <3>1. stepCommands'[j].receipt = receipt /\ receipt # None
      BY Zenon, <1>6, <1>8, <1>9, <1>12, <2>1
    <3> QED BY <1>7, <1>11, <1>15, <2>1, <3>1
  <2>2. CASE j # f
    BY <1>1, <1>7, <1>12, <1>15, <2>2 DEF CacheAgrees
  <2> QED BY Zenon, <2>1, <2>2
<1>18. Uncertain'
  <2> SUFFICES ASSUME NEW n \in DOMAIN executed, ~Answered(executed[n])' PROVE FALSE
    BY Zenon, <1>2 DEF Uncertain
  <2>1. executed[n] \in Identities
    BY <1>1 DEF CommandTypes
  <2>2. ~Answered(executed[n]) /\ executed[n] # f
    BY Zenon, <1>2, <1>15, <2>1
  <2> QED BY Zenon, <1>1, <1>2, <2>2 DEF Uncertain, f
<1>19. Flying'
  BY Zenon, <1>2 DEF Flying
<1> QED BY Zenon, <1>13, <1>14, <1>16, <1>17, <1>18, <1>19 DEF CommandInv

\* A step fails or its observations are rejected: the command stays, without a receipt, and
\* the test has failed.
LEMMA FailKeeps ==
  ASSUME CommandInv, NEW timedOut \in BOOLEAN, StepFails(timedOut) \/ StepRejected(timedOut)
  PROVE  CommandInv'
<1>1. CommandTypes /\ StepsRunOnceInOrder /\ NextIsLast /\ OneReceiptPerCommand /\ CacheAgrees /\ Uncertain /\ Flying
  BY Zenon DEF CommandInv
<1>2. /\ inFlight # None /\ inFlight' = None /\ status' = "failed" /\ commandEpoch' = commandEpoch
      /\ nextSequence' = nextSequence /\ stepCommands' = stepCommands /\ executed' = executed /\ answers' = answers
  BY Zenon DEF StepFails, StepRejected, Failed, commandVars
<1>3. failureStatus' \in Failures
  BY Zenon DEF StepFails, StepRejected, Failed, Failures
<1>4. localTicks' \in [Sessions -> Nat]
  <2>1. stepCommands[inFlight] \in CachedCommands
    BY Zenon, <1>1, <1>2 DEF CommandTypes, Flying
  <2>2. Stepping \in Sessions
    BY Zenon, <2>1 DEF Stepping, CachedCommands
  <2>3. Tick \/ localTicks' = localTicks
    BY Zenon DEF StepFails, StepRejected
  <2> QED BY <1>1, <2>2, <2>3 DEF Tick, CommandTypes
<1>5. CommandTypes'
  BY Zenon, <1>1, <1>2, <1>4 DEF CommandTypes
<1>6. StepsRunOnceInOrder' /\ NextIsLast' /\ OneReceiptPerCommand' /\ CacheAgrees' /\ Flying'
  BY <1>1, <1>2 DEF StepsRunOnceInOrder, NextIsLast, Before, OneReceiptPerCommand, CacheAgrees, Ran, Answered, Flying
<1>7. Uncertain'
  BY Zenon, <1>1, <1>2, <1>3, RunnerConstants DEF Uncertain, Answered, Over
<1> QED BY Zenon, <1>5, <1>6, <1>7 DEF CommandInv

\* Retirement takes only commands with a receipt out of the table.
LEMMA RetireKeeps ==
  ASSUME CommandInv, NEW e \in 0..MaxEpoch, NEW s \in 0..MaxSequence, Retire(e, s)
  PROVE  CommandInv'
<1>1. CommandTypes /\ StepsRunOnceInOrder /\ NextIsLast /\ OneReceiptPerCommand /\ CacheAgrees /\ Uncertain /\ Flying
  BY Zenon DEF CommandInv
<1>2. /\ inFlight = None /\ inFlight' = inFlight /\ status' = status /\ failureStatus' = failureStatus
      /\ commandEpoch' = commandEpoch /\ nextSequence' = nextSequence /\ localTicks' = localTicks
      /\ executed' = executed /\ answers' = answers
  BY Zenon DEF Retire, AtRest
<1>3. /\ stepCommands' \in [Identities -> CachedCommands \cup {None}]
      /\ \A i \in Identities : \/ stepCommands'[i] = stepCommands[i]
                               \/ stepCommands'[i] = None /\ stepCommands[i].receipt # None
  <2> DEFINE due == {i \in Identities : /\ i[1] = e /\ retiredFloor[e] < i[2] /\ i[2] <= s
                                        /\ stepCommands[i] # None}
             uncertain == {i \in due : stepCommands[i].receipt = None}
             released == {i \in due : \A u \in uncertain : i[2] < u[2]}
  <2>1. stepCommands' = [i \in Identities |-> IF i \in released THEN None ELSE stepCommands[i]]
    BY Zenon DEF Retire
  <2>2. \A i \in released : stepCommands[i].receipt # None
    <3> SUFFICES ASSUME NEW i \in released, i \in uncertain PROVE FALSE
      BY Zenon
    <3>1. i[2] \in Nat
      BY RunnerConstants DEF Identities
    <3>2. i[2] < i[2]
      BY Zenon
    <3> QED BY <3>1, <3>2
  <2> HIDE DEF released
  <2> HIDE DEF due, uncertain
  <2> QED BY Zenon, <1>1, <2>1, <2>2 DEF CommandTypes
<1>4. CommandTypes'
  BY Zenon, <1>1, <1>2, <1>3 DEF CommandTypes
<1>5. StepsRunOnceInOrder' /\ NextIsLast' /\ OneReceiptPerCommand' /\ Flying'
  BY <1>1, <1>2 DEF StepsRunOnceInOrder, NextIsLast, Before, OneReceiptPerCommand, Flying
<1>6. \A i : (Ran(i)' <=> Ran(i)) /\ (Answered(i)' <=> Answered(i))
  BY Zenon, <1>2 DEF Ran, Answered
<1>7. CacheAgrees'
  <2> SUFFICES ASSUME NEW i \in Identities, stepCommands'[i] # None
               PROVE  /\ Ran(i)'
                      /\ stepCommands'[i].receipt = None => ~Answered(i)'
                      /\ stepCommands'[i].receipt # None => <<i, stepCommands'[i].receipt>> \in answers'
    BY Zenon DEF CacheAgrees
  <2>1. stepCommands'[i] = stepCommands[i]
    BY Zenon, <1>3
  <2> QED BY Zenon, <1>1, <1>2, <1>6, <2>1 DEF CacheAgrees
<1>8. Uncertain'
  <2> SUFFICES ASSUME NEW n \in DOMAIN executed, ~Answered(executed[n])
               PROVE  /\ stepCommands'[executed[n]] # None /\ stepCommands'[executed[n]].receipt = None
                      /\ n = Len(executed)
                      /\ inFlight = executed[n] \/ (status \in Over /\ failureStatus # None)
    BY Zenon, <1>2 DEF Uncertain, Answered
  <2>1. executed[n] \in Identities
    BY <1>1 DEF CommandTypes
  <2>2. /\ stepCommands[executed[n]] # None /\ stepCommands[executed[n]].receipt = None /\ n = Len(executed)
        /\ inFlight = executed[n] \/ (status \in Over /\ failureStatus # None)
    BY Zenon, <1>1 DEF Uncertain
  <2>3. stepCommands'[executed[n]] = stepCommands[executed[n]]
    BY Zenon, <1>3, <2>1, <2>2
  <2> QED BY Zenon, <2>2, <2>3
<1> QED BY Zenon, <1>4, <1>5, <1>7, <1>8 DEF CommandInv

LEMMA CommandStep == LifeInv /\ CommandInv /\ [Next]_vars => CommandInv'
<1> SUFFICES ASSUME LifeInv, CommandInv, [Next]_vars PROVE CommandInv'
  BY Zenon
<1>1. LifeMoves
  BY Zenon, LifeStep
<1>2. ASSUME UNCHANGED <<commandEpoch, nextSequence, stepCommands, executed, answers, localTicks, inFlight>>
      PROVE  CommandInv'
  BY Zenon, <1>1, <1>2, CommandsUnchanged
<1>3. CASE UNCHANGED vars \/ WallExpires \/ BeginTest \/ ResetFails \/ Quiesce \/ QuiesceEnds
  BY Zenon, <1>2, <1>3 DEF vars, commandVars, WallExpires, BeginTest, ResetFails, Quiesce, QuiesceEnds
<1>4. ASSUME NEW n \in DOMAIN Components, BeginFails(n) PROVE CommandInv'
  BY Zenon, <1>2, <1>4 DEF BeginFails, commandVars
<1>5. ASSUME NEW fails \in BOOLEAN, NEW meter \in {"fits", "full", "grew"}, Finalize(fails, meter)
      PROVE  CommandInv'
  BY Zenon, <1>2, <1>5 DEF Finalize, commandVars
<1>6. ASSUME NEW c \in Sessions, NEW value \in Payloads, InjectSource(c, value) PROVE CommandInv'
  BY Zenon, <1>2, <1>6 DEF InjectSource, commandVars
<1>7. ASSUME NEW i \in Identities, NEW c \in Sessions, NEW payload \in Payloads, AnswerKnown(i, c, payload)
      PROVE  CommandInv'
  <2>1. <<i, stepCommands[i].receipt>> \in answers
    BY Zenon, <1>7 DEF AnswerKnown, CommandInv, CacheAgrees
  <2>2. answers' = answers
    BY Zenon, <1>7, <2>1 DEF AnswerKnown
  <2> QED BY Zenon, <1>2, <1>7, <2>2 DEF AnswerKnown
<1>8. ASSUME NEW i \in Identities, NEW c \in Sessions, NEW payload \in Payloads, StartStep(i, c, payload)
      PROVE  CommandInv'
  BY Zenon, <1>1, <1>8, StartKeeps
<1>9. CASE StepReturns
  BY Zenon, <1>9, ReturnKeeps
<1>10. ASSUME NEW timedOut \in BOOLEAN, StepFails(timedOut) \/ StepRejected(timedOut) PROVE CommandInv'
  BY Zenon, <1>10, FailKeeps
<1>11. ASSUME NEW e \in 0..MaxEpoch, NEW n \in 0..MaxSequence, Retire(e, n) PROVE CommandInv'
  BY Zenon, <1>11, RetireKeeps
<1>12. CASE ResetAll
  <2>1. \/ commandEpoch' = commandEpoch /\ nextSequence' = nextSequence
        \/ commandEpoch' = commandEpoch + 1 /\ nextSequence' = 1
    BY Zenon, <1>12 DEF ResetAll, NewEpoch
  <2> QED BY Zenon, <1>1, <1>12, <2>1, CommandsUnchanged DEF ResetAll
<1> QED BY Zenon, <1>3, <1>4, <1>5, <1>6, <1>7, <1>8, <1>9, <1>10, <1>11, <1>12 DEF Next

LEMMA CommandInit == Init => CommandInv
<1> SUFFICES ASSUME Init PROVE CommandInv
  BY Zenon
<1>1. /\ executed = <<>> /\ answers = {} /\ inFlight = None /\ stepCommands = [i \in Identities |-> None]
      /\ commandEpoch = 0 /\ nextSequence = 1 /\ localTicks = [c \in Sessions |-> 0]
  BY Zenon DEF Init
<1>2. executed \in Seq(Identities) /\ DOMAIN executed = {}
  BY <1>1
<1>3. CommandTypes
  BY <1>1, <1>2 DEF CommandTypes
<1>4. StepsRunOnceInOrder /\ NextIsLast /\ Uncertain
  BY Zenon, <1>2 DEF StepsRunOnceInOrder, NextIsLast, Uncertain
<1>5. OneReceiptPerCommand /\ CacheAgrees /\ Flying
  BY Zenon, <1>1 DEF OneReceiptPerCommand, CacheAgrees, Flying
<1> QED BY Zenon, <1>3, <1>4, <1>5 DEF CommandInv

\* ScenarioRunner.finalize, and the budgets: a test that is over has no session running,
\* and until then has at most the marker of the wall clock too many records.
THEOREM RunnerIsContained == Spec => []TestsAreContained
<1>1. LifeInv => TestsAreContained
  <2> SUFFICES ASSUME LifeInv PROVE TestsAreContained
    BY Zenon
  <2>1. SessionsEnded
    BY Zenon DEF LifeInv, SessionsEnded
  <2>2. RecordsWithinBudget
    BY RunnerConstants DEF LifeInv, RecordsWithinBudget, Statuses, Over
  <2> QED BY Zenon, <2>1, <2>2 DEF TestsAreContained
<1> QED BY <1>1, LifeInit, LifeStep, PTL DEF Spec

\* ScenarioRunner.execute_step: whatever commands are repeated, delayed, retired or cut off by
\* resets and failures, each runs at most once and in order, is answered with one receipt,
\* and is remembered and reported when its outcome is unknown.
THEOREM RunnerRunsOnce == Spec => []CommandsRunOnce
<1>1. LifeInv /\ CommandInv => CommandsRunOnce
  <2> SUFFICES ASSUME LifeInv, CommandInv PROVE UncertainIsRemembered
    BY Zenon DEF CommandInv, CommandsRunOnce
  <2> SUFFICES ASSUME NEW n \in DOMAIN executed, ~Answered(executed[n])
               PROVE  /\ stepCommands[executed[n]] # None /\ stepCommands[executed[n]].receipt = None
                      /\ n = Len(executed)
                      /\ inFlight = executed[n] \/ status \in {"failed", "finalized"}
                      /\ status = "finalized" => failureStatus # None
    BY Zenon DEF UncertainIsRemembered
  <2>1. /\ stepCommands[executed[n]] # None /\ stepCommands[executed[n]].receipt = None
        /\ n = Len(executed)
        /\ inFlight = executed[n] \/ (status \in Over /\ failureStatus # None)
    BY Zenon DEF CommandInv, Uncertain
  <2>2. executed[n] # None
    <3>1. executed[n] \in Identities
      BY DEF CommandInv, CommandTypes
    <3> QED BY Zenon, <3>1, RunnerConstants
  <2>3. inFlight = executed[n] => status # "finalized"
    BY Zenon, <2>2 DEF LifeInv
  <2> QED BY Zenon, <2>1, <2>3 DEF Over
<1>2. LifeInv /\ CommandInv /\ [Next]_vars => LifeInv' /\ CommandInv'
  BY Zenon, LifeStep, CommandStep
<1> QED BY <1>1, <1>2, LifeInit, CommandInit, PTL DEF Spec

-----------------------------------------------------------------------------
(***************************************************************************)
(* What the CPU sees of the pulses, for any group of sources, any width    *)
(* and any order of samples, CPU ticks and resets.                         *)
(*                                                                         *)
(* The properties speak of a pulse that is over, or that is credited. They *)
(* become inductive with the running account of a pulse that is not over   *)
(* (Account), with the agreement of the two memories of a source's level,  *)
(* the policy's and the group's (LevelsAgree), and with the line that is   *)
(* high only for the pulse that is pending (LineIsThePulse).               *)
(***************************************************************************)

Verdicts == {"pulse_expired", "expired_masked"}

Types ==
  /\ sourceLevel \in [Pulsed -> {0, 1, Unknown}]
  /\ left \in [Pulsed -> 0..(Width + 1)]
  /\ allMasked \in [Pulsed -> BOOLEAN]
  /\ maskedTicks \in [Pulsed -> Nat]
  /\ DOMAIN pulseStatus = Pulsed /\ DOMAIN verdict = Pulsed
  /\ samples \in [Sources -> {0, 1, Unknown}]
  /\ DOMAIN origin = Sources
  /\ eventId \in [Pulsed -> Nat]
  /\ DOMAIN line = Pulsed
  /\ seen \in [Pulsed -> Seq(BOOLEAN)]

AllSeen(s) == \A i \in 1..Len(seen[s]) : seen[s][i]

\* The counters of a pending pulse are a summary of what the CPU saw of it.
Account(s) == left[s] > 0 =>
  /\ Len(seen[s]) = Width + 1 - left[s]
  /\ allMasked[s] <=> AllSeen(s)
  /\ allMasked[s] => maskedTicks[s] = Len(seen[s])
Ended(s) == left[s] = 0 /\ verdict[s] \in Verdicts =>
  /\ Len(seen[s]) = Width
  /\ verdict[s] = "expired_masked" <=> AllSeen(s)
LevelAgrees(s) == sourceLevel[s] = IF samples[s] = Unknown THEN Baseline(s) ELSE samples[s]
LineIsThePulse(s) == ~PulseFailed /\ line[s] # Unknown => left[s] > 0 /\ line[s] = eventId[s]
OriginIsThePulse(s) == ~PulseFailed /\ left[s] > 0 => origin[s] = eventId[s]

IrqInv ==
  /\ Types
  /\ \A s \in Pulsed : /\ Account(s) /\ Ended(s) /\ LevelAgrees(s)
                       /\ LineIsThePulse(s) /\ OriginIsThePulse(s)
  /\ OneSourcePerTake

\* What a sample of a pulsed source does to the policy and to the group, in the four
\* cases of ObserveSource.
LEMMA ObserveKeeps ==
  ASSUME IrqInv, NEW s \in Sources, NEW level \in {0, 1}, Observe(s, level)
  PROVE  IrqInv'
<1>1. Types /\ OneSourcePerTake /\ line' = line /\ levels' = levels /\ credited' = credited
  BY Zenon DEF IrqInv, Observe
<1>2. OneSourcePerTake'
  BY Zenon, <1>1 DEF OneSourcePerTake
<1>3. /\ samples' = [samples EXCEPT ![s] = level]
      /\ DOMAIN origin' = Sources
      /\ \A t \in Sources \ {s} : origin'[t] = origin[t]
  BY Zenon, <1>1 DEF Observe, GroupObserve, Types
<1>4. CASE s \notin Pulsed
  <2>1. /\ sourceLevel' = sourceLevel /\ left' = left /\ allMasked' = allMasked /\ maskedTicks' = maskedTicks
        /\ eventId' = eventId /\ pulseStatus' = pulseStatus /\ seen' = seen /\ verdict' = verdict
    BY Zenon, <1>4 DEF Observe, pulseVars
  <2>2. Types'
    BY Zenon, <1>1, <1>3, <2>1 DEF Types
  <2>3. \A t \in Pulsed : samples'[t] = samples[t] /\ origin'[t] = origin[t]
    BY Zenon, <1>1, <1>3, <1>4 DEF Types, Sources
  <2>4. ASSUME NEW t \in Pulsed
        PROVE  (Account(t) /\ Ended(t) /\ LevelAgrees(t) /\ LineIsThePulse(t) /\ OriginIsThePulse(t))'
    <3>1. Account(t) /\ Ended(t) /\ LevelAgrees(t) /\ LineIsThePulse(t) /\ OriginIsThePulse(t)
      BY Zenon DEF IrqInv
    <3> QED BY Zenon, <1>1, <2>1, <2>3, <3>1
         DEF Account, Ended, AllSeen, LevelAgrees, LineIsThePulse, OriginIsThePulse, PulseFailed, Baseline
  <2> QED BY Zenon, <1>2, <2>2, <2>4 DEF IrqInv
<1>5. CASE s \in Pulsed
  <2>1. ObserveSource(s, level) /\ GroupObserve(s, level, eventId'[s])
    BY Zenon, <1>5 DEF Observe
  <2>2. Account(s) /\ Ended(s) /\ LevelAgrees(s) /\ LineIsThePulse(s) /\ OriginIsThePulse(s)
    BY Zenon, <1>5 DEF IrqInv
  <2>3. sourceLevel' = [sourceLevel EXCEPT ![s] = level]
    BY Zenon, <2>1 DEF ObserveSource
  <2>4. Types'
    <3>1. NextEvent(s) \in Nat
      BY <1>1, <1>5, IrqConstants DEF NextEvent, Types
    <3>2. <<>> \in Seq(BOOLEAN)
      OBVIOUS
    <3>3. eventId' \in [Pulsed -> Nat]
      <4>1. eventId' = eventId \/ eventId' = [eventId EXCEPT ![s] = NextEvent(s)]
        BY Zenon, <2>1 DEF ObserveSource
      <4>2. eventId \in [Pulsed -> Nat]
        BY Zenon, <1>1 DEF Types
      <4> QED BY Zenon, <1>5, <3>1, <4>1, <4>2
    <3>4. left' \in [Pulsed -> 0..(Width + 1)]
      BY <1>1, <1>5, <2>1, IrqConstants DEF ObserveSource, StartPulse, Overrun, Types
    <3>5. /\ allMasked' \in [Pulsed -> BOOLEAN] /\ maskedTicks' \in [Pulsed -> Nat]
          /\ seen' \in [Pulsed -> Seq(BOOLEAN)]
      <4>1. CASE StartPulse(s)
        <5>1. seen' = [seen EXCEPT ![s] = <<>>] /\ seen \in [Pulsed -> Seq(BOOLEAN)]
          BY Zenon, <1>1, <4>1 DEF StartPulse, Types
        <5>2. seen' \in [Pulsed -> Seq(BOOLEAN)]
          BY Zenon, <1>5, <3>2, <5>1, Zenon
        <5> QED BY Zenon, <1>1, <4>1, <5>2 DEF StartPulse, Types
      <4>2. CASE allMasked' = allMasked /\ maskedTicks' = maskedTicks /\ seen' = seen
        BY Zenon, <1>1, <4>2 DEF Types
      <4> QED BY Zenon, <2>1, <4>1, <4>2 DEF ObserveSource, Overrun
    <3>6. DOMAIN pulseStatus' = Pulsed /\ DOMAIN verdict' = Pulsed
      BY Zenon, <1>1, <1>5, <2>1 DEF ObserveSource, StartPulse, Overrun, Types
    <3> QED BY Zenon, <1>1, <1>3, <1>5, <2>3, <3>3, <3>4, <3>5, <3>6 DEF Types
  <2>5. /\ \A t \in Pulsed \ {s} :
             /\ sourceLevel'[t] = sourceLevel[t] /\ left'[t] = left[t] /\ allMasked'[t] = allMasked[t]
             /\ maskedTicks'[t] = maskedTicks[t] /\ eventId'[t] = eventId[t] /\ seen'[t] = seen[t]
             /\ verdict'[t] = verdict[t] /\ samples'[t] = samples[t] /\ origin'[t] = origin[t]
        /\ PulseFailed => PulseFailed'
    <3>1. \A t \in Pulsed \ {s} : samples'[t] = samples[t] /\ origin'[t] = origin[t] /\ sourceLevel'[t] = sourceLevel[t]
      BY Zenon, <1>1, <1>3, <2>3 DEF Types, Sources
    <3>2. \A t \in Pulsed \ {s} :
             /\ left'[t] = left[t] /\ allMasked'[t] = allMasked[t]
             /\ maskedTicks'[t] = maskedTicks[t] /\ eventId'[t] = eventId[t] /\ seen'[t] = seen[t]
             /\ verdict'[t] = verdict[t]
      BY ZenonT(60), <1>1, <2>1 DEF ObserveSource, StartPulse, Overrun, Types
    <3>3. PulseFailed => PulseFailed'
      BY Zenon, <1>1, <1>5, <2>1 DEF ObserveSource, StartPulse, Overrun, Types, PulseFailed
    <3> QED BY Zenon, <3>1, <3>2, <3>3
  <2>6. ASSUME NEW t \in Pulsed \ {s}
        PROVE  (Account(t) /\ Ended(t) /\ LevelAgrees(t) /\ LineIsThePulse(t) /\ OriginIsThePulse(t))'
    <3>1. Account(t) /\ Ended(t) /\ LevelAgrees(t) /\ LineIsThePulse(t) /\ OriginIsThePulse(t)
      BY Zenon DEF IrqInv
    <3> QED BY Zenon, <1>1, <2>5, <3>1
         DEF Account, Ended, AllSeen, LevelAgrees, LineIsThePulse, OriginIsThePulse, Baseline
  <2>7. LevelAgrees(s)'
    BY <1>1, <1>3, <1>5, <2>3, IrqConstants DEF LevelAgrees, Types, Sources
  <2>8. CASE ~RisingEdge(s, level)
    <3>1. /\ eventId' = eventId /\ left' = left /\ allMasked' = allMasked /\ maskedTicks' = maskedTicks
          /\ seen' = seen /\ pulseStatus' = pulseStatus /\ verdict' = verdict
      BY Zenon, <2>1, <2>8 DEF ObserveSource
    <3>2. origin'[s] = origin[s] \/ origin'[s] = eventId'[s]
      BY Zenon, <1>1, <2>1 DEF GroupObserve, Types, Sources
    <3>3. (Account(s) /\ Ended(s) /\ LineIsThePulse(s) /\ OriginIsThePulse(s))'
      BY Zenon, <1>1, <2>2, <3>1, <3>2 DEF Account, Ended, AllSeen, LineIsThePulse, OriginIsThePulse, PulseFailed
    <3> QED BY Zenon, <1>2, <2>4, <2>6, <2>7, <3>3 DEF IrqInv
  <2>9. CASE RisingEdge(s, level) /\ left[s] > 0
    <3>1. Overrun(s) /\ eventId' = [eventId EXCEPT ![s] = NextEvent(s)]
      BY Zenon, <2>1, <2>9 DEF ObserveSource
    <3>2. PulseFailed'
      BY Zenon, <1>1, <1>5, <3>1 DEF Overrun, PulseFailed, Types
    <3>3. Account(s)' /\ Ended(s)'
      BY Zenon, <1>1, <1>5, <2>2, <2>9, <3>1 DEF Overrun, Account, Ended, AllSeen, Verdicts, Types
    <3>4. LineIsThePulse(s)' /\ OriginIsThePulse(s)'
      BY Zenon, <3>2 DEF LineIsThePulse, OriginIsThePulse
    <3> QED BY Zenon, <1>2, <2>4, <2>6, <2>7, <3>3, <3>4 DEF IrqInv
  <2>10. CASE RisingEdge(s, level) /\ left[s] = 0 /\ pulseStatus[s] = "active"
    <3>1. StartPulse(s)
      BY <2>1, <2>10 DEF ObserveSource
    <3>2. /\ left'[s] = Width + 1 /\ allMasked'[s] = TRUE /\ maskedTicks'[s] = 0 /\ seen'[s] = <<>>
          /\ pulseStatus' = pulseStatus /\ Width \in Nat
      BY Zenon, <1>1, <1>5, <3>1, IrqConstants DEF StartPulse, Types
    <3>3. Account(s)' /\ Ended(s)'
      BY <3>2 DEF Account, Ended, AllSeen
    <3>4. origin'[s] = eventId'[s]
      <4>1. level = 1 /\ samples[s] # 1
        BY <1>1, <1>5, <2>2, <2>10, IrqConstants DEF RisingEdge, LevelAgrees, Types, Sources
      <4> QED BY Zenon, <1>1, <2>1, <4>1 DEF GroupObserve, Types, Sources
    <3>5. LineIsThePulse(s)' /\ OriginIsThePulse(s)'
      BY <1>1, <2>2, <2>10, <3>2, <3>4 DEF LineIsThePulse, OriginIsThePulse, PulseFailed
    <3> QED BY Zenon, <1>2, <2>4, <2>6, <2>7, <3>3, <3>5 DEF IrqInv
  <2>11. CASE RisingEdge(s, level) /\ left[s] = 0 /\ pulseStatus[s] # "active"
    <3>1. /\ left' = left /\ allMasked' = allMasked /\ maskedTicks' = maskedTicks
          /\ seen' = seen /\ pulseStatus' = pulseStatus /\ verdict' = verdict
      BY <2>1, <2>11 DEF ObserveSource
    <3>2. PulseFailed'
      BY Zenon, <1>5, <2>11, <3>1 DEF PulseFailed
    <3>3. Account(s)' /\ Ended(s)'
      BY Zenon, <2>2, <3>1 DEF Account, Ended, AllSeen
    <3>4. LineIsThePulse(s)' /\ OriginIsThePulse(s)'
      BY Zenon, <3>2 DEF LineIsThePulse, OriginIsThePulse
    <3> QED BY Zenon, <1>2, <2>4, <2>6, <2>7, <3>3, <3>4 DEF IrqInv
  <2>12. left[s] = 0 \/ left[s] > 0
    BY <1>1, <1>5, IrqConstants DEF Types
  <2> QED BY Zenon, <2>8, <2>9, <2>10, <2>11, <2>12
<1> QED BY Zenon, <1>4, <1>5

\* A tick at which the CPU sees the pulse of s: one more entry of the account.
LEMMA TickSeen ==
  ASSUME IrqInv, NEW masked \in {TRUE, FALSE, Unknown}, SampleCpu(masked),
         NEW s \in Pulsed, InputNext(s)
  PROVE  Account(s)' /\ Ended(s)'
<1>1. Types /\ Account(s) /\ left[s] \in 2..(Width + 1) /\ Width \in Nat
  BY Zenon, IrqConstants DEF IrqInv, InputNext
<1> DEFINE m == (masked = TRUE)
<1>2. /\ left'[s] = left[s] - 1
      /\ maskedTicks'[s] = IF m THEN maskedTicks[s] + 1 ELSE maskedTicks[s]
      /\ allMasked'[s] = IF ~m THEN FALSE ELSE allMasked[s]
      /\ seen'[s] = Append(seen[s], m)
  <2>1. left'[s] = IF left[s] > 0 THEN left[s] - 1 ELSE 0
    BY Zenon DEF SampleCpu
  <2>2. left[s] > 0
    BY <1>1
  <2>3. maskedTicks'[s] = IF m THEN maskedTicks[s] + 1 ELSE maskedTicks[s]
    BY Zenon DEF SampleCpu
  <2>4. allMasked'[s] = IF ~m THEN FALSE ELSE allMasked[s]
    BY Zenon DEF SampleCpu
  <2>5. seen'[s] = Append(seen[s], m)
    BY Zenon DEF SampleCpu
  <2> HIDE DEF m
  <2> QED BY Zenon, <2>1, <2>2, <2>3, <2>4, <2>5
<1>3. m \in BOOLEAN /\ seen[s] \in Seq(BOOLEAN) /\ maskedTicks[s] \in Nat /\ allMasked[s] \in BOOLEAN
  BY Zenon, <1>1 DEF Types
<1> HIDE DEF m
<1>4. Len(seen'[s]) = Len(seen[s]) + 1 /\ Len(seen[s]) \in Nat
  BY <1>2, <1>3
<1>5. /\ \A i \in 1..Len(seen[s]) : seen'[s][i] = seen[s][i]
      /\ seen'[s][Len(seen[s]) + 1] = m
  BY <1>2, <1>3
<1>6. /\ Len(seen[s]) = Width + 1 - left[s]
      /\ allMasked[s] <=> AllSeen(s)
      /\ allMasked[s] => maskedTicks[s] = Len(seen[s])
  BY <1>1 DEF Account
<1>7. AllSeen(s)' <=> AllSeen(s) /\ m
  <2>1. 1..Len(seen'[s]) = (1..Len(seen[s])) \cup {Len(seen[s]) + 1}
    BY <1>4
  <2> QED BY Zenon, <1>5, <2>1, Zenon DEF AllSeen
<1>8. allMasked'[s] <=> AllSeen(s)'
  BY Zenon, <1>2, <1>6, <1>7
<1>9. Len(seen'[s]) = Width + 1 - left'[s] /\ left'[s] > 0
  BY <1>1, <1>2, <1>4, <1>6
<1>10. allMasked'[s] => maskedTicks'[s] = Len(seen'[s])
  BY Zenon, <1>2, <1>3, <1>4, <1>6
<1> QED BY <1>8, <1>9, <1>10 DEF Account, Ended

\* A tick at which it does not: the pulse ends, has just been rejected, or there is none.
LEMMA TickUnseen ==
  ASSUME IrqInv, NEW masked \in {TRUE, FALSE, Unknown}, SampleCpu(masked),
         NEW s \in Pulsed, ~InputNext(s)
  PROVE  Account(s)' /\ Ended(s)' /\ left'[s] = 0
<1>1. Types /\ Account(s) /\ Ended(s) /\ left[s] \in {0, 1} /\ Width \in Nat \ {0}
  BY IrqConstants DEF IrqInv, InputNext, Types
<1>2. left'[s] = 0 /\ seen'[s] = seen[s]
  BY <1>1 DEF SampleCpu
<1>3. Account(s)'
  BY <1>2 DEF Account
<1>4. CASE left[s] = 0
  <2>1. verdict'[s] = verdict[s]
    BY <1>4 DEF SampleCpu
  <2> QED BY Zenon, <1>1, <1>2, <1>3, <1>4, <2>1 DEF Ended, AllSeen
<1>5. CASE left[s] = 1
  <2>1. verdict'[s] = IF FullyMasked(s) THEN "expired_masked" ELSE "pulse_expired"
    BY Zenon, <1>5 DEF SampleCpu
  <2>2. /\ Len(seen[s]) = Width /\ (allMasked[s] <=> AllSeen(s))
        /\ allMasked[s] => maskedTicks[s] = Width
    BY <1>1, <1>5 DEF Account
  <2>3. FullyMasked(s) <=> AllSeen(s)
    BY Zenon, <2>2 DEF FullyMasked
  <2>4. AllSeen(s)' <=> AllSeen(s)
    BY Zenon, <1>2 DEF AllSeen
  <2>5. Len(seen'[s]) = Width /\ (verdict'[s] = "expired_masked" <=> AllSeen(s)')
    BY Zenon, <1>2, <2>1, <2>2, <2>3, <2>4
  <2> QED BY Zenon, <1>2, <1>3, <2>5 DEF Ended
<1> QED BY Zenon, <1>1, <1>4, <1>5

INSTANCE FiniteSetTheorems

LEMMA CpuStepKeeps ==
  ASSUME IrqInv, NEW masked \in {TRUE, FALSE, Unknown}, NEW taken \in BOOLEAN, CpuStep(masked, taken)
  PROVE  IrqInv'
<1>1. Types /\ SampleCpu(masked) /\ ~PulseFailed
  BY Zenon DEF IrqInv, CpuStep
<1>2. /\ sourceLevel' = sourceLevel /\ eventId' = eventId /\ pulseStatus' = pulseStatus
      /\ samples' = samples /\ origin' = origin
  BY Zenon DEF CpuStep, groupVars
<1>3. Types'
  <2>1. left' \in [Pulsed -> 0..(Width + 1)] /\ maskedTicks' \in [Pulsed -> Nat]
    BY <1>1, IrqConstants DEF SampleCpu, Types
  <2>2. allMasked' \in [Pulsed -> BOOLEAN] /\ DOMAIN verdict' = Pulsed /\ DOMAIN line' = Pulsed
    BY Zenon, <1>1 DEF SampleCpu, Types
  <2>3. seen' \in [Pulsed -> Seq(BOOLEAN)]
    <3>1. \A s \in Pulsed : Append(seen[s], masked = TRUE) \in Seq(BOOLEAN) /\ seen[s] \in Seq(BOOLEAN)
      BY <1>1 DEF Types
    <3> QED BY Zenon, <1>1, <3>1 DEF SampleCpu
  <2> QED BY Zenon, <1>1, <1>2, <2>1, <2>2, <2>3 DEF Types
<1>4. \A s \in Pulsed : line'[s] = IF InputNext(s) THEN eventId[s] ELSE Unknown
  BY Zenon, <1>1 DEF SampleCpu
<1>5. ASSUME NEW s \in Pulsed
      PROVE  (Account(s) /\ Ended(s) /\ LevelAgrees(s) /\ LineIsThePulse(s) /\ OriginIsThePulse(s))'
  <2>1. LevelAgrees(s) /\ OriginIsThePulse(s)
    BY Zenon DEF IrqInv
  <2>2. LevelAgrees(s)'
    BY Zenon, <1>2, <2>1 DEF LevelAgrees, Baseline
  <2>3. CASE InputNext(s)
    <3>1. Account(s)' /\ Ended(s)'
      BY Zenon, <1>1, <2>3, TickSeen
    <3>2. left[s] > 0 /\ left'[s] > 0
      BY <1>1, <2>3, IrqConstants DEF SampleCpu, InputNext
    <3>3. LineIsThePulse(s)' /\ OriginIsThePulse(s)'
      BY Zenon, <1>1, <1>2, <1>4, <2>1, <2>3, <3>2 DEF LineIsThePulse, OriginIsThePulse
    <3> QED BY Zenon, <2>2, <3>1, <3>3
  <2>4. CASE ~InputNext(s)
    <3>1. Account(s)' /\ Ended(s)' /\ left'[s] = 0
      BY Zenon, <1>1, <2>4, TickUnseen
    <3>2. LineIsThePulse(s)' /\ OriginIsThePulse(s)'
      BY <1>4, <2>4, <3>1 DEF LineIsThePulse, OriginIsThePulse
    <3> QED BY Zenon, <2>2, <3>1, <3>2
  <2> QED BY Zenon, <2>3, <2>4
<1>6. OneSourcePerTake'
  <2>1. credited' = {s \in Pulsed : InputNext(s) /\ taken /\ Active = {s}}
    BY Zenon DEF CpuStep
  <2>2. Cardinality(credited') <= 1
    <3>1. CASE credited' = {}
      <4>1. Cardinality(credited') = 0
        BY Zenon, <3>1, FS_EmptySet
      <4> QED BY <4>1
    <3>2. CASE credited' # {}
      <4>1. PICK s : credited' = {s}
        BY Zenon, <2>1, <3>2
      <4>2. Cardinality(credited') = 1
        BY Zenon, <4>1, FS_Singleton
      <4> QED BY <4>2
    <3> QED BY Zenon, <3>1, <3>2
  <2>3. ASSUME NEW s \in credited'
        PROVE  line'[s] # Unknown /\ levels' = {} /\ \A t \in Pulsed \ {s} : line'[t] = Unknown
    <3>1. s \in Pulsed /\ InputNext(s) /\ Active = {s}
      BY Zenon, <2>1
    <3>2. \A t \in Pulsed \ {s} : ~InputNext(t)
      BY Zenon, <3>1 DEF Active
    <3>3. eventId[s] # Unknown
      BY <1>1, <3>1, IrqConstants DEF Types
    <3>4. levels' = {}
      <4>1. levels' = {t \in Held : samples[t] = 1} /\ s \notin Held
        BY Zenon, <3>1, IrqConstants DEF CpuStep
      <4> QED BY Zenon, <3>1, <4>1 DEF Active
    <3> QED BY Zenon, <1>4, <3>1, <3>2, <3>3, <3>4
  <2> QED BY Zenon, <2>2, <2>3 DEF OneSourcePerTake
<1> QED BY Zenon, <1>3, <1>5, <1>6 DEF IrqInv

\* A reset ends the pulses without a tick, and both memories of a level together.
LEMMA ResetKeeps ==
  ASSUME IrqInv, Reset
  PROVE  IrqInv'
<1>1. Types
  BY Zenon DEF IrqInv
<1>2. /\ sourceLevel' = [s \in Pulsed |-> Baseline(s)] /\ left' = [s \in Pulsed |-> 0]
      /\ samples' = [s \in Sources |-> Unknown] /\ line' = [s \in Pulsed |-> Unknown]
      /\ credited' = {} /\ seen' = seen
      /\ verdict' = [s \in Pulsed |-> IF left[s] > 0 THEN "cancelled" ELSE verdict[s]]
  BY Zenon DEF Reset
<1>3. Types'
  <2>1. 0 \in 0..(Width + 1)
    BY IrqConstants
  <2> QED BY Zenon, <1>1, <2>1 DEF Reset, Types, Baseline
<1>4. ASSUME NEW s \in Pulsed
      PROVE  (Account(s) /\ Ended(s) /\ LevelAgrees(s) /\ LineIsThePulse(s) /\ OriginIsThePulse(s))'
  <2>1. Ended(s) /\ left'[s] = 0 /\ line'[s] = Unknown
    BY Zenon, <1>2 DEF IrqInv
  <2>2. left[s] = 0 \/ left[s] > 0
    BY <1>1, IrqConstants DEF Types
  <2>3. Ended(s)'
    BY Zenon, <1>2, <2>1, <2>2 DEF Ended, AllSeen, Verdicts
  <2>4. LevelAgrees(s)'
    BY Zenon, <1>2 DEF LevelAgrees, Baseline, Sources
  <2> QED BY <2>1, <2>3, <2>4 DEF Account, LineIsThePulse, OriginIsThePulse
<1>5. OneSourcePerTake'
  <2>1. Cardinality(credited') = 0
    BY Zenon, <1>2, FS_EmptySet
  <2> QED BY <1>2, <2>1 DEF OneSourcePerTake
<1> QED BY Zenon, <1>3, <1>4, <1>5 DEF IrqInv

LEMMA IrqInvInit == IrqInit => IrqInv
<1> SUFFICES ASSUME IrqInit PROVE IrqInv
  BY Zenon
<1>1. Types
  <2>1. 0 \in 0..(Width + 1) /\ <<>> \in Seq(BOOLEAN)
    BY IrqConstants
  <2> QED BY Zenon, <2>1 DEF IrqInit, Types, Baseline
<1>2. \A s \in Pulsed : /\ Account(s) /\ Ended(s) /\ LevelAgrees(s)
                        /\ LineIsThePulse(s) /\ OriginIsThePulse(s)
  BY IrqConstants
     DEF IrqInit, Account, Ended, LevelAgrees, LineIsThePulse, OriginIsThePulse, Baseline, Sources, Verdicts
<1>3. OneSourcePerTake
  <2>1. Cardinality(credited) = 0
    BY Zenon, FS_EmptySet DEF IrqInit
  <2> QED BY <2>1 DEF IrqInit, OneSourcePerTake
<1> QED BY Zenon, <1>1, <1>2, <1>3 DEF IrqInv

LEMMA IrqStep == IrqInv /\ [IrqNext]_irqVars => IrqInv'
<1> SUFFICES ASSUME IrqInv, [IrqNext]_irqVars PROVE IrqInv'
  BY Zenon
<1>1. CASE UNCHANGED irqVars
  BY ZenonT(60), <1>1 DEF irqVars, pulseVars, groupVars, history, IrqInv, Types, Account, Ended, AllSeen,
              LevelAgrees, Baseline, LineIsThePulse, OriginIsThePulse, PulseFailed, OneSourcePerTake
<1>2. ASSUME NEW s \in Sources, NEW level \in {0, 1}, Observe(s, level) PROVE IrqInv'
  BY Zenon, <1>2, ObserveKeeps
<1>3. ASSUME NEW masked \in {TRUE, FALSE, Unknown}, NEW taken \in BOOLEAN, CpuStep(masked, taken) PROVE IrqInv'
  BY Zenon, <1>3, CpuStepKeeps
<1>4. CASE Reset
  BY Zenon, <1>4, ResetKeeps
<1> QED BY Zenon, <1>1, <1>2, <1>3, <1>4 DEF IrqNext

LEMMA IrqInvHolds == IrqSpec => []IrqInv
BY IrqInvInit, IrqStep, PTL DEF IrqSpec

\* IrqPulsePolicy: whatever the sources do between the CPU's ticks, a pulse that expired
\* was on the CPU's input for exactly pulse_width_ticks ticks, and is called masked just
\* when the CPU reported its mask at all of them.
THEOREM PulsesAreAsSeen == IrqSpec => []PulseAsSeen
<1>1. IrqInv => PulseAsSeen
  BY Zenon DEF IrqInv, Account, Ended, AllSeen, Verdicts, PulseAsSeen, PulseWidthExact, MaskedVerdict
<1> QED BY <1>1, IrqInvHolds, PTL

\* IrqDeliveryGroupState: the reference the group has for a pending pulse is the sample
\* whose edge started that pulse, and a take is credited only to a pulsed member that drove
\* the line while no other member, pulsed or held, did.
THEOREM TakesHaveOneOrigin == IrqSpec => []TakesAreAttributed
<1>1. IrqInv => TakesAreAttributed
  BY Zenon DEF IrqInv, OriginIsThePulse, TakesAreAttributed, OriginIsThisPulse
<1> QED BY <1>1, IrqInvHolds, PTL

\* IrqPulsePolicy.observe_source: a second edge never replaces or extends a pulse, so the
\* line goes low before it goes high for another event of the source.
THEOREM PulsesAreSeparate == IrqSpec => PulsesSeparate
<1>1. IrqInv /\ [IrqNext]_irqVars =>
        [\A s \in Pulsed : line[s] # Unknown /\ line'[s] # Unknown => line'[s] = line[s]]_irqVars
  <2> SUFFICES ASSUME IrqInv, IrqNext, NEW s \in Pulsed, line[s] # Unknown, line'[s] # Unknown
               PROVE  line'[s] = line[s]
    BY Zenon
  <2>1. CASE line' = line
    BY Zenon, <2>1
  <2>2. ASSUME NEW masked \in {TRUE, FALSE, Unknown}, NEW taken \in BOOLEAN, CpuStep(masked, taken)
        PROVE  line'[s] = line[s]
    <3>1. ~PulseFailed /\ LineIsThePulse(s)
      BY Zenon, <2>2 DEF CpuStep, IrqInv
    <3>2. line'[s] = IF InputNext(s) THEN eventId[s] ELSE Unknown
      BY Zenon, <2>2 DEF CpuStep, SampleCpu
    <3> QED BY Zenon, <3>1, <3>2 DEF LineIsThePulse
  <2>3. CASE Reset
    BY Zenon, <2>3 DEF Reset
  <2> QED BY ZenonT(30), <2>1, <2>2, <2>3 DEF IrqNext, Observe
<1> QED BY <1>1, IrqInvHolds, PTL DEF IrqSpec, PulsesSeparate
=============================================================================
