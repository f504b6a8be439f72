-------------------------- MODULE ExperimentMatrix --------------------------
(***************************************************************************)
(* _run_experiment_matrix (integration/experiment_matrix.py): the planned  *)
(* builds, then the fuzz jobs in a shuffled order, then the retries of     *)
(* those that reached the memory limit.                                    *)
(*                                                                         *)
(* The runner is unconstrained: it may return the result of another job or *)
(* of an earlier attempt, of the wrong kind, or with samples that          *)
(* contradict it. samples[j] is the attempt whose samples stand for job j  *)
(* in the report.                                                          *)
(***************************************************************************)
EXTENDS Integers, Sequences, FiniteSets

CONSTANTS
  BuildJobs, FuzzJobs,
  Requires,       \* prerequisites: the build of each fuzz job
  Priority,       \* of each fuzz job
  MaxRetries      \* bound on execution.max_resource_retries

Jobs == BuildJobs \cup FuzzJobs

VARIABLES
  retryLimit,     \* execution.max_resource_retries
  fuzzOrder,      \* the shuffled jobs
  builds,         \* build jobs still to run
  todo,           \* fuzz jobs not run yet
  retries,        \* the jobs of retry_queue, which is sorted before each use
  attempts, checkpoints, completedBuilds, samples, terminated,
  outcome         \* "running", "written" or "raised"
vars == <<retryLimit, fuzzOrder, builds, todo, retries, attempts, checkpoints, completedBuilds, samples, terminated, outcome>>

\* The plan's builds, and its fuzz jobs shuffled.
Orders(S) == {s \in [1..Cardinality(S) -> S] : \A i, k \in DOMAIN s : s[i] = s[k] => i = k}
Init ==
  /\ retryLimit \in 0..MaxRetries
  /\ fuzzOrder \in Orders(FuzzJobs) /\ todo = fuzzOrder
  /\ builds \in Orders(BuildJobs)
  /\ retries = {}
  /\ attempts = [j \in Jobs |-> 0]
  /\ checkpoints = <<>> /\ completedBuilds = {}
  /\ samples = [j \in FuzzJobs |-> 0] /\ terminated = {}
  /\ outcome = "running"
-----------------------------------------------------------------------------
\* What a runner may return: own says that it is for this job, heavy that the limit was
\* reached, marked that the samples (if any) say so.
Results ==
  [kind : {"build", "fuzz", "event"}, own : BOOLEAN, attempt : 1..(MaxRetries + 1),
   heavy : BOOLEAN, sampled : BOOLEAN, marked : BOOLEAN]

\* Faulty form of Validated: the attempt of a fuzz result is not looked at.
ValidatedAnyAttempt(job, r, attempt) ==
  /\ r.own
  /\ CASE r.kind = "build" -> job \in BuildJobs /\ r.attempt = attempt
       [] r.kind = "fuzz" -> job \in FuzzJobs /\ ~r.heavy /\ r.sampled /\ ~r.marked
       [] r.kind = "event" ->
            r.attempt = attempt /\ r.heavy /\ (r.sampled => job \in FuzzJobs /\ r.marked)
\* _validated_result
Validated(job, r, attempt) ==
  /\ r.own /\ r.attempt = attempt
  /\ CASE r.kind = "build" -> job \in BuildJobs
       [] r.kind = "fuzz" -> job \in FuzzJobs /\ ~r.heavy /\ r.sampled /\ ~r.marked
       [] r.kind = "event" -> r.heavy /\ (r.sampled => job \in FuzzJobs /\ r.marked)

Raise ==
  /\ outcome' = "raised"
  /\ UNCHANGED <<retryLimit, fuzzOrder, builds, todo, retries, checkpoints, completedBuilds, samples, terminated>>
\* execute, and what becomes of a result that is refused or a checkpoint that cannot be kept.
Execute(job, r) ==
  /\ outcome = "running"
  /\ attempts' = [attempts EXCEPT ![job] = @ + 1]
Accepted(job, r) == Execute(job, r) /\ Validated(job, r, attempts'[job])
Refused(job, r) == Execute(job, r) /\ (~Validated(job, r, attempts'[job]) \/ r.kind = "event") /\ Raise
\* _persist_checkpoint
Persist(job) == checkpoints' = Append(checkpoints, [job |-> job, attempt |-> attempts'[job]])
Exhausted(job) == attempts'[job] > retryLimit

Build(r) ==
  LET job == Head(builds) IN
  /\ builds # <<>> /\ Accepted(job, r)
  /\ \/ /\ r.kind = "build"
        /\ completedBuilds' = completedBuilds \cup {job}
        /\ builds' = Tail(builds)
        /\ UNCHANGED <<checkpoints, outcome>>
     \/ /\ r.kind = "event"
        /\ Persist(job)
        /\ outcome' = IF Exhausted(job) THEN "raised" ELSE "running"
        /\ UNCHANGED <<completedBuilds, builds>>
  /\ UNCHANGED <<retryLimit, fuzzOrder, todo, retries, samples, terminated>>

TakeSamples(job, r) ==
  /\ samples' = [samples EXCEPT ![job] = r.attempt]
  /\ terminated' = IF r.kind = "event" THEN terminated \cup {job} ELSE terminated

\* Faulty form of AcceptFuzz: the checkpoint is kept only when the job is retried.
AcceptFuzzLate(job, r, queue) ==
  /\ Accepted(job, r)
  /\ \/ /\ r.kind = "fuzz"
        /\ TakeSamples(job, r)
        /\ retries' = queue
        /\ UNCHANGED <<checkpoints, outcome>>
     \/ /\ r.kind = "event" /\ ~Exhausted(job)
        /\ Persist(job) /\ retries' = queue \cup {job}
        /\ UNCHANGED <<samples, terminated, outcome>>
     \/ /\ r.kind = "event" /\ Exhausted(job)
        /\ UNCHANGED checkpoints /\ retries' = queue
        /\ IF r.sampled THEN TakeSamples(job, r) /\ UNCHANGED outcome
           ELSE outcome' = "raised" /\ UNCHANGED <<samples, terminated>>
\* accept_fuzz_result: the samples of a job that ran, a retry, or the last samples.
AcceptFuzz(job, r, queue) ==
  /\ Accepted(job, r)
  /\ \/ /\ r.kind = "fuzz"
        /\ TakeSamples(job, r)
        /\ retries' = queue
        /\ UNCHANGED <<checkpoints, outcome>>
     \/ /\ r.kind = "event" /\ ~Exhausted(job)
        /\ Persist(job) /\ retries' = queue \cup {job}
        /\ UNCHANGED <<samples, terminated, outcome>>
     \/ /\ r.kind = "event" /\ Exhausted(job)
        /\ Persist(job) /\ retries' = queue
        /\ IF r.sampled THEN TakeSamples(job, r) /\ UNCHANGED outcome
           ELSE outcome' = "raised" /\ UNCHANGED <<samples, terminated>>

\* (Every build has completed here: one that does not raises.)
Fuzz(r) ==
  /\ builds = <<>> /\ todo # <<>> /\ Requires[Head(todo)] \in completedBuilds
  /\ AcceptFuzz(Head(todo), r, retries)
  /\ todo' = Tail(todo)
  /\ UNCHANGED <<retryLimit, fuzzOrder, builds, completedBuilds>>

\* The key by which the retry queue is sorted: the priority, then the place in the shuffled
\* order.  It tells all jobs apart, and a job is queued once.
Place(job) == CHOOSE i \in DOMAIN fuzzOrder : fuzzOrder[i] = job
Before(a, b) == Priority[a] < Priority[b] \/ (Priority[a] = Priority[b] /\ Place(a) < Place(b))
FirstRetry(job) == job \in retries /\ \A other \in retries \ {job} : Before(job, other)
Retry(r) ==
  /\ builds = <<>> /\ todo = <<>>
  /\ \E job \in FuzzJobs : FirstRetry(job) /\ AcceptFuzz(job, r, retries \ {job})
  /\ UNCHANGED <<retryLimit, fuzzOrder, builds, todo, completedBuilds>>

IsNext(job) ==
  IF builds # <<>> THEN job = Head(builds)
  ELSE IF todo # <<>> THEN job = Head(todo) ELSE FirstRetry(job)
Refuse(r) == \E job \in Jobs : IsNext(job) /\ Refused(job, r)

WriteReport ==
  /\ outcome = "running" /\ builds = <<>> /\ todo = <<>> /\ retries = {}
  /\ outcome' = IF \E j \in FuzzJobs : samples[j] = 0 THEN "raised" ELSE "written"
  /\ UNCHANGED <<retryLimit, fuzzOrder, builds, todo, retries, attempts, checkpoints, completedBuilds, samples, terminated>>

Next == (\E r \in Results : Build(r) \/ Fuzz(r) \/ Retry(r) \/ Refuse(r)) \/ WriteReport
Spec == Init /\ [][Next]_vars
-----------------------------------------------------------------------------
\* The checkpoints of a job, by their places, and whether it has passed its last attempt.
Mine(j) == {i \in DOMAIN checkpoints : checkpoints[i].job = j}
Failures(j) == Cardinality(Mine(j))
Passed(j) == j \in completedBuilds \/ (j \in FuzzJobs /\ samples[j] > 0 /\ j \notin terminated)

\* The report of a job holds the samples of its last attempt: those of a run within the
\* memory limit, or, of a job that used up its retries, those of a run that was ended; the
\* job is then, and only then, listed as terminated.
ReportIsAuthoritative ==
  outcome = "written" => \A j \in FuzzJobs :
    /\ samples[j] = attempts[j]
    /\ IF j \in terminated THEN attempts[j] = retryLimit + 1 /\ Failures(j) = attempts[j]
       ELSE Failures(j) = attempts[j] - 1

\* Every attempt that reached the memory limit has left its checkpoint, in the order of the
\* attempts, before the job is run again or the report is written: the n-th checkpoint of a
\* job is that of its n-th attempt, and only the attempt that passed has none.
CheckpointsComplete ==
  outcome # "raised" => \A j \in Jobs :
    /\ Failures(j) = attempts[j] - (IF Passed(j) THEN 1 ELSE 0)
    /\ \A i \in Mine(j) : checkpoints[i].attempt = Cardinality({k \in Mine(j) : k <= i})
=============================================================================
