------------------------------ MODULE Records ------------------------------
(***************************************************************************)
(* Two more parts beside the publication that keep the record of what was  *)
(* run, the matrix of jobs with its checkpoints and the campaign with its  *)
(* report. They share no state with it or with each other.                 *)
(***************************************************************************)
EXTENDS ReportPublication, FiniteSets

CONSTANTS
  BuildJobs, FuzzJobs, Requires, Priority, MaxRetries,
  MaxCases, MaxRecords                     \* cases of a campaign, and their records

ASSUME MatrixConstants ==
  /\ MaxRetries \in Nat
  /\ IsFiniteSet(BuildJobs) /\ IsFiniteSet(FuzzJobs)
  /\ BuildJobs \cap FuzzJobs = {}
  /\ Requires \in [FuzzJobs -> BuildJobs] /\ Priority \in [FuzzJobs -> Nat]

VARIABLES
  retryLimit, fuzzOrder, builds, todo, retries, attempts, checkpoints, completedBuilds,
  samples, terminated, outcome,
  state, drifted, cases, lost, ledger, recorded, unread, terminal, report, finishes,
  submissions, released

Matrix == INSTANCE ExperimentMatrix
Campaign == INSTANCE CampaignRuntime
-----------------------------------------------------------------------------
\* _run_experiment_matrix: the report of a job holds the samples of its last attempt, and
\* lists exactly the jobs that used up their retries as terminated.
ReportIsAuthoritative == Matrix!ReportIsAuthoritative

\* _persist_checkpoint: every attempt that reached the memory limit has left its checkpoint,
\* in order, before the job is run again or the report is written.
CheckpointsComplete == Matrix!CheckpointsComplete

\* PersistentCampaignRuntime.submit: once the outcome of a submission is in doubt nothing
\* more is submitted, nothing is tried again, and the channel is drained at most once.
NothingIsRetried == Campaign!NothingIsRetried

\* _collect_pending_uncertain: a transaction that a failed submission left open is named in the
\* report of a finished or aborted run, unless its ledger cannot be read.
OpenKeysReported == Campaign!OpenKeysReported
=============================================================================
