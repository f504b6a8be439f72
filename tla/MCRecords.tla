----------------------------- MODULE MCRecords -----------------------------
(***************************************************************************)
(* The parts that keep the record of what was run: the matrix of jobs with *)
(* its checkpoints, the publication of its report, the campaign with its   *)
(* report, and the event journal of a test.  No two of them share state;   *)
(* part is the one that moves, from any of its initial states.             *)
(***************************************************************************)
EXTENDS Records, TLC

CONSTANTS
  f1, f2,                                  \* files of the other program
  b1, b2, j1, j2, j3,                      \* two builds, three fuzz jobs
  ChunkSize, CacheSize, ChunkEvents, MaxRaw, Sizes, Readers, MaxEvents, Idle

MCFiles == {f1, f2}
MCBuildJobs == {b1, b2}
MCFuzzJobs == {j1, j2, j3}
MCRequires == (j1 :> b1) @@ (j2 :> b2) @@ (j3 :> b2)
MCPriority == (j1 :> 1) @@ (j2 :> 0) @@ (j3 :> 1)

VARIABLES
  part,
  log, spilled, current, cache, reader, blocks, inflated

matrixVars == <<retryLimit, fuzzOrder, builds, todo, retries, attempts, checkpoints,
                completedBuilds, samples, terminated, outcome>>
campaignVars == <<state, drifted, cases, lost, ledger, recorded, unread, terminal, report,
                  finishes, submissions, released>>
journalVars == <<log, spilled, current, cache, reader, blocks, inflated>>

Journal == INSTANCE EventJournal

MCInit ==
  /\ part \in {"publication", "matrix", "campaign", "journal"}
  /\ Init /\ Matrix!Init /\ Campaign!Init /\ Journal!Init
  /\ part # "publication" => pinned = Old
  /\ part # "matrix" => retryLimit = 0 /\ fuzzOrder = <<j1, j2, j3>> /\ builds = <<b1, b2>>

Publishing == part = "publication" /\ Next /\ UNCHANGED <<part, matrixVars, campaignVars, journalVars>>
RunningJobs == part = "matrix" /\ Matrix!Next /\ UNCHANGED <<part, vars, campaignVars, journalVars>>
Campaigning == part = "campaign" /\ Campaign!Next /\ UNCHANGED <<part, vars, matrixVars, journalVars>>
Journalling == part = "journal" /\ Journal!Next /\ UNCHANGED <<part, vars, matrixVars, campaignVars>>
MCSpec ==
  MCInit /\ [][Publishing \/ RunningJobs \/ Campaigning \/ Journalling]_<<part, vars, matrixVars, campaignVars, journalVars>>
-----------------------------------------------------------------------------
\* EventJournal: however chunks were spilled, cached and evicted, an index reads the event
\* appended there, and an iterator shows its snapshot but for whole chunks spilled meanwhile.
ReadsAreExact == Journal!ReadsAreExact

\* write_zlib_chunk_events and ZlibChunkEventView: the artifact is the log, in blocks its
\* reader accepts, and every index finds its event.
ArtifactIsLog == Journal!ArtifactIsLog
=============================================================================
