---------------------------- MODULE MCProcesses ----------------------------
(***************************************************************************)
(* The two places where the program drives a process of its own: the       *)
(* conversation with a fuzz host, and the supervisor of a heavy command.   *)
(* They never share a process; part is the one that runs.                  *)
(***************************************************************************)
EXTENDS FuzzSession

CONSTANT MaxProcs
ASSUME SomeProcess == MaxProcs \in Nat \ {0}

VARIABLES
  part,
  st, parent, group, doomed, pc, sweep, names, rows, tracked, targets, pending,
  adopts, interrupted, receipt, raised, gaveUp, listed

supervisorVars == <<st, parent, group, doomed, pc, sweep, names, rows, tracked, targets,
                    pending, adopts, interrupted, receipt, raised, gaveUp, listed>>
Supervisor == INSTANCE ProcessSupervisor WITH status <- receipt

MCVars == <<part, vars, supervisorVars>>

MCInit == part \in {"session", "supervisor"} /\ Init /\ Supervisor!Init
          /\ (part = "supervisor" => limited /\ obedient /\ ~error)
OfSession(A) == part = "session" /\ A /\ UNCHANGED <<part, supervisorVars>>
OfSupervisor(A) == part = "supervisor" /\ A /\ UNCHANGED <<part, vars>>
MCSpec ==
  /\ MCInit /\ [][OfSession(Next) \/ OfSupervisor(Supervisor!Next)]_MCVars
  /\ WF_MCVars(OfSession(Loop)) /\ WF_MCVars(OfSession(Reader)) /\ WF_MCVars(OfSession(Close))
  /\ WF_MCVars(OfSupervisor(Supervisor!Supervise))

\* A session with an obedient host ends, wherever the host dies, closes its output or falls
\* silent.
SessionEnds == part = "session" /\ obedient ~> phase = "done"

\* run_budgeted_process: a process of the command that still runs when the call ends was born
\* after /proc was listed for the last SIGKILL.
SurvivorsAreNewborn == Supervisor!SurvivorsAreNewborn

\* _stop_process_tree: once the watching ended the call ends, even if signals have no effect.
StopEnds == Supervisor!StopEnds
=============================================================================
