------------------------- MODULE ProcessSupervisor -------------------------
(***************************************************************************)
(* The supervisor of one heavy command (experiments/resource_policy.py).   *)
(* It starts the command in a session of its own, makes itself the reaper  *)
(* of orphans, looks at the tree of processes every 50 ms, and on every    *)
(* way out stops the tree: it lists /proc, signals what it found, first    *)
(* with SIGTERM and then with SIGKILL, waits for the command and collects  *)
(* the orphans it adopted.  All of this is done twice, before and after    *)
(* the output is gathered.                                                 *)
(*                                                                         *)
(* The processes of the command run beside it: they fork, leave the group, *)
(* exit, and collect their own children at any moment, between any two     *)
(* system calls of the supervisor.                                         *)
(*                                                                         *)
(* A process is named by its place in the order of births, which stands    *)
(* for its pid together with its birth ticks.  /proc is read in that order *)
(* (by pid, and pids are taken not to wrap around within one command).     *)
(***************************************************************************)
EXTENDS Integers, FiniteSets

CONSTANT
    MaxProcs            \* how many processes the command may ever have

Procs == 1..MaxProcs
Leader == 1             \* the command itself
Supervisor == 0
Host == MaxProcs + 1    \* the reaper of what is not adopted

VARIABLES
    st,             \* process -> "unborn", "live", "zombie" or "gone"
    parent,         \* process -> parent
    group,          \* processes of the group, and session, of the leader
    doomed,         \* processes a fatal signal is pending for
    pc,             \* the system call the supervisor is about to make
    sweep,          \* 0: watching; 1, 3: SIGTERM; 2, 4: SIGKILL
    names, rows,    \* a snapshot: the entries to read, and the rows read
    tracked,        \* every process seen so far
    targets,        \* processes still to signal
    pending,        \* processes still to collect
    adopts,         \* the supervisor is the reaper of orphans
    interrupted,    \* a signal reached the supervisor
    status,         \* the status of the receipt
    raised,         \* the call ends with an exception
    gaveUp,         \* the collecting loop hit its deadline
    listed          \* how many processes there were at the last SIGKILL list

world == <<st, parent, group, doomed>>
book == <<tracked, targets, pending>>
outcome == <<status, raised, gaveUp>>
vars == <<world, book, outcome, pc, sweep, names, rows, adopts, interrupted, listed>>

Exists(p) == st[p] \in {"live", "zombie"}
Born == Cardinality({p \in Procs : st[p] # "unborn"})
Running == {p \in Procs : st[p] = "live" /\ p \notin doomed}

Init ==
    /\ st = [p \in Procs |-> "unborn"]
    /\ parent = [p \in Procs |-> Host]
    /\ group = {} /\ doomed = {}
    /\ pc = "start" /\ sweep = 0
    /\ names = {} /\ rows = << >>
    /\ tracked = {} /\ targets = {} /\ pending = {}
    /\ adopts = FALSE /\ interrupted = FALSE
    /\ status = "complete" /\ raised = FALSE /\ gaveUp = FALSE
    /\ listed = 0

-----------------------------------------------------------------------------
(* The command and its descendants.                                          *)

Fork(p) ==
    /\ p \in Running /\ Born < MaxProcs
    /\ st' = [st EXCEPT ![Born + 1] = "live"]
    /\ parent' = [parent EXCEPT ![Born + 1] = p]
    /\ group' = IF p \in group THEN group \cup {Born + 1} ELSE group
    /\ UNCHANGED doomed

\* setsid: the leader of a group cannot leave it.
Detach(p) ==
    /\ p \in Running \cap group /\ p # Leader
    /\ group' = group \ {p}
    /\ UNCHANGED <<st, parent, doomed>>

\* Where the children of a dead process go.
Adopter == IF adopts THEN Supervisor ELSE Host

\* A process ends, of itself or by a signal; the host collects at once.
Die(p) ==
    /\ st[p] = "live"
    /\ parent' = [c \in Procs |-> IF parent[c] = p THEN Adopter ELSE parent[c]]
    /\ st' = [c \in Procs |->
                 IF parent'[c] = Host /\ (c = p \/ st[c] = "zombie") THEN "gone"
                 ELSE IF c = p THEN "zombie" ELSE st[c]]
    /\ UNCHANGED <<group, doomed>>

Collect(p, c) ==
    /\ p \in Running /\ parent[c] = p /\ st[c] = "zombie"
    /\ st' = [st EXCEPT ![c] = "gone"]
    /\ UNCHANGED <<parent, group, doomed>>

Command ==
    /\ \E p \in Procs : Fork(p) \/ Detach(p) \/ Die(p) \/ \E c \in Procs : Collect(p, c)
    /\ UNCHANGED <<book, outcome, pc, sweep, names, rows, adopts, interrupted, listed>>

-----------------------------------------------------------------------------
(* The supervisor.                                                           *)

\* Faulty form of Launch: orphans are not adopted.
LaunchPlain ==
    /\ pc = "start"
    /\ st' = [st EXCEPT ![Leader] = "live"]
    /\ parent' = [parent EXCEPT ![Leader] = Supervisor]
    /\ group' = {Leader}
    /\ pc' = "list"
    /\ UNCHANGED <<doomed, book, outcome, sweep, names, rows, adopts, interrupted, listed>>

\* prctl and Popen, in a new session.
Launch ==
    /\ pc = "start"
    /\ adopts' = TRUE
    /\ st' = [st EXCEPT ![Leader] = "live"]
    /\ parent' = [parent EXCEPT ![Leader] = Supervisor]
    /\ group' = {Leader}
    /\ pc' = "list"
    /\ UNCHANGED <<doomed, book, outcome, sweep, names, rows, interrupted, listed>>

LaunchFails ==
    /\ pc = "start"
    /\ pc' = "done" /\ status' = "launch_failed" /\ raised' = TRUE
    /\ UNCHANGED <<world, book, gaveUp, sweep, names, rows, adopts, interrupted, listed>>

\* The handlers of SIGTERM, SIGHUP and SIGINT only note the signal.
Interrupt ==
    /\ pc \notin {"start", "done"} /\ ~interrupted
    /\ interrupted' = TRUE
    /\ UNCHANGED <<world, book, outcome, pc, sweep, names, rows, adopts, listed>>

\* A snapshot: the names in /proc, then the row of each that still exists.
List ==
    /\ pc = "list"
    /\ names' = {p \in Procs : Exists(p)} /\ rows' = << >>
    /\ listed' = IF sweep \in {2, 4} THEN Born ELSE listed
    /\ pc' = "read"
    /\ UNCHANGED <<world, book, outcome, sweep, adopts, interrupted>>

Read ==
    /\ pc = "read" /\ names # {}
    /\ LET p == CHOOSE n \in names : \A m \in names : n <= m
       IN  /\ names' = names \ {p}
           /\ rows' = [q \in DOMAIN rows \cup (IF Exists(p) THEN {p} ELSE {}) |->
                          IF q = p THEN [parent |-> parent[p], inside |-> p \in group]
                          ELSE rows[q]]
    /\ UNCHANGED <<world, book, outcome, pc, sweep, adopts, interrupted, listed>>

\* _process_tree: what was tracked, the session of the leader, adopted orphans, and all their
\* descendants: the least set that the loop over the rows adds nothing to.
Tree ==
    LET roots == {p \in DOMAIN rows : \/ p \in tracked \cup {Leader}
                                      \/ rows[p].inside
                                      \/ rows[p].parent = Supervisor}
        closed == {live \in SUBSET DOMAIN rows :
                      roots \subseteq live /\ \A p \in DOMAIN rows : rows[p].parent \in live => p \in live}
    IN  {p \in DOMAIN rows : \A live \in closed : p \in live}

\* The end of one look at the tree.
Judge ==
    /\ pc = "read" /\ names = {} /\ sweep = 0
    /\ tracked' = tracked \cup Tree /\ rows' = << >>
    /\ \/ /\ interrupted
          /\ status' = "interrupted" /\ sweep' = 1 /\ pc' = "list"
          /\ UNCHANGED st
       \/ /\ ~interrupted
          /\ status' \in {"budget_terminated", "wall_timeout"} /\ sweep' = 1 /\ pc' = "list"
          /\ UNCHANGED st
       \/ /\ ~interrupted /\ st[Leader] # "live"
          /\ st' = [st EXCEPT ![Leader] = "gone"]
          /\ status' \in {"complete", "command_failed"} /\ sweep' = 1 /\ pc' = "list"
       \/ /\ ~interrupted /\ st[Leader] = "live"
          /\ pc' = "talk"
          /\ UNCHANGED <<st, status, sweep>>
    /\ UNCHANGED <<parent, group, doomed, targets, pending, raised, gaveUp, names, adopts, interrupted, listed>>

\* communicate for 50 ms, which may find that the command ended.
Talk ==
    /\ pc = "talk"
    /\ pc' = "list"
    /\ \/ UNCHANGED st
       \/ st[Leader] = "zombie" /\ st' = [st EXCEPT ![Leader] = "gone"]
    /\ UNCHANGED <<parent, group, doomed, book, outcome, sweep, names, rows, adopts, interrupted, listed>>

-----------------------------------------------------------------------------
(* _stop_process_tree.                                                       *)

\* A signal reaches ps: SIGKILL is fatal, SIGTERM may be caught.  No process of the command
\* runs as another user, so that kill and killpg are never refused (PermissionError).
Deliver(ps) ==
    IF sweep \in {2, 4} THEN doomed' = doomed \cup ps
    ELSE \E hit \in SUBSET (ps \ doomed) : doomed' = doomed \cup hit

\* What follows a sweep: the SIGKILL one, or the wait.
AfterSweep ==
    IF sweep \in {1, 3} THEN sweep' = sweep + 1 /\ pc' = "list"
    ELSE UNCHANGED sweep /\ pc' = "wait"

\* killpg, after the tree is known.
SignalGroup ==
    /\ pc = "read" /\ names = {} /\ sweep # 0
    /\ tracked' = tracked \cup Tree /\ targets' = Tree /\ rows' = << >>
    /\ Deliver({p \in group : st[p] = "live"})
    /\ IF Tree = {} THEN AfterSweep ELSE pc' = "kill" /\ UNCHANGED sweep
    /\ UNCHANGED <<st, parent, group, pending, outcome, names, adopts, interrupted, listed>>

SignalOne ==
    /\ pc = "kill"
    /\ \E p \in targets :
          /\ targets' = targets \ {p}
          /\ Deliver({q \in {p} : st[q] = "live"})
          /\ IF targets = {p} THEN AfterSweep ELSE UNCHANGED <<pc, sweep>>
    /\ UNCHANGED <<st, parent, group, tracked, pending, outcome, names, rows, adopts, interrupted, listed>>

\* The first stop is followed by the second, in the finally; that one by
\* the end of the adoption and the return.
LeaveStop(next) ==
    IF sweep = 2 THEN pc' = next /\ sweep' = (IF next = "list" THEN 3 ELSE 2) /\ UNCHANGED adopts
    ELSE pc' = "done" /\ adopts' = FALSE /\ UNCHANGED sweep

\* process.wait(timeout=2)
WaitLeader ==
    /\ pc = "wait" /\ st[Leader] # "live"
    /\ st' = [st EXCEPT ![Leader] = "gone"]
    /\ pending' = tracked \ {Leader}
    /\ pc' = "reap"
    /\ UNCHANGED <<parent, group, doomed, tracked, targets, outcome, sweep, names, rows, adopts, interrupted, listed>>

WaitTimesOut ==
    /\ pc = "wait" /\ st[Leader] = "live"
    /\ raised' = TRUE
    /\ LeaveStop("list")
    /\ UNCHANGED <<world, book, status, gaveUp, names, rows, interrupted, listed>>

\* waitpid of one pid: not a child (any more), or a child that ended.
Reap(p) ==
    /\ pc = "reap" /\ p \in pending
    /\ \/ parent[p] # Supervisor \/ st[p] = "gone"
       \/ st[p] = "zombie"
    /\ st' = IF parent[p] = Supervisor THEN [st EXCEPT ![p] = "gone"] ELSE st
    /\ pending' = pending \ {p}
    /\ UNCHANGED <<parent, group, doomed, tracked, targets, outcome, pc, sweep, names, rows, adopts, interrupted, listed>>

\* Faulty form of ReapEnds: no deadline.
ReapEndsAtLast ==
    /\ pc = "reap" /\ pending = {}
    /\ LeaveStop("gather")
    /\ UNCHANGED <<world, book, outcome, names, rows, interrupted, listed>>

\* The loop ends when nothing is pending, or at its deadline.
ReapEnds ==
    /\ pc = "reap"
    /\ gaveUp' = (gaveUp \/ pending # {}) /\ pending' = {}
    /\ LeaveStop("gather")
    /\ UNCHANGED <<world, tracked, targets, status, raised, names, rows, interrupted, listed>>

\* communicate(timeout=2) ends, or a live process holds the pipes.
Gather ==
    /\ pc = "gather"
    /\ \/ UNCHANGED raised
       \/ raised' = TRUE /\ \E p \in Procs : st[p] = "live"
    /\ LeaveStop("list")
    /\ UNCHANGED <<world, book, status, gaveUp, names, rows, interrupted, listed>>

Supervise ==
    \/ Launch \/ LaunchFails \/ List \/ Read \/ Judge \/ Talk
    \/ SignalGroup \/ SignalOne \/ WaitLeader \/ WaitTimesOut
    \/ \E p \in Procs : Reap(p)
    \/ ReapEnds \/ Gather

Next == Supervise \/ Interrupt \/ Command

Spec == Init /\ [][Next]_vars

\* The supervisor runs on; nothing is assumed of the command.
FairSpec == Spec /\ WF_vars(Supervise)

-----------------------------------------------------------------------------
\* run_budgeted_process, on every way out: a process of the command that is
\* still running when the call ends was born after the names in /proc were
\* listed for the last SIGKILL.  Whatever existed then was found, through
\* its session, a living parent, adoption or an earlier look, however the
\* processes forked, left the session and died around the two rounds.
SurvivorsAreNewborn ==
    pc = "done" => \A p \in Running : p > listed

\* _stop_process_tree: once the watching ended the call ends, even if
\* signals have no effect: every wait in it has a limit.
StopEnds == sweep = 1 ~> pc = "done"
=============================================================================
