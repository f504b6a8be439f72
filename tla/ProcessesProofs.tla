--------------------------- MODULE ProcessesProofs ---------------------------
(***************************************************************************)
(* Proofs about the parts of MCProcesses, for every number of processes,   *)
(* cases, and lines that fit the pipes and the queue.                      *)
(*                                                                         *)
(* Supervisor: SurvivorsAreNewborn speaks of the end of the call only.     *)
(* StopInv follows the last round back to its list of /proc.  Processes    *)
(* are numbered in the order of births, so a parent is read before its     *)
(* child; as the parent of a process is alive or is the supervisor, every  *)
(* row read leads to a row read before it, and in the end to the           *)
(* supervisor.  So the tree is all that was read, and whatever was there   *)
(* when the names were listed and still runs has been read.                *)
(*                                                                         *)
(* Session: CompletedIsComplete speaks of the end.  Talking says where the *)
(* main loop and an obedient host stand towards each other at any time:    *)
(* who has to speak (Turn), and which lines are on their way through the   *)
(* pipe and the queue (Stream).  A case is on its way as long as reported  *)
(* is ahead of executed, and the summary comes after all cases.  If the    *)
(* reader ends early (Cut), no summary is read.                            *)
(***************************************************************************)
EXTENDS MCProcesses, FiniteSetTheorems, WellFoundedInduction, TLAPS

-----------------------------------------------------------------------------
(* The supervisor. *)

Pids == 1..MaxProcs
Exists(p) == st[p] \in {"live", "zombie"}
Survives(p) == st[p] = "live" /\ p \notin doomed

WorldTypes ==
  /\ st \in [Pids -> {"unborn", "live", "zombie", "gone"}]
  /\ parent \in [Pids -> Nat]

\* Processes are numbered in the order of births; listed and names are of the past.
BornUpTo(b) ==
  /\ \A p \in Pids : st[p] = "unborn" <=> p > b
  /\ listed \in 0..b /\ names \subseteq 1..b
  /\ pc = "start" => b = 0
  /\ adopts => b >= 1
Births == \E b \in 0..MaxProcs : BornUpTo(b)

\* While orphans are adopted the parent of a process is alive and older, or the supervisor.
HasParent(p) == parent[p] = 0 \/ (parent[p] \in 1..(p - 1) /\ st[parent[p]] = "live")
Parents == adopts => \A p \in Pids : st[p] # "unborn" => HasParent(p)

Phases ==
  /\ pc \in {"start", "list", "read", "talk", "kill", "wait", "reap", "gather", "done"}
  /\ adopts <=> pc \notin {"start", "done"}
  /\ sweep \in 0..4
  /\ pc \in {"wait", "reap"} => sweep \in {2, 4}
  /\ pc = "gather" => sweep = 2
  /\ pc = "kill" => sweep # 0

\* A snapshot in the making: what is older than an entry still to be read was listed too,
\* every row leads to an older one or to the supervisor, and what was listed is not lost.
Listed(p) == p \in names \/ p \in DOMAIN rows
Reading ==
  pc = "read" =>
    /\ DOMAIN rows \subseteq Pids
    /\ \A p \in names : p \notin DOMAIN rows
    /\ \A p \in names : \A q \in Pids : q < p /\ Exists(q) => Listed(q)
    /\ \A q \in DOMAIN rows : rows[q].parent = 0 \/ (rows[q].parent \in DOMAIN rows /\ rows[q].parent < q)
    /\ sweep \in {2, 4} => \A q \in Pids : q <= listed /\ Exists(q) => Listed(q)

\* The last SIGKILL: what was there when the names were listed is a target until it is doomed.
Killing ==
  /\ sweep = 4 /\ pc = "kill" => \A p \in Pids : Survives(p) /\ p <= listed => p \in targets
  /\ (sweep = 4 /\ pc \in {"wait", "reap"}) \/ pc = "done" => \A p \in Pids : Survives(p) => p > listed

StopInv == WorldTypes /\ Births /\ Parents /\ Phases /\ Reading /\ Killing

LEMMA LeastElement ==
  ASSUME NEW T, T \subseteq Nat, T # {}
  PROVE  \E x \in T : \A y \in T : x <= y
<1>1. \E x \in T : \A y \in T : ~(<<y, x>> \in OpToRel(<, Nat))
  BY Zenon, NatLessThanWellFounded, WFMin
<1>2. \A x, y \in T : <<y, x>> \in OpToRel(<, Nat) <=> y < x
  BY Zenon DEF OpToRel
<1>3. \E x \in T : \A y \in T : ~(y < x)
  BY Zenon, <1>1, <1>2
<1> QED BY <1>3

\* ProcessSupervisor names its own copy of the library's operator.
LEMMA SameCardinality == \A S : Supervisor!Cardinality(S) = Cardinality(S)
BY Zenon DEF Supervisor!Cardinality, Cardinality

LEMMA BornIs ==
  ASSUME NEW b \in 0..MaxProcs, BornUpTo(b)
  PROVE  Supervisor!Born = b
<1>1. {p \in Pids : st[p] # "unborn"} = 1..b
  BY SomeProcess DEF BornUpTo, Pids
<1>2. Cardinality(1..b) = b
  <2>1. 1 \in Int /\ b \in Int
    BY SomeProcess
  <2>2. Cardinality(1..b) = IF 1 > b THEN 0 ELSE b - 1 + 1
    BY Zenon, <2>1, FS_Interval
  <2> QED BY SomeProcess, <2>2
<1> QED BY Zenon, <1>1, <1>2, SameCardinality DEF Supervisor!Born, Supervisor!Procs, Pids

\* _process_tree: when every row leads to an older row or to the supervisor, the tree is all
\* that was read.
LEMMA TreeIsAll ==
  ASSUME DOMAIN rows \subseteq Nat,
         \A q \in DOMAIN rows : rows[q].parent = 0 \/ (rows[q].parent \in DOMAIN rows /\ rows[q].parent < q)
  PROVE  Supervisor!Tree = DOMAIN rows
<1> DEFINE roots == {p \in DOMAIN rows : \/ p \in tracked \cup {Supervisor!Leader}
                                         \/ rows[p].inside
                                         \/ rows[p].parent = Supervisor!Supervisor}
<1>1. ASSUME NEW live \in SUBSET DOMAIN rows, roots \subseteq live,
             \A p \in DOMAIN rows : rows[p].parent \in live => p \in live
      PROVE  DOMAIN rows \subseteq live
  <2> DEFINE missed == DOMAIN rows \ live
  <2> SUFFICES ASSUME missed # {} PROVE FALSE
    BY Zenon
  <2>1. PICK p \in missed : \A q \in missed : p <= q
    BY Zenon, LeastElement
  <2>2. rows[p].parent # 0
    BY Zenon, <1>1 DEF Supervisor!Supervisor
  <2>3. rows[p].parent \in DOMAIN rows /\ rows[p].parent < p
    BY Zenon, <2>2
  <2>4. rows[p].parent \notin missed
    BY <2>1, <2>3
  <2> QED BY Zenon, <1>1, <2>3, <2>4
<1> QED BY Zenon, <1>1 DEF Supervisor!Tree

-----------------------------------------------------------------------------
\* What a step does to the processes: none is born and none comes back to life, or the next
\* one is born.
Fades ==
  \A q \in Pids : /\ st'[q] = "unborn" <=> st[q] = "unborn"
                  /\ st'[q] = "live" => st[q] = "live"
                  /\ st'[q] \in {"live", "zombie"} => st[q] \in {"live", "zombie"}
Grows ==
  \E b \in 1..(MaxProcs - 1) : BornUpTo(b) /\ st' = [st EXCEPT ![b + 1] = "live"]

LEMMA Collected ==
  ASSUME WorldTypes, NEW p \in Pids, st[p] \in {"zombie", "gone"}, st' = [st EXCEPT ![p] = "gone"]
  PROVE  /\ Fades /\ st' \in [Pids -> {"unborn", "live", "zombie", "gone"}]
         /\ \A q \in Pids : st[q] = "live" => st'[q] = "live"
BY Zenon DEF WorldTypes, Fades

\* As long as the living stay alive, so do the parents.
LEMMA ParentsStay ==
  ASSUME WorldTypes, Parents, Fades, parent' = parent, adopts' => adopts,
         \A q \in Pids : st[q] = "live" => st'[q] = "live"
  PROVE  Parents'
<1> SUFFICES ASSUME adopts', NEW p \in Pids, st'[p] # "unborn" PROVE HasParent(p)'
  BY Zenon DEF Parents
<1>1. HasParent(p)
  BY Zenon DEF Parents, Fades
<1>2. parent[p] \in 1..(p - 1) => parent[p] \in Pids
  BY SomeProcess DEF Pids
<1> QED BY Zenon, <1>1, <1>2 DEF HasParent

LEMMA CommandMoves ==
  ASSUME StopInv, Supervisor!Command
  PROVE  /\ UNCHANGED <<pc, sweep, names, rows, listed, targets, adopts, doomed>>
         /\ WorldTypes' /\ Parents' /\ (Fades \/ Grows)
<1>1. UNCHANGED <<pc, sweep, names, rows, listed, targets, adopts>>
  BY Zenon DEF Supervisor!Command, Supervisor!book
<1>2. PICK p \in Pids : \/ Supervisor!Fork(p) \/ Supervisor!Detach(p) \/ Supervisor!Die(p)
                        \/ \E c \in Pids : Supervisor!Collect(p, c)
  BY Zenon DEF Supervisor!Command, Supervisor!Procs, Pids
<1>3. CASE Supervisor!Fork(p)
  <2>1. PICK b \in 0..MaxProcs : BornUpTo(b)
    BY Zenon DEF StopInv, Births
  <2>2. Supervisor!Born = b
    BY Zenon, <2>1, BornIs
  <2>3. /\ st[p] = "live" /\ b < MaxProcs /\ doomed' = doomed
        /\ st' = [st EXCEPT ![b + 1] = "live"] /\ parent' = [parent EXCEPT ![b + 1] = p]
    BY Zenon, <1>3, <2>2 DEF Supervisor!Fork, Supervisor!Running, Supervisor!Procs
  <2>4. p <= b /\ p \in 1..b /\ b + 1 \in Pids /\ st[b + 1] = "unborn" /\ b \in 1..(MaxProcs - 1)
    BY SomeProcess, <2>1, <2>3 DEF BornUpTo, Pids
  <2>5. WorldTypes'
    BY <2>3, <2>4 DEF StopInv, WorldTypes, Pids
  <2>6. Parents'
    <3> SUFFICES ASSUME adopts', NEW q \in Pids, st'[q] # "unborn" PROVE HasParent(q)'
      BY Zenon DEF Parents
    <3>1. CASE q = b + 1
      BY SomeProcess, <2>3, <2>4, <3>1 DEF StopInv, WorldTypes, HasParent, Pids
    <3>2. CASE q # b + 1
      <4>1. HasParent(q) /\ parent'[q] = parent[q]
        BY Zenon, <1>1, <2>3, <2>4, <3>2 DEF StopInv, WorldTypes, Parents
      <4>2. parent[q] \in 1..(q - 1) => parent[q] \in Pids
        BY SomeProcess DEF Pids
      <4>3. \A x \in Pids : st[x] = "live" => st'[x] = "live"
        BY Zenon, <2>3, <2>4 DEF StopInv, WorldTypes
      <4> QED BY Zenon, <4>1, <4>2, <4>3 DEF HasParent
    <3> QED BY Zenon, <3>1, <3>2
  <2> QED BY Zenon, <1>1, <2>1, <2>3, <2>4, <2>5, <2>6 DEF Grows
<1>4. CASE Supervisor!Detach(p)
  <2>1. UNCHANGED <<st, parent, doomed>>
    BY Zenon, <1>4 DEF Supervisor!Detach
  <2>2. Fades /\ WorldTypes'
    BY Zenon, <2>1 DEF Fades, StopInv, WorldTypes
  <2> QED BY Zenon, <1>1, <2>1, <2>2, ParentsStay DEF StopInv
<1>5. CASE Supervisor!Die(p)
  <2>1. /\ st[p] = "live" /\ doomed' = doomed
        /\ parent' = [c \in Pids |-> IF parent[c] = p THEN Supervisor!Adopter ELSE parent[c]]
        /\ st' = [c \in Pids |-> IF parent'[c] = MaxProcs + 1 /\ (c = p \/ st[c] = "zombie") THEN "gone"
                                 ELSE IF c = p THEN "zombie" ELSE st[c]]
    BY Zenon, <1>5 DEF Supervisor!Die, Supervisor!Procs, Supervisor!Host, Pids
  <2>2. Supervisor!Adopter \in Nat /\ (adopts => Supervisor!Adopter = 0)
    BY SomeProcess DEF Supervisor!Adopter, Supervisor!Supervisor, Supervisor!Host
  <2>3. WorldTypes'
    BY Zenon, <2>1, <2>2 DEF StopInv, WorldTypes
  <2>4. Fades /\ \A q \in Pids : q # p /\ st[q] = "live" => st'[q] = "live"
    BY Zenon, <2>1 DEF StopInv, WorldTypes, Fades
  <2>5. Parents'
    <3> SUFFICES ASSUME adopts', NEW q \in Pids, st'[q] # "unborn" PROVE HasParent(q)'
      BY Zenon DEF Parents
    <3>1. HasParent(q)
      BY Zenon, <1>1, <2>4 DEF StopInv, Parents, Fades
    <3>2. CASE parent[q] = p
      BY Zenon, <1>1, <2>1, <2>2, <3>2 DEF HasParent
    <3>3. CASE parent[q] # p
      <4>1. parent'[q] = parent[q]
        BY Zenon, <2>1, <3>3
      <4>2. parent[q] \in 1..(q - 1) => parent[q] \in Pids
        BY SomeProcess DEF Pids
      <4> QED BY Zenon, <2>4, <3>1, <3>3, <4>1, <4>2 DEF HasParent
    <3> QED BY Zenon, <3>2, <3>3
  <2> QED BY Zenon, <1>1, <2>1, <2>3, <2>4, <2>5
<1>6. CASE \E c \in Pids : Supervisor!Collect(p, c)
  <2>1. PICK c \in Pids : st[c] = "zombie" /\ st' = [st EXCEPT ![c] = "gone"] /\ UNCHANGED <<parent, doomed>>
    BY Zenon, <1>6 DEF Supervisor!Collect
  <2>2. /\ Fades /\ st' \in [Pids -> {"unborn", "live", "zombie", "gone"}]
        /\ \A q \in Pids : st[q] = "live" => st'[q] = "live"
    BY Zenon, <2>1, Collected DEF StopInv
  <2>3. WorldTypes'
    BY Zenon, <2>1, <2>2 DEF StopInv, WorldTypes
  <2> QED BY Zenon, <1>1, <2>1, <2>2, <2>3, ParentsStay DEF StopInv
<1> QED BY Zenon, <1>2, <1>3, <1>4, <1>5, <1>6

LEMMA SuperviseMoves ==
  ASSUME StopInv, Supervisor!Supervise \/ Supervisor!Interrupt, ~Supervisor!Launch
  PROVE  /\ WorldTypes' /\ Parents' /\ Fades
         /\ \A p \in doomed : p \in doomed'
         /\ adopts' => adopts
<1>1. st[1] # "unborn" \/ ~adopts
  BY SomeProcess DEF StopInv, Births, BornUpTo, Pids
<1>2. /\ parent' = parent
      /\ \/ st' = st
         \/ \E p \in Pids : st[p] \in {"zombie", "gone"} /\ st' = [st EXCEPT ![p] = "gone"]
  <2>1. CASE Supervisor!LaunchFails \/ Supervisor!List \/ Supervisor!Read \/ Supervisor!SignalGroup
             \/ Supervisor!SignalOne \/ Supervisor!WaitTimesOut \/ Supervisor!ReapEnds \/ Supervisor!Gather
             \/ Supervisor!Interrupt
    BY Zenon, <2>1 DEF Supervisor!LaunchFails, Supervisor!List, Supervisor!Read, Supervisor!SignalGroup,
         Supervisor!SignalOne, Supervisor!WaitTimesOut, Supervisor!ReapEnds, Supervisor!Gather,
         Supervisor!Interrupt, Supervisor!world
  <2>2. 1 \in Pids /\ st[1] \in {"unborn", "live", "zombie", "gone"}
    BY SomeProcess DEF StopInv, WorldTypes, Pids
  <2>3. CASE Supervisor!Judge \/ Supervisor!Talk \/ Supervisor!WaitLeader
    <3>1. adopts
      BY Zenon, <2>3 DEF StopInv, Phases, Supervisor!Judge, Supervisor!Talk, Supervisor!WaitLeader
    <3> QED BY Zenon, <1>1, <2>2, <2>3, <3>1 DEF Supervisor!Judge, Supervisor!Talk, Supervisor!WaitLeader, Supervisor!Leader
  <2>4. CASE \E p \in Pids : Supervisor!Reap(p)
    BY Zenon, <2>4 DEF Supervisor!Reap
  <2> QED BY Zenon, <2>1, <2>3, <2>4 DEF Supervisor!Supervise, Supervisor!Procs, Pids
<1>3. (adopts' => adopts) /\ \A p \in doomed : p \in doomed'
  <2>1. CASE Supervisor!SignalGroup \/ Supervisor!SignalOne
    BY <2>1 DEF Supervisor!SignalGroup, Supervisor!SignalOne, Supervisor!Deliver
  <2>2. CASE Supervisor!WaitTimesOut \/ Supervisor!ReapEnds \/ Supervisor!Gather
    BY Zenon, <2>2 DEF Supervisor!WaitTimesOut, Supervisor!ReapEnds, Supervisor!Gather, Supervisor!LeaveStop, Supervisor!world
  <2>3. CASE Supervisor!LaunchFails \/ Supervisor!List \/ Supervisor!Read \/ Supervisor!Judge \/ Supervisor!Talk
             \/ Supervisor!WaitLeader \/ Supervisor!Interrupt \/ \E p \in Pids : Supervisor!Reap(p)
    BY <2>3 DEF Supervisor!LaunchFails, Supervisor!List, Supervisor!Read, Supervisor!Judge, Supervisor!Talk,
         Supervisor!WaitLeader, Supervisor!Interrupt, Supervisor!Reap, Supervisor!world
  <2> QED BY Zenon, <2>1, <2>2, <2>3 DEF Supervisor!Supervise, Supervisor!Procs, Pids
<1>4. /\ Fades /\ st' \in [Pids -> {"unborn", "live", "zombie", "gone"}]
      /\ \A q \in Pids : st[q] = "live" => st'[q] = "live"
  <2>1. CASE st' = st
    BY Zenon, <2>1 DEF StopInv, WorldTypes, Fades
  <2>2. CASE \E p \in Pids : st[p] \in {"zombie", "gone"} /\ st' = [st EXCEPT ![p] = "gone"]
    BY Zenon, <2>2, Collected DEF StopInv
  <2> QED BY Zenon, <1>2, <2>1, <2>2
<1>5. WorldTypes'
  BY Zenon, <1>2, <1>4 DEF StopInv, WorldTypes
<1> QED BY Zenon, <1>2, <1>3, <1>4, <1>5, ParentsStay DEF StopInv

LEMMA LaunchMoves ==
  ASSUME StopInv, Supervisor!Launch
  PROVE  StopInv'
<1>1. /\ pc = "start" /\ pc' = "list" /\ adopts' /\ UNCHANGED <<sweep, names, listed>>
      /\ st' = [st EXCEPT ![1] = "live"] /\ parent' = [parent EXCEPT ![1] = 0]
  BY Zenon DEF Supervisor!Launch, Supervisor!Leader, Supervisor!Supervisor
<1>2. BornUpTo(0)
  <2>1. PICK b \in 0..MaxProcs : BornUpTo(b)
    BY Zenon DEF StopInv, Births
  <2>2. b = 0
    BY Zenon, <1>1, <2>1 DEF BornUpTo
  <2> QED BY Zenon, <2>1, <2>2
<1>3. 1 \in Pids /\ 1 \in 0..MaxProcs
  BY SomeProcess DEF Pids
<1>4. WorldTypes'
  BY Zenon, <1>1, <1>3 DEF StopInv, WorldTypes
<1>5. BornUpTo(1)'
  <2>1. \A p \in Pids : st[p] = "unborn" <=> p > 0
    BY Zenon, <1>2 DEF BornUpTo
  <2>2. \A p \in Pids : st'[p] = "unborn" <=> p > 1
    BY <1>1, <1>3, <2>1 DEF StopInv, WorldTypes, Pids
  <2> QED BY <1>1, <1>2, <2>2 DEF BornUpTo
<1>6. Births'
  BY Zenon, <1>3, <1>5 DEF Births
<1>7. Parents'
  BY <1>1, <1>3, <1>5 DEF Parents, HasParent, BornUpTo, StopInv, WorldTypes, Pids
<1> QED BY Zenon, <1>1, <1>4, <1>6, <1>7 DEF StopInv, Phases, Reading, Killing

LEMMA PhasesKept ==
  ASSUME Phases, Supervisor!Supervise \/ Supervisor!Interrupt, ~Supervisor!Launch
  PROVE  Phases'
<1>1. CASE Supervisor!LaunchFails \/ Supervisor!List \/ Supervisor!Read \/ Supervisor!Judge \/ Supervisor!Talk
           \/ Supervisor!WaitLeader \/ Supervisor!Interrupt \/ \E p \in Pids : Supervisor!Reap(p)
  BY <1>1 DEF Phases, Supervisor!LaunchFails, Supervisor!List, Supervisor!Read, Supervisor!Judge, Supervisor!Talk,
       Supervisor!WaitLeader, Supervisor!Interrupt, Supervisor!Reap
<1>2. CASE Supervisor!SignalGroup
  BY <1>2 DEF Phases, Supervisor!SignalGroup, Supervisor!AfterSweep
<1>3. CASE Supervisor!SignalOne
  BY <1>3 DEF Phases, Supervisor!SignalOne, Supervisor!AfterSweep
<1>4. CASE Supervisor!WaitTimesOut \/ Supervisor!ReapEnds \/ Supervisor!Gather
  BY <1>4 DEF Phases, Supervisor!WaitTimesOut, Supervisor!ReapEnds, Supervisor!Gather, Supervisor!LeaveStop
<1> QED BY Zenon, <1>1, <1>2, <1>3, <1>4 DEF Supervisor!Supervise, Supervisor!Procs, Pids

LEMMA BirthsKept ==
  ASSUME StopInv, Supervisor!Next, ~Supervisor!Launch
  PROVE  Births'
<1>1. CASE Supervisor!Command
  <2>1. UNCHANGED <<pc, names, listed, adopts>> /\ (Fades \/ Grows)
    BY Zenon, <1>1, CommandMoves
  <2>2. CASE Fades
    <3>1. PICK b \in 0..MaxProcs : BornUpTo(b)
      BY Zenon DEF StopInv, Births
    <3>2. BornUpTo(b)'
      BY Zenon, <2>1, <2>2, <3>1 DEF BornUpTo, Fades
    <3> QED BY Zenon, <3>1, <3>2 DEF Births
  <2>3. CASE Grows
    <3>1. PICK b \in 1..(MaxProcs - 1) : BornUpTo(b) /\ st' = [st EXCEPT ![b + 1] = "live"]
      BY Zenon, <2>3 DEF Grows
    <3>2. b + 1 \in Pids /\ b + 1 \in 0..MaxProcs
      BY SomeProcess, <3>1 DEF Pids
    <3>3. \A p \in Pids : st'[p] = "unborn" <=> p > b + 1
      BY SomeProcess, <3>1, <3>2 DEF BornUpTo, StopInv, WorldTypes, Pids
    <3>4. listed' \in 0..(b + 1) /\ names' \subseteq 1..(b + 1) /\ b + 1 >= 1 /\ pc' # "start"
      BY SomeProcess, <2>1, <3>1 DEF BornUpTo
    <3>5. BornUpTo(b + 1)'
      BY Zenon, <3>3, <3>4 DEF BornUpTo
    <3> QED BY Zenon, <3>2, <3>5 DEF Births
  <2> QED BY Zenon, <2>1, <2>2, <2>3
<1>2. CASE Supervisor!Supervise \/ Supervisor!Interrupt
  <2>1. PICK b \in 0..MaxProcs : BornUpTo(b)
    BY Zenon DEF StopInv, Births
  <2>2. Fades /\ (adopts' => adopts)
    BY Zenon, <1>2, SuperviseMoves
  <2>3. listed' \in 0..b /\ names' \subseteq 1..b
    <3>1. CASE Supervisor!List
      <4>1. names' = {p \in Pids : Exists(p)} /\ listed' \in {Supervisor!Born, listed}
        BY Zenon, <3>1 DEF Supervisor!List, Supervisor!Exists, Supervisor!Procs, Exists, Pids
      <4>2. Supervisor!Born = b
        BY Zenon, <2>1, BornIs
      <4> QED BY SomeProcess, <2>1, <4>1, <4>2 DEF BornUpTo, Exists, Pids
    <3>2. CASE Supervisor!Read
      BY Zenon, <2>1, <3>2 DEF Supervisor!Read, BornUpTo
    <3>3. CASE ~Supervisor!List /\ ~Supervisor!Read
      <4>1. UNCHANGED <<names, listed>>
        BY Zenon, <1>2, <3>3 DEF Supervisor!Supervise, Supervisor!Interrupt, Supervisor!Launch, Supervisor!LaunchFails,
             Supervisor!Judge, Supervisor!Talk, Supervisor!SignalGroup, Supervisor!SignalOne, Supervisor!WaitLeader,
             Supervisor!WaitTimesOut, Supervisor!Reap, Supervisor!ReapEnds, Supervisor!Gather
      <4> QED BY Zenon, <2>1, <4>1 DEF BornUpTo
    <3> QED BY Zenon, <3>1, <3>2, <3>3
  <2>4. pc' # "start"
    BY Zenon, <1>2 DEF StopInv, Phases, Supervisor!Supervise, Supervisor!Interrupt, Supervisor!Launch, Supervisor!LaunchFails,
         Supervisor!List, Supervisor!Read, Supervisor!Judge, Supervisor!Talk, Supervisor!SignalGroup,
         Supervisor!SignalOne, Supervisor!AfterSweep, Supervisor!WaitLeader, Supervisor!WaitTimesOut, Supervisor!Reap,
         Supervisor!ReapEnds, Supervisor!Gather, Supervisor!LeaveStop
  <2>5. BornUpTo(b)'
    BY Zenon, <2>1, <2>2, <2>3, <2>4 DEF BornUpTo, Fades
  <2> QED BY Zenon, <2>1, <2>5 DEF Births
<1> QED BY Zenon, <1>1, <1>2 DEF Supervisor!Next

\* A process there is after a step was there before it, or is younger than all that were listed.
LEMMA Newborns ==
  ASSUME StopInv, Fades \/ Grows, NEW q \in Pids, st'[q] \in {"live", "zombie"}
  PROVE  \/ st[q] \in {"live", "zombie"} /\ (st'[q] = "live" => st[q] = "live")
         \/ q > listed /\ \A p \in names : q > p
<1>1. CASE Fades
  BY Zenon, <1>1 DEF Fades
<1>2. CASE Grows
  <2>1. PICK b \in 1..(MaxProcs - 1) : BornUpTo(b) /\ st' = [st EXCEPT ![b + 1] = "live"]
    BY Zenon, <1>2 DEF Grows
  <2>2. CASE q = b + 1
    BY SomeProcess, <2>1, <2>2 DEF BornUpTo
  <2>3. CASE q # b + 1
    BY Zenon, <2>1, <2>3 DEF StopInv, WorldTypes
  <2> QED BY Zenon, <2>2, <2>3
<1> QED BY Zenon, <1>1, <1>2

LEMMA ReadingKept ==
  ASSUME StopInv, Supervisor!Next, ~Supervisor!Launch
  PROVE  Reading'
<1> SUFFICES ASSUME pc' = "read" PROVE Reading'
  BY Zenon DEF Reading
<1>1. CASE pc = "read" /\ UNCHANGED <<names, rows, sweep, listed>> /\ (Fades \/ Grows)
  <2>1. ASSUME NEW p \in names, NEW q \in Pids, q < p, Exists(q)' PROVE Listed(q)
    <3>1. ~(q > p) /\ Exists(q)
      <4>1. ~(q > p)
        BY SomeProcess, <2>1 DEF StopInv, Births, BornUpTo, Pids
      <4> QED BY Zenon, <1>1, <2>1, <4>1, Newborns DEF Exists
    <3> QED BY Zenon, <1>1, <2>1, <3>1 DEF StopInv, Reading
  <2>2. ASSUME sweep \in {2, 4}, NEW q \in Pids, q <= listed, Exists(q)' PROVE Listed(q)
    <3>1. ~(q > listed)
      BY SomeProcess, <2>2 DEF StopInv, Births, BornUpTo, Pids
    <3>2. Exists(q)
      BY Zenon, <1>1, <2>2, <3>1, Newborns DEF Exists
    <3> QED BY Zenon, <1>1, <2>2, <3>2 DEF StopInv, Reading
  <2>3. \A q : Listed(q)' <=> Listed(q)
    BY Zenon, <1>1 DEF Listed
  <2> QED BY Zenon, <1>1, <2>1, <2>2, <2>3 DEF StopInv, Reading
<1>2. CASE Supervisor!List
  <2>1. /\ names' = {p \in Pids : Exists(p)} /\ rows' = << >> /\ st' = st
    BY Zenon, <1>2 DEF Supervisor!List, Supervisor!Exists, Supervisor!Procs, Exists, Pids, Supervisor!world
  <2>2. \A q \in Pids : Exists(q)' => Listed(q)'
    BY Zenon, <2>1 DEF Exists, Listed
  <2>3. DOMAIN rows' = {}
    BY <2>1
  <2> QED BY Zenon, <2>2, <2>3 DEF Reading
<1>3. CASE Supervisor!Read
  <2>1. pc = "read" /\ names # {} /\ UNCHANGED <<st, sweep, listed>>
    BY Zenon, <1>3 DEF Supervisor!Read, Supervisor!world
  <2>2. names \subseteq Pids
    BY SomeProcess DEF StopInv, Births, BornUpTo, Pids
  <2>3. PICK p \in names : /\ \A m \in names : p <= m
                           /\ names' = names \ {p}
                           /\ rows' = [q \in DOMAIN rows \cup (IF Exists(p) THEN {p} ELSE {}) |->
                                         IF q = p THEN [parent |-> parent[p], inside |-> p \in group] ELSE rows[q]]
    <3>1. \E n \in names : \A m \in names : n <= m
      <4>1. names \subseteq Nat
        BY SomeProcess, <2>2 DEF Pids
      <4> QED BY Zenon, <2>1, <4>1, LeastElement
    <3> QED BY Zenon, <1>3, <3>1 DEF Supervisor!Read, Supervisor!Exists, Exists
  <2>4. /\ DOMAIN rows' = DOMAIN rows \cup (IF Exists(p) THEN {p} ELSE {})
        /\ \A q \in DOMAIN rows' : q # p => rows'[q] = rows[q] /\ q \in DOMAIN rows
        /\ p \in DOMAIN rows' /\ Exists(p) => rows'[p].parent = parent[p]
    BY Zenon, <2>3
  <2>5. \A q \in Pids : Listed(q) /\ Exists(q) => Listed(q)'
    BY Zenon, <2>3, <2>4 DEF Listed
  <2>6. \A q \in Pids : Exists(q)' <=> Exists(q)
    BY Zenon, <2>1 DEF Exists
  <2>7. \A m \in names' : \A q \in Pids : q < m /\ Exists(q)' => Listed(q)'
    BY Zenon, <2>1, <2>3, <2>5, <2>6 DEF StopInv, Reading
  <2>8. sweep' \in {2, 4} => \A q \in Pids : q <= listed' /\ Exists(q)' => Listed(q)'
    BY Zenon, <2>1, <2>5, <2>6 DEF StopInv, Reading
  <2>9. DOMAIN rows' \subseteq Pids /\ \A m \in names' : m \notin DOMAIN rows'
    BY Zenon, <2>1, <2>2, <2>3, <2>4 DEF StopInv, Reading
  <2>10. ASSUME Exists(p)
         PROVE  parent[p] = 0 \/ (parent[p] \in DOMAIN rows' /\ parent[p] < p)
    <3>1. adopts /\ p \in Pids /\ HasParent(p)
      BY Zenon, <2>1, <2>2, <2>10 DEF StopInv, Phases, Parents, Exists
    <3>2. CASE parent[p] \in 1..(p - 1) /\ st[parent[p]] = "live"
      <4>1. parent[p] \in Pids /\ parent[p] < p /\ Exists(parent[p]) /\ ~(p <= parent[p])
        BY SomeProcess, <3>1, <3>2 DEF Pids, Exists
      <4>2. Listed(parent[p])
        BY Zenon, <2>1, <4>1 DEF StopInv, Reading
      <4>3. parent[p] \notin names
        BY Zenon, <2>3, <4>1
      <4> QED BY Zenon, <2>4, <4>1, <4>2, <4>3 DEF Listed
    <3> QED BY Zenon, <3>1, <3>2 DEF HasParent
  <2>11. ASSUME NEW q \in DOMAIN rows'
         PROVE  rows'[q].parent = 0 \/ (rows'[q].parent \in DOMAIN rows' /\ rows'[q].parent < q)
    <3>1. CASE q = p /\ Exists(p)
      BY Zenon, <2>4, <2>10, <3>1
    <3>2. CASE ~(q = p /\ Exists(p))
      <4>1. q \in DOMAIN rows /\ rows'[q] = rows[q]
        BY Zenon, <2>1, <2>3, <2>4, <3>2 DEF StopInv, Reading
      <4> QED BY Zenon, <2>1, <2>4, <4>1 DEF StopInv, Reading
    <3> QED BY Zenon, <3>1, <3>2
  <2> QED BY Zenon, <2>7, <2>8, <2>9, <2>11 DEF Reading
<1>4. CASE ~Supervisor!List /\ ~Supervisor!Read
  <2>1. CASE Supervisor!Command
    BY Zenon, <1>1, <2>1, CommandMoves
  <2>2. CASE Supervisor!Interrupt
    BY Zenon, <1>1, <2>2, SuperviseMoves DEF Supervisor!Interrupt
  <2>3. CASE Supervisor!Supervise
    BY Zenon, <1>4, <2>3 DEF StopInv, Phases, Supervisor!Supervise, Supervisor!Launch, Supervisor!LaunchFails,
         Supervisor!Judge, Supervisor!Talk, Supervisor!SignalGroup,
         Supervisor!SignalOne, Supervisor!AfterSweep, Supervisor!WaitLeader, Supervisor!WaitTimesOut, Supervisor!Reap,
         Supervisor!ReapEnds, Supervisor!Gather, Supervisor!LeaveStop
  <2> QED BY Zenon, <2>1, <2>2, <2>3 DEF Supervisor!Next
<1> QED BY Zenon, <1>2, <1>3, <1>4

LEMMA KillingKept ==
  ASSUME StopInv, Supervisor!Next, ~Supervisor!Launch
  PROVE  Killing'
<1>0. WorldTypes /\ listed \in Nat /\ Pids \subseteq Nat
  BY SomeProcess DEF StopInv, Births, BornUpTo, Pids
<1>1. (Fades \/ Grows) /\ \A p \in doomed : p \in doomed'
  BY Zenon, CommandMoves, SuperviseMoves DEF Supervisor!Next
\* A process that runs on after the step ran before it, or is a newborn.
<1>2. \A p \in Pids : Survives(p)' => Survives(p) \/ p > listed
  BY Zenon, <1>1, Newborns DEF Survives
<1>3. CASE UNCHANGED <<pc, sweep, listed, targets>>
  BY <1>0, <1>2, <1>3 DEF StopInv, Killing
<1>4. CASE Supervisor!SignalGroup /\ sweep = 4
  <2>1. /\ pc = "read" /\ names = {} /\ targets' = Supervisor!Tree /\ UNCHANGED <<st, listed>>
        /\ IF Supervisor!Tree = {} THEN sweep' = sweep /\ pc' = "wait" ELSE pc' = "kill" /\ sweep' = sweep
    BY <1>4 DEF Supervisor!SignalGroup, Supervisor!AfterSweep
  <2>2. Supervisor!Tree = DOMAIN rows
    BY Zenon, <1>0, <2>1, TreeIsAll DEF StopInv, Reading
  <2>3. \A p \in Pids : Survives(p)' /\ p <= listed => p \in DOMAIN rows
    BY Zenon, <1>4, <2>1 DEF StopInv, Reading, Survives, Exists, Listed
  <2> QED BY <1>0, <1>4, <2>1, <2>2, <2>3 DEF Killing
<1>5. CASE Supervisor!SignalOne /\ sweep = 4
  <2>1. pc = "kill" /\ UNCHANGED <<st, listed, sweep>>
    BY <1>5 DEF Supervisor!SignalOne, Supervisor!AfterSweep
  <2>2. PICK p \in targets : /\ targets' = targets \ {p}
                             /\ doomed' = doomed \cup {q \in {p} : st[q] = "live"}
                             /\ IF targets = {p} THEN pc' = "wait" ELSE pc' = pc
    BY <1>5 DEF Supervisor!SignalOne, Supervisor!AfterSweep, Supervisor!Deliver
  <2>3. \A q \in Pids : Survives(q)' /\ q <= listed => q \in targets'
    BY Zenon, <1>5, <2>1, <2>2 DEF StopInv, Killing, Survives
  <2> QED BY <1>0, <2>1, <2>2, <2>3 DEF Killing
<1>6. CASE Supervisor!LaunchFails
  <2>1. pc = "start" /\ pc' = "done" /\ st' = st
    BY Zenon, <1>6 DEF Supervisor!LaunchFails, Supervisor!world
  <2>2. \A p \in Pids : st[p] = "unborn"
    BY SomeProcess, <2>1 DEF StopInv, Births, BornUpTo, Pids
  <2> QED BY Zenon, <2>1, <2>2 DEF Killing, Survives
<1>7. CASE Supervisor!WaitLeader \/ Supervisor!WaitTimesOut \/ Supervisor!ReapEnds \/ Supervisor!Gather
  <2>1. /\ listed' = listed /\ pc \in {"wait", "reap", "gather"} /\ pc' \in {"reap", "list", "gather", "done"}
        /\ pc = "gather" => sweep = 2
        /\ pc' = "reap" => pc = "wait" /\ sweep' = sweep
        /\ pc' = "done" => sweep = 4
    BY Zenon, <1>7 DEF StopInv, Phases, Supervisor!WaitLeader, Supervisor!WaitTimesOut, Supervisor!ReapEnds,
         Supervisor!Gather, Supervisor!LeaveStop
  <2> QED BY <1>2, <2>1 DEF StopInv, Killing
<1>8. CASE Supervisor!List \/ Supervisor!Read \/ Supervisor!Judge \/ Supervisor!Talk
  <2>1. pc' \in {"read", "list", "talk"}
    BY Zenon, <1>8 DEF Supervisor!List, Supervisor!Read, Supervisor!Judge, Supervisor!Talk
  <2> QED BY Zenon, <2>1 DEF Killing
<1>9. CASE (Supervisor!SignalGroup \/ Supervisor!SignalOne) /\ sweep # 4
  <2>1. (pc' # "done" /\ sweep' # 4) \/ pc' = "list"
    BY Zenon, <1>9 DEF StopInv, Phases, Supervisor!SignalGroup, Supervisor!SignalOne, Supervisor!AfterSweep
  <2> QED BY Zenon, <2>1 DEF Killing
<1> QED
  <2>1. CASE Supervisor!Command \/ Supervisor!Interrupt \/ \E p \in Pids : Supervisor!Reap(p)
    BY Zenon, <1>3, <2>1, CommandMoves DEF Supervisor!Interrupt, Supervisor!Reap, Supervisor!book
  <2> QED BY Zenon, <1>4, <1>5, <1>6, <1>7, <1>8, <1>9, <2>1 DEF Supervisor!Next, Supervisor!Supervise, Supervisor!Procs, Pids

LEMMA StopInvHolds == Supervisor!Spec => []StopInv
<1>1. Supervisor!Init => StopInv
  <2> SUFFICES ASSUME Supervisor!Init PROVE StopInv
    BY Zenon
  <2>1. WorldTypes
    BY SomeProcess DEF Supervisor!Init, WorldTypes, Supervisor!Procs, Supervisor!Host, Pids
  <2>2. BornUpTo(0) /\ 0 \in 0..MaxProcs
    BY SomeProcess DEF Supervisor!Init, BornUpTo, Supervisor!Procs, Pids
  <2> QED BY <2>1, <2>2 DEF Supervisor!Init, StopInv, Births, Parents, Phases, Reading, Killing
<1>2. StopInv /\ [Supervisor!Next]_Supervisor!vars => StopInv'
  <2> SUFFICES ASSUME StopInv, [Supervisor!Next]_Supervisor!vars PROVE StopInv'
    BY Zenon
  <2>1. CASE Supervisor!Launch
    BY Zenon, <2>1, LaunchMoves
  <2>2. CASE Supervisor!Next /\ ~Supervisor!Launch
    <3>1. WorldTypes' /\ Parents' /\ Phases'
      BY <2>2, CommandMoves, SuperviseMoves, PhasesKept DEF Supervisor!Next, StopInv, Phases
    <3> QED BY Zenon, <2>2, <3>1, BirthsKept, ReadingKept, KillingKept DEF StopInv
  <2>3. CASE UNCHANGED Supervisor!vars
    <3>1. UNCHANGED <<st, parent, doomed, pc, sweep, names, rows, targets, adopts, listed>>
      BY Zenon, <2>3 DEF Supervisor!vars, Supervisor!world, Supervisor!book
    <3> QED BY Zenon, <3>1 DEF StopInv, WorldTypes, Births, BornUpTo, Parents, HasParent, Phases, Reading, Listed, Exists,
              Killing, Survives
  <2> QED BY Zenon, <2>1, <2>2, <2>3
<1> QED BY <1>1, <1>2, PTL DEF Supervisor!Spec

\* run_budgeted_process, on every way out: a process of the command that still runs when the
\* call ends was born after /proc was listed for the last SIGKILL, however the processes of a
\* command of any size forked, left the session and died around the two rounds.
THEOREM NoOldSurvivor == Supervisor!Spec => []SurvivorsAreNewborn
<1>1. StopInv => SurvivorsAreNewborn
  BY Zenon DEF StopInv, Killing, SurvivorsAreNewborn, Survives, Supervisor!SurvivorsAreNewborn, Supervisor!Running, Supervisor!Procs, Pids
<1> QED BY <1>1, StopInvHolds, PTL

-----------------------------------------------------------------------------
(* The session. *)

\* What was sent to the host: an END is the last message and has set its flag, and with it a
\* stop, after which no input is sent.
Sending ==
  /\ submitted \in Nat /\ sent \in Seq(Nat)
  /\ endSent => stop
  /\ \A i \in DOMAIN sent : sent[i] = End => i = Len(sent) /\ endSent

LEMMA EndSentOnce ==
  ASSUME Sending, NEW failed, SendEnd(failed)
  PROVE  /\ sent' \in Seq(Nat) /\ endSent'
         /\ \A i \in DOMAIN sent' : sent'[i] = End => i = Len(sent')
<1>1. CASE endSent
  BY Zenon, <1>1 DEF Sending, SendEnd
<1>2. CASE ~endSent
  <2>1. sent' = sent \o <<End>> /\ endSent'
    BY Zenon, <1>2 DEF SendEnd, Send
  <2>2. sent' \in Seq(Nat) /\ Len(sent') = Len(sent) + 1 /\ Len(sent) \in Nat
        /\ \A i \in 1..Len(sent) : sent'[i] = sent[i]
    BY <2>1 DEF Sending, End
  <2>3. \A i \in 1..Len(sent) : sent[i] # End
    BY <1>2 DEF Sending
  <2> QED BY <2>1, <2>2, <2>3
<1> QED BY Zenon, <1>1, <1>2

LEMMA SendingKept ==
  ASSUME Sending, Next
  PROVE  Sending'
<1>1. CASE Host \/ Reader \/ DeadlinePasses \/ Close
  <2>1. UNCHANGED <<submitted, sent, endSent, stop>>
    BY Zenon, <1>1 DEF Host, Reader, DeadlinePasses, Close, flags, counts
  <2> QED BY Zenon, <2>1 DEF Sending
<1>2. CASE TakeNeed
  <2>1. CASE \E failed \in BOOLEAN : SendEnd(failed) /\ (stop \/ stop') /\ (stop' = stop \/ stop') /\ submitted' = submitted
    BY Zenon, <2>1, EndSentOnce DEF Sending
  <2>2. CASE UNCHANGED <<sent, endSent, submitted>> /\ stop'
    BY Zenon, <2>2 DEF Sending
  <2>3. CASE /\ ~stop /\ submitted' = submitted + 1
             /\ endSent' = (submitted + 1 - executed > MaxUnanswered) /\ stop' = endSent'
             /\ sent' = sent \o (<<submitted + 1>> \o IF endSent' THEN <<End>> ELSE <<>>)
    <3>1. Len(sent) \in Nat /\ ~endSent /\ \A i \in 1..Len(sent) : sent[i] # End
      BY <2>3 DEF Sending
    <3>2. CASE endSent'
      <4>1. sent' = sent \o <<submitted + 1, End>>
        BY <2>3, <3>2
      <4>2. sent' \in Seq(Nat) /\ Len(sent') = Len(sent) + 2 /\ sent'[Len(sent) + 1] = submitted + 1
            /\ \A i \in 1..Len(sent) : sent'[i] = sent[i]
        BY <4>1 DEF Sending, End
      <4>3. submitted' \in Nat /\ submitted + 1 # End /\ stop'
        BY <2>3, <3>2 DEF Sending, End
      <4>4. \A i \in DOMAIN sent' : sent'[i] = End => i = Len(sent')
        BY <3>1, <4>2, <4>3
      <4> QED BY Zenon, <3>2, <4>2, <4>3, <4>4 DEF Sending
    <3>3. CASE ~endSent'
      <4>1. sent' = sent \o <<submitted + 1>>
        BY <2>3, <3>3
      <4>2. sent' \in Seq(Nat) /\ Len(sent') = Len(sent) + 1 /\ sent'[Len(sent) + 1] = submitted + 1
            /\ \A i \in 1..Len(sent) : sent'[i] = sent[i]
        BY <4>1 DEF Sending, End
      <4> QED BY <2>3, <3>1, <3>3, <4>2 DEF Sending, End
    <3> QED BY Zenon, <3>2, <3>3
  <2> QED BY ZenonT(60), <1>2, <2>1, <2>2, <2>3 DEF TakeNeed, Send
<1>3. CASE TimeUp
  BY Zenon, <1>3, EndSentOnce DEF TimeUp, Sending
<1>4. CASE TakeCase \/ TakeSummary \/ TakeOther \/ TakeEof \/ Stall
  <2>1. UNCHANGED <<submitted, sent, endSent>> /\ (stop => stop')
    <3>1. CASE TakeCase
      BY Zenon, <3>1 DEF TakeCase
    <3>2. CASE TakeSummary \/ TakeOther \/ TakeEof \/ Stall
      BY <3>2 DEF TakeSummary, TakeOther, TakeEof, Stall, flags, counts
    <3> QED BY Zenon, <1>4, <3>1, <3>2
  <2> QED BY Zenon, <2>1 DEF Sending
<1> QED BY Zenon, <1>1, <1>2, <1>3, <1>4 DEF Next, Loop

\* run_session: END is the last thing the host is sent, and is sent once, whoever decided to
\* stop: the case budget, the deadline, a host that does not answer, or the lack of an input.
THEOREM EndIsLast == Spec => []NothingAfterEnd
<1>1. Init => Sending
  BY DEF Init, Sending
<1>2. Sending /\ UNCHANGED vars => Sending'
  BY DEF Sending, vars, flags, counts
<1>3. Sending => NothingAfterEnd
  BY Zenon DEF Sending, NothingAfterEnd
<1> QED BY <1>1, <1>2, <1>3, SendingKept, PTL DEF Spec

-----------------------------------------------------------------------------
(* The lines on their way from the host to the main loop. *)

Tokens == {"NEED_RECORD", "case", "summary", "other", "EOF"}
LineType == [token : Tokens, input : Nat]
Flight == lines \o out
Has(f, t) == \E i \in DOMAIN f : f[i].token = t

\* What may follow a line of an obedient host before the line is taken: of a case, a request
\* and the summary there is at most one each, in this order.
After(t) ==
  IF t = "case" THEN {"NEED_RECORD", "summary", "EOF"}
  ELSE IF t = "NEED_RECORD" THEN {"summary", "EOF"}
  ELSE IF t = "summary" THEN {"EOF"} ELSE {}
Stream(f, n) ==
  /\ \A i, j \in DOMAIN f : i < j => f[j].token \in After(f[i].token)
  /\ \A i \in DOMAIN f : f[i].token # "other" /\ (f[i].token = "case" => f[i].input = n)

LEMMA Joined ==
  ASSUME NEW S, NEW s \in Seq(S), NEW t \in Seq(S)
  PROVE  /\ s \o t \in Seq(S) /\ Len(s \o t) = Len(s) + Len(t)
         /\ \A i \in 1..(Len(s) + Len(t)) :
              (s \o t)[i] = IF i <= Len(s) THEN s[i] ELSE t[i - Len(s)]
OBVIOUS

LEMMA Pumped ==
  ASSUME NEW S, NEW s \in Seq(S), NEW t \in Seq(S), t # <<>>
  PROVE  Append(s, Head(t)) \o Tail(t) = s \o t
<1>1. Len(t) \in Nat /\ Len(t) > 0 /\ Head(t) = t[1] /\ Head(t) \in S
  OBVIOUS
<1>2. Tail(t) \in Seq(S) /\ Len(Tail(t)) = Len(t) - 1 /\ \A i \in 1..(Len(t) - 1) : Tail(t)[i] = t[i + 1]
  BY <1>1
<1> DEFINE u == Append(s, Head(t))
<1>3. u \in Seq(S) /\ Len(u) = Len(s) + 1 /\ u[Len(s) + 1] = t[1] /\ \A i \in 1..Len(s) : u[i] = s[i]
  BY <1>1
<1> HIDE DEF u
<1>7. Len(u) + Len(Tail(t)) = Len(s) + Len(t)
  BY <1>1, <1>2, <1>3
<1>4. /\ u \o Tail(t) \in Seq(S) /\ Len(u \o Tail(t)) = Len(s) + Len(t)
      /\ \A i \in 1..(Len(s) + Len(t)) :
           (u \o Tail(t))[i] = IF i <= Len(s) + 1 THEN u[i] ELSE Tail(t)[i - (Len(s) + 1)]
  <2>1. /\ u \o Tail(t) \in Seq(S) /\ Len(u \o Tail(t)) = Len(u) + Len(Tail(t))
        /\ \A i \in 1..(Len(u) + Len(Tail(t))) :
             (u \o Tail(t))[i] = IF i <= Len(u) THEN u[i] ELSE Tail(t)[i - Len(u)]
    BY ZenonT(60), <1>2, <1>3, Joined
  <2> QED BY Zenon, <1>3, <1>7, <2>1
<1>5. /\ s \o t \in Seq(S) /\ Len(s \o t) = Len(s) + Len(t)
      /\ \A i \in 1..(Len(s) + Len(t)) : (s \o t)[i] = IF i <= Len(s) THEN s[i] ELSE t[i - Len(s)]
  BY Zenon, Joined
<1>6. ASSUME NEW i \in 1..(Len(s) + Len(t)) PROVE (u \o Tail(t))[i] = (s \o t)[i]
  <2>1. CASE i <= Len(s)
    BY <1>1, <1>3, <1>4, <1>5, <2>1
  <2>2. CASE i = Len(s) + 1
    BY <1>1, <1>3, <1>4, <1>5, <2>2
  <2>3. CASE i > Len(s) + 1
    <3>1. i - (Len(s) + 1) \in 1..(Len(t) - 1) /\ i - (Len(s) + 1) + 1 = i - Len(s)
      BY <1>1, <2>3
    <3> QED BY <1>2, <1>4, <1>5, <2>3, <3>1
  <2>4. Len(s) \in Nat
    OBVIOUS
  <2>5. i <= Len(s) \/ i = Len(s) + 1 \/ i > Len(s) + 1
    BY <1>1, <2>4
  <2> QED BY Zenon, <2>1, <2>2, <2>3, <2>5
<1> QED BY <1>4, <1>5, <1>6 DEF u

LEMMA Taken ==
  ASSUME NEW S, NEW s \in Seq(S), NEW t \in Seq(S), s # <<>>
  PROVE  /\ s \o t \in Seq(S) /\ s \o t # <<>> /\ Head(s \o t) = Head(s)
         /\ Tail(s) \o t = Tail(s \o t)
<1>1. Len(s) \in Nat /\ Len(s) > 0 /\ Len(t) \in Nat /\ Head(s) = s[1]
  OBVIOUS
<1>2. Tail(s) \in Seq(S) /\ Len(Tail(s)) = Len(s) - 1 /\ \A i \in 1..(Len(s) - 1) : Tail(s)[i] = s[i + 1]
  BY <1>1
<1> DEFINE w == s \o t
<1>3. /\ w \in Seq(S) /\ Len(w) = Len(s) + Len(t)
      /\ \A i \in 1..(Len(s) + Len(t)) : w[i] = IF i <= Len(s) THEN s[i] ELSE t[i - Len(s)]
  OBVIOUS
<1>4. /\ Tail(s) \o t \in Seq(S) /\ Len(Tail(s) \o t) = Len(s) + Len(t) - 1
      /\ \A i \in 1..(Len(s) + Len(t) - 1) :
           (Tail(s) \o t)[i] = IF i <= Len(s) - 1 THEN Tail(s)[i] ELSE t[i - (Len(s) - 1)]
  BY <1>1, <1>2
<1> HIDE DEF w
<1>5. w # <<>> /\ Head(w) = w[1] /\ w[1] = s[1]
  BY <1>1, <1>3
<1>6. Tail(w) \in Seq(S) /\ Len(Tail(w)) = Len(s) + Len(t) - 1 /\ \A i \in 1..(Len(s) + Len(t) - 1) : Tail(w)[i] = w[i + 1]
  BY <1>1, <1>3, <1>5
<1>7. ASSUME NEW i \in 1..(Len(s) + Len(t) - 1) PROVE (Tail(s) \o t)[i] = Tail(w)[i]
  <2>1. i + 1 \in 1..(Len(s) + Len(t)) /\ (i + 1 <= Len(s) <=> i <= Len(s) - 1) /\ i + 1 - Len(s) = i - (Len(s) - 1)
    BY <1>1
  <2>2. CASE i <= Len(s) - 1
    BY <1>1, <1>2, <1>3, <1>4, <1>6, <2>1, <2>2
  <2>3. CASE ~(i <= Len(s) - 1)
    BY <1>1, <1>3, <1>4, <1>6, <2>1, <2>3
  <2> QED BY Zenon, <2>2, <2>3
<1>8. Tail(s) \o t = Tail(w)
  BY <1>1, <1>4, <1>6, <1>7
<1> QED BY Zenon, <1>1, <1>3, <1>5, <1>8 DEF w

LEMMA Printed ==
  ASSUME NEW S, NEW s \in Seq(S), NEW t \in Seq(S), NEW x \in S
  PROVE  s \o t \in Seq(S) /\ s \o Append(t, x) = Append(s \o t, x)
OBVIOUS

\* Taking the first line leaves what may follow it.
LEMMA StreamTaken ==
  ASSUME NEW n, NEW m, NEW f \in Seq(LineType), f # <<>>, Stream(f, n)
  PROVE  /\ Tail(f) \in Seq(LineType)
         /\ \A t : Has(Tail(f), t) => t \in After(Head(f).token) /\ Has(f, t)
         /\ \A t : Has(f, t) => t = Head(f).token \/ Has(Tail(f), t)
         /\ Has(f, Head(f).token) /\ Head(f).token # "other"
         /\ Head(f).token = "case" => Head(f).input = n
         /\ m = n \/ ~Has(Tail(f), "case") => Stream(Tail(f), m)
<1>1. Len(f) \in Nat /\ Len(f) > 0 /\ Head(f) = f[1] /\ DOMAIN f = 1..Len(f)
  OBVIOUS
<1> DEFINE g == Tail(f)
<1>2. g \in Seq(LineType) /\ DOMAIN g = 1..(Len(f) - 1) /\ \A i \in 1..(Len(f) - 1) : g[i] = f[i + 1]
  BY <1>1
<1> HIDE DEF g
<1>3. \A i \in DOMAIN g : i + 1 \in DOMAIN f /\ 1 \in DOMAIN f /\ 1 < i + 1 /\ g[i] = f[i + 1]
  BY <1>1, <1>2
<1>4. \A t : Has(g, t) => t \in After(Head(f).token) /\ Has(f, t)
  BY Zenon, <1>1, <1>3 DEF Has, Stream
<1>5. \A i \in DOMAIN f : i = 1 \/ (i - 1 \in DOMAIN g /\ g[i - 1] = f[i])
  BY <1>1, <1>2
<1>6. \A t : Has(f, t) => t = Head(f).token \/ Has(g, t)
  BY Zenon, <1>1, <1>5 DEF Has
<1>7. /\ Has(f, Head(f).token) /\ Head(f).token # "other"
      /\ Head(f).token = "case" => Head(f).input = n
  BY <1>1 DEF Has, Stream
<1>8. ASSUME m = n \/ ~Has(g, "case") PROVE Stream(g, m)
  <2>1. ASSUME NEW i \in DOMAIN g, NEW j \in DOMAIN g, i < j PROVE g[j].token \in After(g[i].token)
    <3>1. i + 1 < j + 1
      BY <1>2, <2>1
    <3> QED BY Zenon, <1>3, <3>1 DEF Stream
  <2>2. ASSUME NEW i \in DOMAIN g PROVE g[i].token # "other" /\ (g[i].token = "case" => g[i].input = m)
    BY Zenon, <1>3, <1>8 DEF Stream, Has
  <2> QED BY Zenon, <2>1, <2>2 DEF Stream
<1> QED BY Zenon, <1>2, <1>4, <1>6, <1>7, <1>8 DEF g

\* A line that may follow every line there is.
LEMMA StreamPrinted ==
  ASSUME NEW n, NEW f \in Seq(LineType), NEW x \in LineType, Stream(f, n),
         x.token # "other", x.token = "case" => x.input = n,
         \A t : Has(f, t) => x.token \in After(t)
  PROVE  /\ Stream(Append(f, x), n)
         /\ \A t : Has(Append(f, x), t) <=> Has(f, t) \/ t = x.token
<1> DEFINE g == Append(f, x)
<1>1. /\ Len(f) \in Nat /\ DOMAIN f = 1..Len(f) /\ DOMAIN g = 1..(Len(f) + 1)
      /\ g[Len(f) + 1] = x /\ \A i \in 1..Len(f) : g[i] = f[i]
  OBVIOUS
<1> HIDE DEF g
<1>2. \A i \in DOMAIN g : i \in DOMAIN f \/ i = Len(f) + 1
  BY <1>1
<1>3. \A t : Has(g, t) <=> Has(f, t) \/ t = x.token
  BY <1>1, <1>2 DEF Has
<1>4. ASSUME NEW i \in DOMAIN g, NEW j \in DOMAIN g, i < j PROVE g[j].token \in After(g[i].token)
  <2>1. i \in DOMAIN f
    BY <1>1, <1>4
  <2>2. CASE j \in DOMAIN f
    BY Zenon, <1>1, <1>4, <2>1, <2>2 DEF Stream
  <2>3. CASE j = Len(f) + 1
    BY Zenon, <1>1, <2>1, <2>3 DEF Has
  <2> QED BY Zenon, <1>2, <2>2, <2>3
<1>5. ASSUME NEW i \in DOMAIN g PROVE g[i].token # "other" /\ (g[i].token = "case" => g[i].input = n)
  BY Zenon, <1>1, <1>2 DEF Stream
<1>6. Stream(g, n)
  BY Zenon, <1>4, <1>5 DEF Stream
<1> QED BY Zenon, <1>3, <1>6 DEF g

-----------------------------------------------------------------------------
(* Where an obedient host and the main loop stand towards each other.             *)

SessionTypes ==
  /\ lines \in Seq(LineType) /\ out \in Seq(LineType) /\ stdin \in Seq(Nat)
  /\ submitted \in Nat /\ executed \in Nat /\ reported \in Nat /\ busyWith \in Nat

EndIfSent == IF endSent THEN <<End>> ELSE <<>>
Drained == ~Has(Flight, "case") /\ ~Has(Flight, "NEED_RECORD") /\ ~Has(Flight, "summary")
Turn ==
  \/ /\ turn = "ready" /\ stdin = EndIfSent /\ submitted = reported
     /\ ~Has(Flight, "NEED_RECORD") /\ ~Has(Flight, "summary")
  \/ /\ turn = "asked" /\ stdin = EndIfSent /\ submitted = reported
     /\ ~Has(Flight, "summary")
  \/ turn = "asked" /\ stdin = <<submitted>> \o EndIfSent /\ submitted = reported + 1 /\ Drained
  \/ /\ turn = "busy" /\ stdin = EndIfSent /\ submitted = reported + 1 /\ busyWith = submitted
     /\ Drained
  \/ /\ turn = "ended" /\ stdin = <<>> /\ endSent /\ submitted = reported
     /\ ~Has(Flight, "summary")
  \/ turn = "quiet" /\ stdin = <<>> /\ endSent /\ submitted = reported

Conversation ==
  /\ Turn
  /\ Stream(Flight, submitted)
  /\ reported = IF Has(Flight, "case") THEN executed + 1 ELSE executed
  /\ ~mixedUp
  /\ summary => turn = "quiet" /\ Drained
  /\ Has(Flight, "EOF") => reader = "done"
\* Or the reader ended before the summary, which then is never read.
Cut == reader = "done" /\ ~summary /\ ~Has(lines, "summary")
Talking == obedient /\ ~error => Conversation \/ Cut

Ending ==
  /\ budgetReached \in {"none", "cases", "seconds"}
  /\ budgetReached = "cases" => Enough(executed)
  /\ budgetReached = "seconds" => late
  /\ stop /\ ~error => budgetReached # "none"
  /\ phase = "done" => host = "exited"
  /\ status # "none" => phase = "done"

LEMMA SomethingPrinted ==
  ASSUME SessionTypes, NEW token \in Tokens, NEW k \in Nat, Prints(token, k), lines' = lines
  PROVE  /\ Flight' = Append(Flight, Line(token, k)) /\ Flight \in Seq(LineType)
         /\ Line(token, k) \in LineType /\ Line(token, k).token = token /\ Line(token, k).input = k
         /\ out' \in Seq(LineType) /\ reported' \in Nat
<1>1. Line(token, k) \in LineType /\ Line(token, k).token = token /\ Line(token, k).input = k
  BY Zenon DEF Line, LineType
<1>2. out' = Append(out, Line(token, k)) /\ out' \in Seq(LineType)
  BY <1>1 DEF Prints, SessionTypes
<1>3. reported' \in Nat
  BY DEF Prints, SessionTypes
<1> QED BY <1>1, <1>2, <1>3, Printed DEF Flight, SessionTypes

LEMMA StreamGrows ==
  ASSUME SessionTypes, NEW token \in Tokens \ {"other"}, NEW k \in Nat, Prints(token, k), lines' = lines,
         NEW n, Stream(Flight, n), token = "case" => k = n,
         \A t : Has(Flight, t) => token \in After(t)
  PROVE  Stream(Flight', n) /\ \A t : Has(Flight', t) <=> Has(Flight, t) \/ t = token
<1> DEFINE f == Flight
           x == Line(token, k)
<1>1. /\ Flight' = Append(f, x) /\ f \in Seq(LineType)
      /\ x \in LineType /\ x.token = token /\ x.input = k
  BY Zenon, SomethingPrinted
<1>2. Stream(f, n) /\ \A t : Has(f, t) => token \in After(t)
  BY Zenon
<1>3. \A t : Has(Flight, t) <=> Has(f, t)
  BY Zenon
<1> HIDE DEF f, x
<1>4. Stream(Append(f, x), n) /\ \A t : Has(Append(f, x), t) <=> Has(f, t) \/ t = x.token
  BY Zenon, <1>1, <1>2, StreamPrinted
<1> QED BY Zenon, <1>1, <1>3, <1>4

LEMMA SomethingTaken ==
  ASSUME SessionTypes, NEW token, Took(token), out' = out
  PROVE  /\ Flight' = Tail(Flight) /\ Flight \in Seq(LineType) /\ Flight # <<>>
         /\ Head(Flight) = Head(lines) /\ Head(Flight).token = token
         /\ lines' \in Seq(LineType)
<1>1. lines # <<>> /\ lines' = Tail(lines) /\ Head(lines).token = token
  BY Zenon DEF Took
<1> QED BY <1>1, Taken DEF SessionTypes, Flight

LEMMA SessionTypesKept ==
  ASSUME SessionTypes, Sending, Next
  PROVE  SessionTypes'
<1>1. CASE Host
  <2>0. UNCHANGED <<lines, submitted, executed>>
    BY Zenon, <1>1 DEF Host, counts
  <2>1. ASSUME NEW token \in Tokens, NEW k \in Nat, Prints(token, k), UNCHANGED <<busyWith, stdin>>
        PROVE  SessionTypes'
    BY Zenon, <2>0, <2>1, SomethingPrinted DEF SessionTypes
  <2>2. CASE HostReads
    BY <2>0, <2>2 DEF HostReads, SessionTypes
  <2>3. CASE HostEnds
    BY Zenon, <2>0, <2>3 DEF HostEnds, SessionTypes
  <2>4. CASE HostAsks
    BY Zenon, <2>1, <2>4 DEF HostAsks, Tokens
  <2>5. CASE HostReports
    BY Zenon, <2>1, <2>5 DEF HostReports, Tokens, SessionTypes
  <2>6. CASE HostSums
    BY Zenon, <2>1, <2>6 DEF HostSums, Tokens
  <2>7. CASE HostRambles
    BY Zenon, <2>1, <2>7 DEF HostRambles, Tokens
  <2> QED BY Zenon, <1>1, <2>2, <2>3, <2>4, <2>5, <2>6, <2>7 DEF Host
<1>2. CASE Reader
  <2>0. UNCHANGED <<stdin, submitted, executed, reported, busyWith>>
    BY Zenon, <1>2 DEF Reader, hostVars, counts
  <2>1. CASE Pump
    BY <2>0, <2>1 DEF Pump, SessionTypes
  <2>2. CASE PumpEnds
    <3>1. Eof \in LineType
      BY Zenon DEF Eof, LineType, Tokens
    <3> QED BY <2>0, <2>2, <3>1 DEF PumpEnds, SessionTypes
  <2> QED BY Zenon, <1>2, <2>1, <2>2 DEF Reader
<1>3. CASE DeadlinePasses \/ Close
  BY Zenon, <1>3 DEF DeadlinePasses, Close, hostVars, pipes, counts, SessionTypes
<1>4. CASE Loop
  <2>0. UNCHANGED <<out, reported, busyWith>>
    BY Zenon, <1>4 DEF Loop, hostVars
  <2>1. lines' \in Seq(LineType)
    <3>1. CASE TakeNeed \/ TakeCase \/ TakeSummary \/ TakeOther \/ TakeEof
      BY Zenon, <2>0, <3>1, SomethingTaken DEF TakeNeed, TakeCase, TakeSummary, TakeOther, TakeEof
    <3>2. CASE TimeUp \/ Stall
      BY Zenon, <3>2 DEF TimeUp, Stall, SessionTypes
    <3> QED BY Zenon, <1>4, <3>1, <3>2 DEF Loop
  <2>2. executed' \in Nat
    <3>1. CASE TakeCase
      BY <3>1 DEF TakeCase, SessionTypes
    <3>2. CASE ~TakeCase
      BY Zenon, <1>4, <3>2 DEF Loop, TakeNeed, TakeSummary, TakeOther, TakeEof, TimeUp, Stall, counts, SessionTypes
    <3> QED BY Zenon, <3>1, <3>2
  <2>3. submitted' \in Nat
    BY Zenon, SendingKept DEF Sending
  <2>4. stdin' \in Seq(Nat)
    <3>1. ASSUME NEW failed, SendEnd(failed) PROVE stdin' \in Seq(Nat)
      <4>1. stdin' = stdin \/ stdin' = stdin \o <<End>>
        BY Zenon, <3>1 DEF SendEnd, Send
      <4>2. stdin \o <<End>> \in Seq(Nat)
        BY DEF SessionTypes, End
      <4> QED BY Zenon, <4>1, <4>2 DEF SessionTypes
    <3>2. CASE TakeNeed
      <4>1. ASSUME NEW ms \in Seq(Nat), Send(ms) PROVE stdin' \in Seq(Nat)
        BY <4>1 DEF Send, SessionTypes
      <4>2. <<submitted + 1>> \o (IF submitted + 1 - executed > MaxUnanswered THEN <<End>> ELSE <<>>) \in Seq(Nat)
        BY DEF SessionTypes, End
      <4>3. CASE UNCHANGED stdin
        BY Zenon, <4>3 DEF SessionTypes
      <4> QED BY Zenon, <3>1, <3>2, <4>1, <4>2, <4>3 DEF TakeNeed
    <3>3. CASE TimeUp
      BY ZenonT(60), <3>1, <3>3 DEF TimeUp
    <3>4. CASE ~TakeNeed /\ ~TimeUp
      BY Zenon, <1>4, <3>4 DEF Loop, TakeCase, TakeSummary, TakeOther, TakeEof, Stall, SessionTypes
    <3> QED BY Zenon, <3>2, <3>3, <3>4
  <2> QED BY Zenon, <2>0, <2>1, <2>2, <2>3, <2>4 DEF SessionTypes
<1> QED BY Zenon, <1>1, <1>2, <1>3, <1>4 DEF Next

LEMMA HostTalks ==
  ASSUME SessionTypes, Conversation, obedient, Host
  PROVE  Conversation'
<1>0. UNCHANGED <<lines, reader, endSent, summary, submitted, executed, mixedUp>>
  BY Zenon DEF Host, flags, counts
<1>1. ASSUME reader = "pumping" PROVE ~Has(Flight, "EOF")
  BY Zenon, <1>1 DEF Conversation
<1>2. \A t : Has(Flight, t) => t \in {"case", "NEED_RECORD", "summary", "EOF"}
  <2>1. \A i \in DOMAIN Flight : Flight[i].token \in Tokens
    <3>1. Flight \in Seq(LineType)
      BY DEF SessionTypes, Flight
    <3>2. \A i \in DOMAIN Flight : Flight[i] \in LineType
      BY <3>1
    <3> QED BY Zenon, <3>2 DEF LineType
  <2> QED BY Zenon, <2>1 DEF Has, Conversation, Stream, Tokens
<1>3. CASE HostAsks
  <2>1. Prints("NEED_RECORD", 0) /\ turn = "ready" /\ turn' = "asked" /\ UNCHANGED <<stdin, busyWith>>
    BY Zenon, <1>3 DEF HostAsks
  <2>2. reported' = reported /\ reader = "pumping"
    BY Zenon, <2>1 DEF Prints
  <2>3. ~Has(Flight, "NEED_RECORD") /\ ~Has(Flight, "summary") /\ stdin = EndIfSent /\ submitted = reported
    BY Zenon, <2>1 DEF Conversation, Turn
  <2>4. \A t : Has(Flight, t) => "NEED_RECORD" \in After(t)
    BY Zenon, <1>1, <1>2, <2>2, <2>3 DEF After
  <2>5. Stream(Flight', submitted') /\ \A t : Has(Flight', t) <=> Has(Flight, t) \/ t = "NEED_RECORD"
    BY Zenon, <1>0, <2>1, <2>4, StreamGrows DEF Tokens, Conversation
  <2>6. Turn'
    BY Zenon, <1>0, <2>1, <2>2, <2>3, <2>5 DEF Turn, EndIfSent
  <2> QED BY Zenon, <1>0, <2>1, <2>2, <2>5, <2>6 DEF Conversation
<1>4. CASE HostReads
  <2>1. /\ turn = "asked" /\ stdin # <<>> /\ stdin' = Tail(stdin) /\ busyWith' = Head(stdin)
        /\ turn' = IF Head(stdin) = End THEN "ended" ELSE "busy"
        /\ UNCHANGED <<reported, out>>
    BY Zenon, <1>4 DEF HostReads
  <2>2. Flight' = Flight
    BY Zenon, <1>0, <2>1 DEF Flight
  <2>3. CASE stdin = EndIfSent /\ submitted = reported /\ ~Has(Flight, "summary")
    <3>1. endSent /\ stdin = <<End>>
      BY Zenon, <2>1, <2>3 DEF EndIfSent
    <3>2. stdin' = <<>> /\ turn' = "ended"
      BY <2>1, <3>1
    <3>3. Turn'
      BY Zenon, <1>0, <2>1, <2>2, <2>3, <3>1, <3>2 DEF Turn
    <3> QED BY Zenon, <1>0, <2>1, <2>2, <3>3 DEF Conversation
  <2>4. CASE stdin = <<submitted>> \o EndIfSent /\ submitted = reported + 1 /\ Drained
    <3>1. stdin' = EndIfSent /\ busyWith' = submitted
      <4>1. CASE endSent
        <5>1. <<submitted>> \in Seq(Nat) /\ <<submitted>> # <<>> /\ <<End>> \in Seq(Nat)
              /\ Head(<<submitted>>) = submitted /\ Tail(<<submitted>>) = <<>> /\ <<>> \o <<End>> = <<End>>
          BY DEF SessionTypes, End
        <5>2. Head(stdin) = submitted /\ Tail(stdin) = <<End>>
          BY ZenonT(30), <2>4, <4>1, <5>1, Taken DEF EndIfSent
        <5> QED BY Zenon, <2>1, <4>1, <5>2 DEF EndIfSent
      <4>2. CASE ~endSent
        BY <2>1, <2>4, <4>2 DEF EndIfSent
      <4> QED BY Zenon, <4>1, <4>2
    <3>2. Head(stdin) # End
      BY <2>1, <2>4, <3>1 DEF End, SessionTypes
    <3>3. Turn'
      BY Zenon, <1>0, <2>1, <2>2, <2>4, <3>1, <3>2 DEF Turn, EndIfSent, Drained
    <3> QED BY Zenon, <1>0, <2>1, <2>2, <3>3 DEF Conversation
  <2> QED BY Zenon, <2>1, <2>3, <2>4 DEF Conversation, Turn
<1>5. CASE HostReports
  <2>1. Prints("case", busyWith) /\ turn = "busy" /\ turn' = "ready" /\ UNCHANGED <<stdin, busyWith>>
    BY Zenon, <1>5 DEF HostReports
  <2>2. stdin = EndIfSent /\ submitted = reported + 1 /\ busyWith = submitted /\ Drained
    BY Zenon, <2>1 DEF Conversation, Turn
  <2>3. reported' = reported + 1 /\ reader = "pumping"
    BY Zenon, <2>1 DEF Prints
  <2>4. \A t : ~Has(Flight, t)
    BY Zenon, <1>1, <1>2, <2>2, <2>3 DEF Drained
  <2>5. Stream(Flight', submitted') /\ \A t : Has(Flight', t) <=> Has(Flight, t) \/ t = "case"
    BY Zenon, <1>0, <2>1, <2>2, <2>4, StreamGrows DEF Tokens, Conversation, SessionTypes
  <2>6. Turn'
    BY Zenon, <1>0, <2>1, <2>2, <2>3, <2>4, <2>5 DEF Turn, EndIfSent
  <2> QED BY Zenon, <1>0, <2>1, <2>3, <2>4, <2>5, <2>6 DEF Conversation
<1>6. CASE HostSums
  <2>1. Prints("summary", 0) /\ turn = "ended" /\ turn' = "quiet" /\ UNCHANGED <<stdin, busyWith>>
    BY Zenon, <1>6 DEF HostSums
  <2>2. reported' = reported /\ reader = "pumping"
    BY Zenon, <2>1 DEF Prints
  <2>3. ~Has(Flight, "summary") /\ stdin = <<>> /\ endSent /\ submitted = reported
    BY Zenon, <2>1 DEF Conversation, Turn
  <2>4. \A t : Has(Flight, t) => "summary" \in After(t)
    BY Zenon, <1>1, <1>2, <2>2, <2>3 DEF After
  <2>5. Stream(Flight', submitted') /\ \A t : Has(Flight', t) <=> Has(Flight, t) \/ t = "summary"
    BY Zenon, <1>0, <2>1, <2>4, StreamGrows DEF Tokens, Conversation
  <2>6. Turn'
    BY Zenon, <1>0, <2>1, <2>2, <2>3 DEF Turn
  <2> QED BY Zenon, <1>0, <2>1, <2>2, <2>5, <2>6 DEF Conversation
<1>7. CASE HostEnds
  <2>1. UNCHANGED <<turn, busyWith, reported, stdin, Flight>>
    BY Zenon, <1>0, <1>7 DEF HostEnds, Flight
  <2> QED BY Zenon, <1>0, <2>1 DEF Conversation, Turn, Drained, EndIfSent
<1> QED BY Zenon, <1>3, <1>4, <1>5, <1>6, <1>7 DEF Host, HostRambles

LEMMA ReaderTalks ==
  ASSUME SessionTypes, Conversation, Reader
  PROVE  Conversation' \/ Cut'
<1>0. UNCHANGED <<turn, busyWith, reported, stdin, endSent, summary, submitted, executed, mixedUp>>
  BY Zenon DEF Reader, hostVars, flags, counts
<1>1. CASE UNCHANGED Flight /\ (reader = "done" => reader' = "done")
  BY Zenon, <1>0, <1>1 DEF Conversation, Turn, Drained, EndIfSent
<1>2. CASE Pump
  <2>1. Flight' = Flight
    BY Zenon, <1>2, Pumped DEF Pump, Flight, SessionTypes
  <2> QED BY Zenon, <1>1, <1>2, <2>1 DEF Pump
<1>3. CASE PumpEnds /\ out = <<>>
  <2>1. reader = "pumping" /\ reader' = "done" /\ out = <<>> /\ out' = out
    BY Zenon, <1>3 DEF PumpEnds
  <2>2. CASE lines' = lines
    BY Zenon, <1>1, <2>1, <2>2 DEF Flight
  <2>3. CASE lines' = Append(lines, Eof)
    <3> DEFINE f == Flight
    <3>1. f \in Seq(LineType) /\ Eof \in LineType /\ Eof.token = "EOF"
      BY DEF Eof, LineType, Tokens, Flight, SessionTypes
    <3>2. Flight' = Append(f, Eof)
      BY <2>1, <2>3, <3>1 DEF Flight, SessionTypes
    <3>3. \A t : Has(f, t) => "EOF" \in After(t)
      <4>1. \A t : Has(f, t) => t \in Tokens
        <5>1. \A i \in DOMAIN f : f[i] \in LineType
          BY <3>1
        <5> QED BY Zenon, <5>1 DEF Has, LineType
      <4>2. \A t : Has(f, t) => t # "other"
        BY Zenon DEF Has, Conversation, Stream
      <4>3. ~Has(f, "EOF")
        BY Zenon, <2>1 DEF Conversation
      <4> QED BY Zenon, <4>1, <4>2, <4>3 DEF Tokens, After
    <3>4. Stream(f, submitted)
      BY Zenon DEF Conversation
    <3>5. /\ ~Has(f, "NEED_RECORD") <=> ~Has(Flight, "NEED_RECORD")
          /\ ~Has(f, "summary") <=> ~Has(Flight, "summary")
          /\ ~Has(f, "case") <=> ~Has(Flight, "case")
      BY Zenon
    <3> HIDE DEF f
    <3>6. Stream(Flight', submitted) /\ \A t : Has(Flight', t) <=> Has(f, t) \/ t = "EOF"
      BY <3>1, <3>2, <3>3, <3>4, StreamPrinted
    <3>7. /\ Has(Flight', "NEED_RECORD") <=> Has(Flight, "NEED_RECORD")
          /\ Has(Flight', "summary") <=> Has(Flight, "summary")
          /\ Has(Flight', "case") <=> Has(Flight, "case")
      BY Zenon, <3>5, <3>6
    <3>8. Turn'
      BY Zenon, <1>0, <3>7 DEF Conversation, Turn, Drained, EndIfSent
    <3> QED BY Zenon, <1>0, <2>1, <3>6, <3>7, <3>8 DEF Conversation, Drained
  <2> QED BY Zenon, <1>3, <2>2, <2>3 DEF PumpEnds
<1>4. CASE PumpEnds /\ out # <<>>
  <2>1. /\ reader = "pumping" /\ reader' = "done"
        /\ lines' = lines \/ lines' = Append(lines, Eof)
    BY Zenon, <1>4 DEF PumpEnds
  <2> DEFINE n == Len(lines) + 1
  <2>2. /\ n \in DOMAIN Flight /\ Flight[n] \in LineType
        /\ \A i \in DOMAIN lines : i \in DOMAIN Flight /\ i < n /\ Flight[i] = lines[i]
    BY <1>4, Joined DEF SessionTypes, Flight
  <2> HIDE DEF n
  <2>3. Flight[n].token \in {"NEED_RECORD", "case", "summary"}
    <3>1. Flight[n].token \in Tokens /\ Flight[n].token # "other" /\ Flight[n].token # "EOF"
      BY <2>1, <2>2 DEF Conversation, Stream, Has, LineType
    <3> QED BY Zenon, <3>1 DEF Tokens
  <2>4. ~summary
    BY Zenon, <2>2, <2>3 DEF Conversation, Drained, Has
  <2>5. ~Has(lines, "summary")
    <3>1. ASSUME NEW i \in DOMAIN lines, lines[i].token = "summary" PROVE FALSE
      <4>1. Flight[n].token \in After("summary")
        BY Zenon, <2>2, <3>1 DEF Conversation, Stream
      <4> QED BY <2>3, <4>1 DEF After
    <3> QED BY Zenon, <3>1 DEF Has
  <2>6. ~Has(lines', "summary")
    <3>1. CASE lines' = Append(lines, Eof)
      <4>1. \A i \in DOMAIN lines' : lines'[i] = Eof \/ (i \in DOMAIN lines /\ lines'[i] = lines[i])
        BY <3>1 DEF SessionTypes
      <4> QED BY <2>5, <4>1 DEF Has, Eof
    <3> QED BY Zenon, <2>1, <2>5, <3>1
  <2> QED BY Zenon, <1>0, <2>1, <2>4, <2>6 DEF Cut
<1> QED BY Zenon, <1>2, <1>3, <1>4 DEF Reader

\* What was cut off does not come.
LEMMA CutKept ==
  ASSUME SessionTypes, Cut, Next
  PROVE  Cut'
<1>0. ASSUME UNCHANGED <<reader, summary>>, \A s : Has(lines', s) => Has(lines, s) PROVE Cut'
  BY Zenon, <1>0 DEF Cut
<1>1. CASE Host \/ DeadlinePasses \/ Close
  <2>1. UNCHANGED <<lines, reader, summary>>
    BY Zenon, <1>1 DEF Host, DeadlinePasses, Close, pipes, flags
  <2> QED BY Zenon, <1>0, <2>1
<1>2. CASE Reader
  BY Zenon, <1>2 DEF Reader, Pump, PumpEnds, Cut
<1>3. ASSUME NEW token, Took(token)
      PROVE  Has(lines, token) /\ \A s : Has(lines', s) => Has(lines, s)
  <2>1. lines # <<>> /\ Head(lines).token = token /\ lines' = Tail(lines)
    BY Zenon, <1>3 DEF Took
  <2>2. 1 \in DOMAIN lines /\ Head(lines) = lines[1]
        /\ \A i \in DOMAIN Tail(lines) : i + 1 \in DOMAIN lines /\ Tail(lines)[i] = lines[i + 1]
    BY <2>1 DEF SessionTypes
  <2> QED BY Zenon, <2>1, <2>2 DEF Has
<1>4. CASE Loop
  <2>1. reader' = reader
    BY Zenon, <1>4 DEF Loop
  <2>2. CASE TakeSummary
    BY Zenon, <1>3, <2>2 DEF TakeSummary, Cut
  <2>3. CASE TakeNeed \/ TakeCase \/ TakeOther \/ TakeEof
    <3>1. summary' = summary /\ \E token : Took(token)
      BY Zenon, <2>3 DEF TakeNeed, TakeCase, TakeOther, TakeEof, flags
    <3> QED BY Zenon, <1>0, <1>3, <2>1, <3>1
  <2>4. CASE TimeUp \/ Stall
    <3>1. UNCHANGED <<lines, summary>>
      BY Zenon, <2>4 DEF TimeUp, Stall
    <3> QED BY Zenon, <1>0, <2>1, <3>1
  <2> QED BY Zenon, <1>4, <2>2, <2>3, <2>4 DEF Loop
<1> QED BY Zenon, <1>1, <1>2, <1>4 DEF Next

\* A line taken, as far as Turn can tell: what was not on its way before is not now.
LEMMA TurnStays ==
  ASSUME Turn, UNCHANGED <<turn, busyWith, reported, stdin, endSent, submitted>>,
         \A t : Has(Flight', t) => Has(Flight, t)
  PROVE  Turn'
BY Zenon DEF Turn, Drained, EndIfSent

LEMMA CaseTaken ==
  ASSUME SessionTypes, Conversation, TakeCase, out' = out,
         UNCHANGED <<turn, busyWith, reported, reader>>, ~error'
  PROVE  Conversation'
<1> DEFINE f == Flight
<1>0. UNCHANGED <<stdin, endSent, submitted, summary>> /\ executed' = executed + 1
  BY Zenon DEF TakeCase
<1>1. /\ Flight' = Tail(f) /\ f \in Seq(LineType) /\ f # <<>>
      /\ Head(f) = Head(lines) /\ Head(f).token = "case"
  BY Zenon, SomethingTaken DEF TakeCase
<1>2. Stream(f, submitted)
  BY Zenon DEF Conversation
<1>3. \A t : Has(f, t) <=> Has(Flight, t)
  BY ZenonT(60)
<1> HIDE DEF f
<1>4. /\ \A t : Has(Flight', t) => t \in After("case") /\ Has(Flight, t)
      /\ Has(Flight, "case") /\ Head(lines).input = submitted
      /\ Stream(Flight', submitted')
  <2>1. /\ \A t : Has(Tail(f), t) => t \in After(Head(f).token) /\ Has(f, t)
        /\ Has(f, Head(f).token) /\ Head(f).input = submitted /\ Stream(Tail(f), submitted)
    BY Zenon, <1>1, <1>2, StreamTaken
  <2> QED BY Zenon, <1>0, <1>1, <1>3, <2>1
<1>5. ~Has(Flight', "case") /\ Turn'
  BY <1>0, <1>4, TurnStays DEF After, Conversation
<1>6. ~mixedUp'
  <2>1. mixedUp' = (mixedUp \/ Head(lines).input # submitted)
    BY Zenon DEF TakeCase
  <2> QED BY Zenon, <1>4, <2>1 DEF Conversation
<1>7. reported' = executed'
  BY Zenon, <1>0, <1>4 DEF Conversation
<1>8. (summary' => turn' = "quiet" /\ Drained') /\ (Has(Flight', "EOF") => reader' = "done")
  BY Zenon, <1>0, <1>4 DEF Conversation, Drained
<1> QED BY Zenon, <1>4, <1>5, <1>6, <1>7, <1>8 DEF Conversation

LEMMA NeedTaken ==
  ASSUME SessionTypes, Sending, Conversation, TakeNeed, out' = out,
         UNCHANGED <<turn, busyWith, reported, reader>>, ~error'
  PROVE  Conversation'
<1> DEFINE f == Flight
<1>0. UNCHANGED <<executed, mixedUp, summary>>
  BY Zenon DEF TakeNeed
<1>1. Flight' = Tail(f) /\ f \in Seq(LineType) /\ f # <<>> /\ Head(f).token = "NEED_RECORD"
  BY Zenon, SomethingTaken DEF TakeNeed
<1>2. Stream(f, submitted)
  BY Zenon DEF Conversation
<1>3. \A t : Has(f, t) <=> Has(Flight, t)
  BY Zenon
<1> HIDE DEF f
<1>4. /\ \A t : Has(Flight', t) => t \in After("NEED_RECORD") /\ Has(Flight, t)
      /\ \A t : Has(Flight, t) => t = "NEED_RECORD" \/ Has(Flight', t)
      /\ Has(Flight, "NEED_RECORD")
  <2>1. /\ \A t : Has(Tail(f), t) => t \in After(Head(f).token) /\ Has(f, t)
        /\ \A t : Has(f, t) => t = Head(f).token \/ Has(Tail(f), t)
        /\ Has(f, Head(f).token)
    BY Zenon, <1>1, <1>2, StreamTaken
  <2> QED BY Zenon, <1>1, <1>3, <2>1
<1>5. ~Has(Flight', "case") /\ ~Has(Flight', "NEED_RECORD") /\ ~Has(Flight, "case") /\ Stream(Flight', submitted')
  <2>1. ~Has(Flight', "case") /\ ~Has(Flight', "NEED_RECORD") /\ ~Has(Flight, "case")
    BY <1>4 DEF After
  <2>2. ~Has(Tail(f), "case")
    BY Zenon, <1>1, <2>1
  <2>3. Stream(Tail(f), submitted')
    BY Zenon, <1>1, <1>2, <2>2, StreamTaken
  <2> QED BY Zenon, <1>1, <2>1, <2>3
<1>6. reported = executed /\ ~summary
  BY Zenon, <1>4, <1>5 DEF Conversation, Drained
<1>7. /\ Stream(Flight', submitted') /\ ~mixedUp' /\ ~summary'
      /\ reported' = IF Has(Flight', "case") THEN executed' + 1 ELSE executed'
      /\ Has(Flight', "EOF") => reader' = "done"
  BY Zenon, <1>0, <1>4, <1>5, <1>6 DEF Conversation
<1>8. CASE stop /\ endSent
  <2>1. UNCHANGED <<stdin, endSent, stop, submitted>>
    BY Zenon, <1>8 DEF TakeNeed, SendEnd
  <2>2. Turn'
    BY Zenon, <1>4, <2>1, TurnStays DEF Conversation
  <2> QED BY Zenon, <1>0, <1>7, <2>1, <2>2 DEF Conversation
<1>9. CASE ~endSent
  <2>0. turn = "asked" /\ stdin = <<>> /\ submitted = reported /\ ~Has(Flight, "summary")
    BY Zenon, <1>4, <1>9 DEF Conversation, Turn, EndIfSent, Drained
  <2>1. CASE stop /\ SendEnd(FALSE) /\ UNCHANGED <<stop, submitted>>
    <3>1. ~Gone /\ Send(<<End>>) /\ endSent'
      BY Zenon, <1>9, <2>1 DEF SendEnd
    <3>2. stdin' = <<End>>
      BY <2>0, <3>1 DEF Send
    <3>3. Turn'
      BY Zenon, <1>4, <2>0, <2>1, <3>1, <3>2 DEF Turn, EndIfSent
    <3> QED BY Zenon, <1>0, <1>7, <2>1, <3>3 DEF Conversation
  <2>2. CASE /\ ~stop /\ ~Gone
             /\ Send(<<submitted + 1>> \o IF submitted + 1 - executed > MaxUnanswered THEN <<End>> ELSE <<>>)
             /\ submitted' = submitted + 1
             /\ stop' = (submitted + 1 - executed > MaxUnanswered)
             /\ endSent' = (submitted + 1 - executed > MaxUnanswered)
             /\ error' = (error \/ (submitted + 1 - executed > MaxUnanswered))
    <3>1. ~(submitted + 1 - executed > MaxUnanswered)
      BY Zenon, <2>2
    <3>2. ~endSent' /\ stdin' = stdin \o (<<submitted + 1>> \o <<>>)
      BY ZenonT(30), <2>2, <3>1 DEF Send
    <3>3. stdin' = <<submitted'>> \o EndIfSent' /\ submitted' = reported' + 1
      BY <2>0, <2>2, <3>2 DEF EndIfSent
    <3>4. ~Has(Flight', "summary")
      BY Zenon, <1>4, <2>0
    <3>5. Turn'
      BY Zenon, <1>5, <2>0, <3>3, <3>4 DEF Turn, Drained
    <3> QED BY Zenon, <1>7, <3>5 DEF Conversation
  <2>3. ~(~stop /\ SendEnd(TRUE)) /\ error' # TRUE
    BY Zenon DEF SendEnd
  <2> QED BY ZenonT(60), <2>1, <2>2, <2>3 DEF TakeNeed
<1> QED BY Zenon, <1>8, <1>9 DEF Sending

LEMMA LoopTalks ==
  ASSUME SessionTypes, Sending, Conversation, Loop, ~error'
  PROVE  Conversation'
<1>0. UNCHANGED <<turn, busyWith, reported, reader, out>>
  BY Zenon DEF Loop, hostVars
<1>1. CASE TakeCase
  BY Zenon, <1>0, <1>1, CaseTaken
<1>2. CASE TakeNeed
  BY Zenon, <1>0, <1>2, NeedTaken
<1>3. ASSUME NEW token, Took(token),
             UNCHANGED <<stdin, endSent, submitted, executed, mixedUp, stop>>,
             token # "case", (summary' = summary) \/ token = "summary"
      PROVE  token # "other" /\ Conversation'
  <2> DEFINE f == Flight
  <2>1. Flight' = Tail(f) /\ f \in Seq(LineType) /\ f # <<>> /\ Head(f).token = token
    BY Zenon, <1>0, <1>3, SomethingTaken
  <2>2. Stream(f, submitted)
    BY Zenon DEF Conversation
  <2>3. \A t : Has(f, t) <=> Has(Flight, t)
    BY Zenon
  <2> HIDE DEF f
  <2>4. /\ \A t : Has(Flight', t) => t \in After(token) /\ Has(Flight, t)
        /\ \A t : Has(Flight, t) => t = token \/ Has(Flight', t)
        /\ Has(Flight, token) /\ token # "other"
        /\ Stream(Flight', submitted)
    BY ZenonT(60), <2>1, <2>2, <2>3, StreamTaken
  <2>5. Turn'
    BY Zenon, <1>0, <1>3, <2>4, TurnStays DEF Conversation
  <2>6. Has(Flight', "case") <=> Has(Flight, "case")
    BY Zenon, <1>3, <2>4
  <2>7. summary' => turn' = "quiet" /\ Drained'
    <3>1. CASE summary' = summary
      BY Zenon, <1>0, <2>4, <3>1 DEF Conversation, Drained
    <3>2. CASE token = "summary"
      BY <1>0, <2>4, <3>2 DEF Conversation, Turn, Drained, After
    <3> QED BY ZenonT(60), <1>3, <3>1, <3>2
  <2> QED BY Zenon, <1>0, <1>3, <2>4, <2>5, <2>6, <2>7 DEF Conversation
<1>4. CASE TakeSummary \/ TakeOther \/ TakeEof
  BY Zenon, <1>3, <1>4 DEF TakeSummary, TakeOther, TakeEof, flags, counts
<1>5. CASE TimeUp
  <2>1. UNCHANGED <<lines, summary, submitted, executed, mixedUp, Flight>> /\ stop'
    BY Zenon, <1>0, <1>5 DEF TimeUp, Flight
  <2>2. ~endSent /\ ~Gone /\ Send(<<End>>) /\ endSent'
    BY Zenon, <1>5 DEF TimeUp, Sending, SendEnd
  <2>3. stdin' = stdin \o <<End>>
    BY Zenon, <2>2 DEF Send
  <2>4. CASE stdin = EndIfSent
    <3>1. stdin' = EndIfSent'
      BY <2>2, <2>3, <2>4 DEF EndIfSent
    <3>2. Turn'
      BY <1>0, <2>1, <2>2, <2>4, <3>1 DEF Conversation, Turn, Drained, EndIfSent
    <3> QED BY Zenon, <1>0, <2>1, <3>2 DEF Conversation, Drained
  <2>5. CASE stdin = <<submitted>> \o EndIfSent
    <3>1. stdin' = <<submitted'>> \o EndIfSent' /\ stdin # EndIfSent /\ stdin # <<>>
      BY <2>1, <2>2, <2>3, <2>5 DEF EndIfSent, SessionTypes
    <3>2. Turn'
      BY Zenon, <1>0, <2>1, <2>2, <3>1 DEF Conversation, Turn, Drained
    <3> QED BY Zenon, <1>0, <2>1, <3>2 DEF Conversation, Drained
  <2> QED BY Zenon, <2>2, <2>4, <2>5 DEF Conversation, Turn
<1>6. CASE Stall
  BY Zenon, <1>6 DEF Stall
<1> QED BY Zenon, <1>1, <1>2, <1>4, <1>5, <1>6 DEF Loop

LEMMA TalkingKept ==
  ASSUME SessionTypes, Sending, Talking, Next
  PROVE  Talking'
<1> SUFFICES ASSUME obedient', ~error', ~Cut PROVE Conversation' \/ Cut'
  BY Zenon, CutKept DEF Talking
<1>1. CASE Host \/ Reader
  <2>1. obedient /\ ~error
    <3>1. obedient' = obedient /\ error' = error
      BY Zenon, <1>1 DEF Host, Reader, hostVars, flags
    <3> QED BY Zenon, <3>1
  <2> QED BY Zenon, <1>1, <2>1, HostTalks, ReaderTalks DEF Talking
<1>2. CASE Loop
  <2>1. ~error
    <3>1. CASE TakeNeed
      BY Zenon, <3>1 DEF TakeNeed, SendEnd
    <3>2. CASE TimeUp
      BY ZenonT(60), <3>2 DEF TimeUp, SendEnd
    <3>3. CASE TakeCase \/ TakeSummary \/ TakeOther \/ TakeEof \/ Stall
      BY Zenon, <3>3 DEF TakeCase, TakeSummary, TakeOther, TakeEof, Stall, flags
    <3> QED BY Zenon, <1>2, <3>1, <3>2, <3>3 DEF Loop
  <2>2. obedient
    BY Zenon, <1>2 DEF Loop, hostVars
  <2> QED BY Zenon, <1>2, <2>1, <2>2, LoopTalks DEF Talking
<1>3. CASE DeadlinePasses \/ Close
  <2>1. /\ UNCHANGED <<turn, busyWith, reported, stdin, out, lines, reader, stop, endSent, summary>>
        /\ UNCHANGED <<submitted, executed, mixedUp, obedient>>
    BY Zenon, <1>3 DEF DeadlinePasses, Close, hostVars, pipes, counts
  <2>2. ~error
    BY Zenon, <1>3 DEF DeadlinePasses, Close
  <2>3. Conversation
    BY Zenon, <2>1, <2>2 DEF Talking
  <2> QED BY ZenonT(60), <2>1, <2>3 DEF Conversation, Turn, Drained, EndIfSent, Flight
<1> QED BY Zenon, <1>1, <1>2, <1>3 DEF Next

LEMMA EndingKept ==
  ASSUME SessionTypes, Ending, Next
  PROVE  Ending'
<1>0. Cases \in Nat /\ executed \in Nat
  BY Zenon, SessionConstants DEF SessionTypes
<1>1. CASE Host
  BY Zenon, <1>1 DEF Host, HostAsks, HostReads, HostReports, HostSums, HostRambles, HostEnds, Prints, flags, counts, Ending, Enough
<1>2. CASE Reader
  BY Zenon, <1>2 DEF Reader, hostVars, flags, counts, Ending, Enough
<1>3. CASE DeadlinePasses
  BY Zenon, <1>3 DEF DeadlinePasses, hostVars, counts, Ending, Enough
<1>4. CASE Close
  BY Zenon, <1>4 DEF Close, counts, Ending, Enough
<1>5. CASE Loop
  <2>0. UNCHANGED <<limited, host, late, status>> /\ phase = "loop" /\ status = "none"
    BY Zenon, <1>5 DEF Loop, hostVars, Ending, TakeNeed, TakeCase, TakeSummary, TakeOther, TakeEof, Took, TimeUp, Stall
  <2>1. CASE TakeCase
    <3>1. CASE error' /\ UNCHANGED <<executed, budgetReached>> /\ phase' = "loop"
      BY Zenon, <2>0, <3>1 DEF Ending, Enough
    <3>2. CASE ~(error' /\ UNCHANGED <<executed, budgetReached>> /\ phase' = "loop")
      <4>1. /\ executed' = executed + 1 /\ error' = error /\ phase' = "loop"
            /\ stop' = (stop \/ Enough(executed') \/ late)
            /\ budgetReached' = IF stop THEN budgetReached
                                ELSE IF Enough(executed') THEN "cases"
                                ELSE IF late THEN "seconds" ELSE budgetReached
        BY ZenonT(60), <2>0, <2>1, <3>2 DEF TakeCase
      <4>2. Enough(executed) => Enough(executed')
        BY <1>0, <4>1 DEF Enough
      <4>4. Enough(executed)' = Enough(executed')
        BY Zenon, <2>0 DEF Enough
      <4> HIDE DEF Enough
      <4> QED BY Zenon, <2>0, <4>1, <4>2, <4>4 DEF Ending
    <3> QED BY Zenon, <3>1, <3>2
  <2>2. CASE TimeUp
    BY Zenon, <2>0, <2>2 DEF TimeUp, Ending, Enough
  <2>3. CASE TakeNeed
    <3>1. UNCHANGED <<executed, budgetReached, phase>> /\ (stop' /\ ~error' => stop /\ ~error)
      BY ZenonT(60), <2>3 DEF TakeNeed, SendEnd
    <3> QED BY Zenon, <2>0, <3>1 DEF Ending, Enough
  <2>4. CASE TakeSummary \/ TakeOther \/ TakeEof \/ Stall
    <3>1. UNCHANGED <<executed, budgetReached, stop>> /\ (~error' => ~error) /\ phase' \in {"loop", "closing"}
      <4>1. CASE TakeSummary \/ TakeOther
        BY <2>0, <4>1 DEF TakeSummary, TakeOther, flags, counts
      <4>2. CASE TakeEof \/ Stall
        BY <2>0, <4>2 DEF TakeEof, Stall, flags, counts
      <4> QED BY Zenon, <2>4, <4>1, <4>2
    <3> QED BY Zenon, <2>0, <3>1 DEF Ending, Enough
  <2> QED BY Zenon, <1>5, <2>1, <2>2, <2>3, <2>4 DEF Loop
<1> QED BY Zenon, <1>1, <1>2, <1>3, <1>4, <1>5 DEF Next

LEMMA CompletedKept ==
  ASSUME SessionTypes, Sending, Talking, Ending, CompletedIsComplete, Next
  PROVE  CompletedIsComplete'
<1>1. CASE Close
  <2> SUFFICES ASSUME obedient', status' = "completed" PROVE CompletedIsComplete'
    BY Zenon DEF CompletedIsComplete
  <2>1. UNCHANGED <<limited, obedient, executed, reported, mixedUp, late, endSent>>
    BY ZenonT(30), <1>1 DEF Close, counts
  <2>2. summary /\ ~error
    BY Zenon, <1>1 DEF Close
  <2>3. Conversation
    BY Zenon, <2>1, <2>2 DEF Talking, Cut
  <2>4. executed = reported /\ ~mixedUp /\ endSent
    BY Zenon, <2>2, <2>3 DEF Conversation, Turn, Drained
  <2>5. Enough(executed) \/ late
    BY Zenon, <2>2, <2>4 DEF Sending, Ending
  <2> QED BY Zenon, <2>1, <2>4, <2>5 DEF CompletedIsComplete, Enough
<1>2. CASE phase = "done" /\ ~Close
  <2>0. ~Loop
    BY Zenon, <1>2 DEF Loop, TakeNeed, TakeCase, TakeSummary, TakeOther, TakeEof, Took, TimeUp, Stall
  <2>1. UNCHANGED <<limited, obedient, executed, mixedUp, endSent, status>> /\ (late => late')
    <3>1. CASE Host \/ Reader
      BY <3>1 DEF Host, Reader, hostVars, flags, counts
    <3>2. CASE DeadlinePasses
      BY Zenon, <3>2 DEF DeadlinePasses, hostVars, counts
    <3> QED BY Zenon, <1>2, <2>0, <3>1, <3>2 DEF Next
  <2>2. reported' = reported
    BY Zenon, <1>2 DEF Next, Host, HostAsks, HostReads, HostReports, HostSums, HostRambles, HostEnds, Prints, Ending,
                Reader, DeadlinePasses, Loop, hostVars
  <2> QED BY Zenon, <2>1, <2>2 DEF CompletedIsComplete, Enough
<1>3. CASE phase # "done" /\ ~Close
  <2>1. status' = status /\ status = "none"
    BY Zenon, <1>3 DEF Next, Host, Reader, DeadlinePasses, Loop, Ending
  <2> QED BY Zenon, <2>1 DEF CompletedIsComplete
<1> QED BY Zenon, <1>1, <1>2, <1>3

\* run_session: a batch that is recorded as completed without an error counted every case the
\* host printed, each for the input it was about, and used up one of its budgets; the host kept
\* to the protocol but may have died, closed its output or fallen silent at any time, and the
\* reader may have met a line it cannot read.
THEOREM CompletedIsEarned == Spec => []CompletedIsComplete
<1> DEFINE SessionInv == SessionTypes /\ Sending /\ Talking /\ Ending /\ CompletedIsComplete
<1>1. Init => SessionInv
  <2> SUFFICES ASSUME Init PROVE SessionInv
    BY Zenon
  <2>1. SessionTypes /\ Sending /\ Ending /\ CompletedIsComplete
    BY DEF Init, SessionTypes, Sending, Ending, CompletedIsComplete
  <2>2. Flight = <<>> /\ DOMAIN Flight = {}
    BY DEF Init, Flight
  <2>3. Stream(Flight, submitted) /\ \A t : ~Has(Flight, t)
    BY Zenon, <2>2 DEF Stream, Has
  <2>4. /\ turn = "ready" /\ stdin = <<>> /\ ~endSent /\ submitted = 0 /\ reported = 0 /\ executed = 0
        /\ ~stop /\ ~mixedUp /\ ~summary
    BY Zenon DEF Init
  <2>5. Turn
    BY ZenonT(60), <2>3, <2>4 DEF Turn, EndIfSent
  <2>6. Conversation
    BY Zenon, <2>3, <2>4, <2>5 DEF Conversation
  <2> QED BY Zenon, <2>1, <2>6 DEF Talking
<1>2. SessionInv /\ Next => SessionInv'
  BY Zenon, SessionTypesKept, SendingKept, TalkingKept, EndingKept, CompletedKept
<1>3. SessionInv /\ UNCHANGED vars => SessionInv'
  <2> SUFFICES ASSUME SessionInv, UNCHANGED vars PROVE SessionInv'
    BY ZenonT(60)
  <2>1. SessionTypes' /\ Sending' /\ Ending' /\ CompletedIsComplete'
    BY Zenon DEF vars, hostVars, pipes, flags, counts, SessionTypes, Sending, Ending, CompletedIsComplete, Enough
  <2>2. Talking'
    BY Zenon DEF vars, hostVars, pipes, flags, counts, Talking, Conversation, Cut, Turn, Drained, EndIfSent, Flight
  <2> QED BY Zenon, <2>1, <2>2
<1> QED BY <1>1, <1>2, <1>3, PTL DEF Spec

=============================================================================
