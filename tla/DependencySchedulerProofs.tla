--------------------- MODULE DependencySchedulerProofs ---------------------
(***************************************************************************)
(* Proofs about DependencyScheduler, for every schedule, every list of     *)
(* items, every batching and every bound on the steps.                     *)
(*                                                                         *)
(* SchedInv, the inductive invariant, has, besides the types, four parts:  *)
(* where run() is in its steps and batches (LoopIsRound), what the pending *)
(* work of each item is counted from (WorkIsTimed), what the counters of   *)
(* an item that still waits say about the history (EdgesAreCounted), and   *)
(* what the outcome rests on (OutcomeIsEarned).                            *)
(***************************************************************************)
EXTENDS DependencyScheduler, FiniteSetTheorems, TLAPS

Sample == [component : Components, epoch : Nat, matched : SUBSET Numbers]
Seen == [component : Components, epoch : Nat, matched : SUBSET Numbers, ticks : [Components -> Nat]]
Release_ == [item : Numbers, ticks : [Components -> Nat]]

Types ==
  /\ pc \in {"begin", "release", "step", "observe", "quiesce", "finalize", "done"}
  /\ offset \in Nat /\ inBatch \in Nat /\ batchIndex \in Nat
  /\ ticks \in [Components -> Nat] /\ epoch \in Nat
  /\ window \in Seq(Sample) /\ position \in Nat \ {0}
  /\ counts \in [Numbers -> Nat] /\ previousMatch \in [Numbers -> BOOLEAN]
  /\ pending \in [Numbers -> Nat \cup {None}] /\ fired \in SUBSET Numbers
  /\ cursor \in [Numbers -> Nat \cup {None}]
  /\ runnerFailure \in {None, "uncertain_effect", "violation", "budget_exhausted"}
  /\ raised \in BOOLEAN /\ quiesced \in {None, "drained", "incomplete"}
  /\ seen \in Seq(Seen) /\ steps \in [Components -> Nat] /\ releases \in Seq(Release_)

\* Which of the first n steps are those of component c; the n steps made went round the
\* schedule.
Visits(n, c) == {i \in 1..n : Schedule[((i - 1) % Len(Schedule)) + 1] = c}
Stepped(n) == \A c \in Components : steps[c] = Cardinality(Visits(n, c))

\* Where run() is: the steps made, n, are those of finished batches and of this one.
LoopAt(n) ==
  /\ n \in 0..MaxSteps /\ Stepped(n)
  /\ pc \in {"begin", "release", "step", "observe"} => offset < MaxSteps /\ inBatch < BatchSize
  /\ pc = "begin" => n = 0 /\ offset = 0 /\ inBatch = 0
  /\ pc = "release" => n = offset + inBatch + 1 \/ (n = 0 /\ offset = 0 /\ inBatch = 0)
  /\ pc = "step" => n = offset + inBatch
  /\ pc = "observe" => n = offset + inBatch + 1
LoopIsRound == \E n \in 0..MaxSteps : LoopAt(n)

\* The tick of the clock c that the delay of item k, selected at its cursor, counts from.
From(k, c) == IF cursor[k] = 0 THEN 0 ELSE seen[cursor[k]].ticks[c]

\* The release r was of an item now marked as fired, a delay after its selection or later.
Timed(r) ==
  /\ r.item \in fired
  /\ r.ticks[DueClock(r.item)] >= From(r.item, ArmClock(r.item)) + Items[r.item].delay

\* What is pending is due a delay after its selection; what is released was; an item is
\* selected, released and forgotten once.
WorkIsTimed ==
  /\ \A k \in Numbers : cursor[k] = None <=> pending[k] = None /\ k \notin fired
  /\ \A k \in Numbers : pending[k] # None => k \notin fired
  /\ \A k \in Numbers : cursor[k] # None => cursor[k] \in 0..Len(seen)
  /\ \A k \in Numbers : pending[k] # None => pending[k] = From(k, ArmClock(k)) + Items[k].delay
  /\ \A i \in DOMAIN releases : Timed(releases[i])
  /\ \A i, j \in DOMAIN releases : releases[i].item = releases[j].item => i = j
  /\ \A k \in fired : \E i \in DOMAIN releases : releases[i].item = k
  /\ pc = "release" => \A k \in Numbers : k < position => ~Due(k)
  /\ pc = "step" => \A k \in Numbers : ~Due(k)
  /\ pc = "begin" => position = 1

\* In a history s: the observations of the source of item k in epoch e before place i, the
\* last of them, and the places where its predicate rises.
Before(s, k, e, i) == {j \in DOMAIN s : s[j].component = Items[k].source /\ j < i /\ s[j].epoch = e}
LastBefore(s, k, e, i, j) == j \in Before(s, k, e, i) /\ \A m \in Before(s, k, e, i) : m <= j
RisesAt(s, k, i) ==
  /\ s[i].component = Items[k].source /\ k \in s[i].matched
  /\ \A j \in DOMAIN s : LastBefore(s, k, s[i].epoch, i, j) => k \notin s[j].matched

\* The detector of item k: while it waits, its count is that of the rises in the history,
\* and its last level is that of the last observation since the last reset.  Once selected,
\* its cursor is at the rise it asked for.
LastLevel(k) ==
  \E j \in DOMAIN seen : LastBefore(seen, k, epoch, Len(seen) + 1, j) /\ k \in seen[j].matched
Detects(k) ==
  IF cursor[k] = None
  THEN /\ counts[k] = Cardinality(Rises(k)) /\ counts[k] < Items[k].occurrence
       /\ previousMatch[k] <=> LastLevel(k)
  ELSE /\ cursor[k] \in Rises(k)
       /\ Cardinality({i \in Rises(k) : i <= cursor[k]}) = Items[k].occurrence

EdgesAreCounted ==
  /\ \A i \in DOMAIN seen : seen[i].epoch <= epoch
  /\ \A i \in DOMAIN window : window[i].epoch = epoch
  /\ pc = "observe" <=> window # <<>>
  /\ \A k \in Numbers : IsFiniteSet(Rises(k))
  /\ \A k \in Numbers : ~Items[k].start => Detects(k)

\* The outcome: the loop goes on only while nothing was raised, and ends in quiescence.
OutcomeIsEarned ==
  /\ pc \notin {"finalize", "done"} => ~raised /\ quiesced = None
  /\ pc # "done" => result = None
  /\ pc = "finalize" /\ ~raised /\ Quiesces => quiesced \in {"drained", "incomplete"}
  /\ CompleteIsTrue

SchedInv == Types /\ LoopIsRound /\ WorkIsTimed /\ EdgesAreCounted /\ OutcomeIsEarned

-----------------------------------------------------------------------------
(* Facts about the operators. *)

\* The rises as the model defines them, in any history.
LEMMA RisesAreThese ==
  ASSUME NEW s \in Seq(Seen), NEW k \in Numbers
  PROVE  (LET mine == {i \in DOMAIN s : s[i].component = Items[k].source}
              before(j, i) == j < i /\ s[j].epoch = s[i].epoch
              last(j, i) == before(j, i) /\ \A m \in mine : before(m, i) => m <= j
          IN {i \in mine : k \in s[i].matched /\ \A j \in mine : k \in s[j].matched => ~last(j, i)})
         = {i \in DOMAIN s : RisesAt(s, k, i)}
BY Zenon DEF RisesAt, LastBefore, Before

LEMMA RisesNow ==
  ASSUME NEW k \in Numbers, seen \in Seq(Seen)
  PROVE  Rises(k) = {i \in DOMAIN seen : RisesAt(seen, k, i)}
BY Zenon, RisesAreThese DEF Rises

LEMMA RisesNext ==
  ASSUME NEW k \in Numbers, seen' \in Seq(Seen)
  PROVE  Rises(k)' = {i \in DOMAIN seen' : RisesAt(seen', k, i)}
BY Zenon, RisesAreThese DEF Rises

\* One more observation: what rose before did, and whether it rises now depends on the
\* last one of its epoch.
LEMMA OneMore ==
  ASSUME NEW s \in Seq(Seen), NEW o \in Seen, NEW k \in Numbers
  PROVE  LET t == Append(s, o)
             n == Len(s) + 1
         IN /\ t \in Seq(Seen) /\ DOMAIN t = DOMAIN s \cup {n} /\ n \notin DOMAIN s
            /\ \A i \in DOMAIN s : t[i] = s[i] /\ (RisesAt(t, k, i) <=> RisesAt(s, k, i))
            /\ RisesAt(t, k, n) <=>
                 /\ o.component = Items[k].source /\ k \in o.matched
                 /\ \A j \in DOMAIN s : LastBefore(s, k, o.epoch, n, j) => k \notin s[j].matched
            /\ \A e \in Nat, j \in DOMAIN t : LastBefore(t, k, e, n + 1, j) <=>
                 IF o.component = Items[k].source /\ o.epoch = e THEN j = n
                 ELSE j \in DOMAIN s /\ LastBefore(s, k, e, n, j)
<1> DEFINE t == Append(s, o)
           n == Len(s) + 1
<1>1. t \in Seq(Seen) /\ n \in Nat /\ DOMAIN s = 1..Len(s) /\ DOMAIN t = 1..n
  OBVIOUS
<1>2. DOMAIN t = DOMAIN s \cup {n} /\ n \notin DOMAIN s
  OBVIOUS
<1>3. t[n] = o /\ \A i \in DOMAIN s : t[i] = s[i]
  OBVIOUS
<1> HIDE DEF t
<1>4. \A e, i : i \in 1..n => Before(t, k, e, i) = Before(s, k, e, i)
  BY <1>1, <1>2, <1>3 DEF Before
<1>5. \A e : Before(t, k, e, n + 1) = Before(s, k, e, n)
                \cup (IF o.component = Items[k].source /\ o.epoch = e THEN {n} ELSE {})
  BY <1>1, <1>2, <1>3 DEF Before
<1>6. \A e, i, j : i \in 1..n => (LastBefore(t, k, e, i, j) <=> LastBefore(s, k, e, i, j))
  BY Zenon, <1>4 DEF LastBefore
<1>7. \A e, i, j : LastBefore(s, k, e, i, j) => j \in DOMAIN s
  BY Zenon DEF LastBefore, Before
<1>8. \A i \in DOMAIN s : RisesAt(t, k, i) <=> RisesAt(s, k, i)
  BY Zenon, <1>1, <1>2, <1>3, <1>6, <1>7 DEF RisesAt
<1>9. RisesAt(t, k, n) <=>
        /\ o.component = Items[k].source /\ k \in o.matched
        /\ \A j \in DOMAIN s : LastBefore(s, k, o.epoch, n, j) => k \notin s[j].matched
  BY Zenon, <1>1, <1>2, <1>3, <1>6, <1>7 DEF RisesAt
<1>10. ASSUME NEW e \in Nat, NEW j \in DOMAIN t
       PROVE  LastBefore(t, k, e, n + 1, j) <=>
                IF o.component = Items[k].source /\ o.epoch = e THEN j = n
                ELSE j \in DOMAIN s /\ LastBefore(s, k, e, n, j)
  <2>1. Before(s, k, e, n) \subseteq 1..Len(s)
    BY Zenon, <1>1 DEF Before
  <2>2. CASE o.component = Items[k].source /\ o.epoch = e
    <3>1. Before(t, k, e, n + 1) = Before(s, k, e, n) \cup {n}
      BY Zenon, <1>5, <2>2
    <3>2. \A m \in Before(s, k, e, n) : m < n /\ m \in Nat
      BY <1>1, <2>1
    <3>3. LastBefore(t, k, e, n + 1, j) <=> j = n
      BY <1>1, <3>1, <3>2 DEF LastBefore
    <3> QED BY Zenon, <2>2, <3>3
  <2>3. CASE ~(o.component = Items[k].source /\ o.epoch = e)
    BY Zenon, <1>1, <1>5, <1>7, <2>3 DEF LastBefore
  <2> QED BY Zenon, <2>2, <2>3
<1>11. n \notin DOMAIN s
  BY Zenon, <1>2
<1> HIDE DEF n
<1> QED BY Zenon, <1>1, <1>2, <1>3, <1>8, <1>9, <1>10, <1>11 DEF t, n

LEMMA EmptyByLength ==
  ASSUME NEW S, NEW s \in Seq(S)
  PROVE  s = <<>> <=> Len(s) = 0
OBVIOUS

LEMMA SeenEpochs ==
  ASSUME Types, NEW i \in DOMAIN seen
  PROVE  seen[i].epoch \in Nat
<1>1. seen[i] \in Seen
  BY DEF Types
<1> QED BY Zenon, <1>1 DEF Seen

\* The remainder picks a member of a list that is not empty.
LEMMA PickedIndex ==
  ASSUME NEW n \in Nat, NEW l \in Nat \ {0}
  PROVE  (n % l) + 1 \in 1..l
OBVIOUS

\* A batch that begins before the last step has a step, and none too many.
LEMMA SizeIsSound ==
  ASSUME NEW b \in Nat, NEW n \in Nat, n < MaxSteps
  PROVE  LET size == BatchSizes[(b % Len(BatchSizes)) + 1]
             capped == IF size < MaxSteps - n THEN size ELSE MaxSteps - n
         IN capped \in Nat \ {0} /\ n + capped <= MaxSteps
<1> DEFINE size == BatchSizes[(b % Len(BatchSizes)) + 1]
<1>1. size \in Nat \ {0}
  BY SchedulerConstants, PickedIndex
<1> HIDE DEF size
<1>2. (IF size < MaxSteps - n THEN size ELSE MaxSteps - n) \in Nat \ {0}
  BY <1>1, SchedulerConstants
<1>3. n + (IF size < MaxSteps - n THEN size ELSE MaxSteps - n) <= MaxSteps
  BY <1>1, SchedulerConstants
<1> QED BY Zenon, <1>2, <1>3 DEF size

LEMMA SizeOfBatch ==
  ASSUME Types, offset < MaxSteps
  PROVE  BatchSize \in Nat \ {0} /\ offset + BatchSize <= MaxSteps
BY Zenon, SizeIsSound DEF Types, BatchSize

\* The same after a step.
LEMMA SizeOfNextBatch ==
  ASSUME Types', offset' < MaxSteps
  PROVE  BatchSize' \in Nat \ {0} /\ offset' + BatchSize' <= MaxSteps
BY Zenon, SizeIsSound DEF Types, BatchSize

LEMMA TurnIsComponent ==
  ASSUME Types
  PROVE  Turn \in Components /\ Turn = Schedule[((offset + inBatch) % Len(Schedule)) + 1]
<1>1. offset + inBatch \in Nat /\ Len(Schedule) \in Nat \ {0} /\ DOMAIN Schedule = 1..Len(Schedule)
  BY SchedulerConstants DEF Types
<1> QED BY Zenon, <1>1, PickedIndex DEF Turn, Components

\* The clocks of an item are clocks of components.
LEMMA Clocks ==
  ASSUME NEW k \in Numbers
  PROVE  ArmClock(k) \in Components /\ DueClock(k) \in Components /\ Items[k] \in ItemType
<1>1. Schedule[1] \in Components
  BY SchedulerConstants DEF Components
<1>2. Items[k] \in ItemType
  BY SchedulerConstants DEF Numbers
<1> QED BY Zenon, <1>1, <1>2 DEF ArmClock, DueClock, ItemType

-----------------------------------------------------------------------------
(* The steps. *)

\* What a step shows are observations of this epoch, one at least.
LEMMA WindowsAre ==
  ASSUME Types, NEW w \in Windows
  PROVE  w \in Seq(Sample) /\ w # <<>> /\ \A i \in DOMAIN w : w[i].epoch = epoch
<1>1. PICK n \in 1..MaxSamples : w \in [1..n -> UNION {ObservationsOf(c) : c \in Components}]
  BY Zenon DEF Windows
<1>2. \A o \in UNION {ObservationsOf(c) : c \in Components} : o \in Sample /\ o.epoch = epoch
  BY DEF Types, ObservationsOf, Sample
<1>3. n \in Nat /\ n > 0
  BY SchedulerConstants
<1> HIDE DEF Sample
<1>4. w \in [1..n -> Sample] /\ \A i \in 1..n : w[i].epoch = epoch
  BY Zenon, <1>1, <1>2
<1> QED BY <1>3, <1>4

LEMMA TypesKept ==
  ASSUME Types, LoopIsRound, Next
  PROVE  Types'
<1>1. CASE BeginTest
  BY Zenon, <1>1 DEF BeginTest, Raises, Running, Types, loopVars, itemVars
<1>2. CASE Step
  <2>1. steps' \in [Components -> Nat]
    BY <1>2, TurnIsComponent DEF Step, Types
  <2>2. ticks' \in [Components -> Nat] /\ window' \in Seq(Sample)
    <3>1. CASE UNCHANGED <<window, ticks>>
      BY Zenon, <3>1 DEF Types
    <3>2. ASSUME NEW w \in Windows, window' = w,
                 ticks' = [c \in Components |->
                   IF c = Turn \/ \E i \in DOMAIN w : w[i].component = c THEN ticks[c] + 1 ELSE ticks[c]]
          PROVE  ticks' \in [Components -> Nat] /\ window' \in Seq(Sample)
      <4>1. w \in Seq(Sample)
        BY Zenon, WindowsAre
      <4> QED BY <3>2, <4>1 DEF Types
    <3> QED BY Zenon, <1>2, <3>1, <3>2 DEF Step
  <2> QED BY Zenon, <1>2, <2>1, <2>2 DEF Step, Raises, Running, Types, loopVars, itemVars
<1>3. CASE Observe
  <2>1. Head(window) \in Sample /\ Tail(window) \in Seq(Sample)
    BY <1>3 DEF Observe, Types
  <2>2. seen' \in Seq(Seen)
    BY SMTT(30), <1>3, <2>1 DEF Observe, Types, Sample, Seen
  <2>3. \A k \in Numbers : ticks[ArmClock(k)] + Items[k].delay \in Nat
    <3> TAKE k \in Numbers
    <3>1. ArmClock(k) \in Components /\ Items[k].delay \in Nat
      BY Zenon, Clocks DEF ItemType
    <3> QED BY <3>1 DEF Types
  <2>4. pending' \in [Numbers -> Nat \cup {None}] /\ cursor' \in [Numbers -> Nat \cup {None}]
    BY <1>3, <2>3 DEF Observe, Types
  <2>5. counts' \in [Numbers -> Nat]
    BY <1>3 DEF Observe, Types
  <2>6. previousMatch' \in [Numbers -> BOOLEAN]
    <3> DEFINE o == Head(window)
    <3>1. previousMatch' = [k \in Numbers |->
            IF Watching(k, o.component) THEN k \in o.matched ELSE previousMatch[k]]
      BY Zenon, <1>3 DEF Observe
    <3> HIDE DEF o
    <3>2. \A k \in Numbers : (k \in o.matched) \in BOOLEAN /\ previousMatch[k] \in BOOLEAN
      BY SMT DEF Types
    <3> QED BY Zenon, <3>1, <3>2
  <2> QED BY <1>3, <2>1, <2>2, <2>4, <2>5, <2>6 DEF Observe, Types, loopVars, outcomeVars, failureVars
<1>4. CASE Release
  <2>1. position \in Numbers
    BY <1>4, SchedulerConstants DEF Release, Types, Numbers
  <2>2. CASE Released(position) /\ UNCHANGED <<pc, raised, interrupted, runnerFailure>>
    <3>1. releases' \in Seq(Release_)
      BY <2>1, <2>2 DEF Released, Types, Release_
    <3> QED BY <1>4, <2>1, <2>2, <3>1 DEF Release, Released, Types, loopVars
  <2>3. CASE UNCHANGED <<epoch, itemVars, releases>> /\ (Raises \/ UNCHANGED <<pc, raised, interrupted, runnerFailure>>)
    <3>1. /\ pc' \in {pc, "finalize"} /\ raised' \in BOOLEAN
          /\ runnerFailure' \in {runnerFailure, None, "uncertain_effect"}
      BY Zenon, <2>3 DEF Raises, Running, Types
    <3> QED BY <1>4, <2>3, <3>1 DEF Release, Types, loopVars, itemVars
  <2> QED BY Zenon, <1>4, <2>2, <2>3 DEF Release
<1>5. CASE LoopOn
  <2>1. offset' \in Nat /\ inBatch' \in Nat /\ batchIndex' \in Nat
    <3>1. BatchSize \in Nat
      BY Zenon, <1>5, SizeOfBatch DEF LoopOn, LoopIsRound, LoopAt
    <3>2. /\ offset' \in {offset, offset + BatchSize}
          /\ inBatch' \in {inBatch, inBatch + 1, 0} /\ batchIndex' \in {batchIndex, batchIndex + 1}
      BY Zenon, <1>5 DEF LoopOn, loopVars
    <3>3. offset \in Nat /\ inBatch \in Nat /\ batchIndex \in Nat
      BY Zenon DEF Types
    <3> QED BY <3>1, <3>2, <3>3
  <2> QED BY Zenon, <1>5, <2>1 DEF LoopOn, Types, itemVars, outcomeVars, failureVars
<1>6. CASE Quiesce
  BY Zenon, <1>6 DEF Quiesce, Raises, Running, Types, loopVars, itemVars
<1>7. CASE Finalize
  BY Zenon, <1>7 DEF Finalize, Types, loopVars, itemVars
<1>8. CASE Done
  BY Zenon, <1>8 DEF Done, vars, Types, loopVars, itemVars, outcomeVars, failureVars
<1> QED BY Zenon, <1>1, <1>2, <1>3, <1>4, <1>5, <1>6, <1>7, <1>8 DEF Next

\* One more step round the schedule.
LEMMA VisitsMore ==
  ASSUME NEW n \in Nat, NEW c
  PROVE  /\ IsFiniteSet(Visits(n, c)) /\ Cardinality(Visits(n, c)) \in Nat
         /\ Cardinality(Visits(n + 1, c))
              = IF Schedule[(n % Len(Schedule)) + 1] = c THEN Cardinality(Visits(n, c)) + 1
                ELSE Cardinality(Visits(n, c))
<1>1. IsFiniteSet(Visits(n, c)) /\ Cardinality(Visits(n, c)) \in Nat
  <2>1. IsFiniteSet(1..n)
    BY FS_Interval
  <2>2. Visits(n, c) \subseteq 1..n
    BY Zenon DEF Visits
  <2> QED BY Zenon, <2>1, <2>2, FS_Subset, FS_CardinalityType
<1>2. 1..(n + 1) = (1..n) \cup {n + 1} /\ n + 1 \notin 1..n /\ (n + 1) - 1 = n
  OBVIOUS
<1>3. CASE Schedule[(n % Len(Schedule)) + 1] = c
  <2>1. Visits(n + 1, c) = Visits(n, c) \cup {n + 1} /\ n + 1 \notin Visits(n, c)
    BY Zenon, <1>2, <1>3 DEF Visits
  <2> QED BY <1>1, <1>3, <2>1, FS_AddElement
<1>4. CASE Schedule[(n % Len(Schedule)) + 1] # c
  <2>1. Visits(n + 1, c) = Visits(n, c)
    BY Zenon, <1>2, <1>4 DEF Visits
  <2> QED BY Zenon, <1>1, <1>4, <2>1
<1> QED BY Zenon, <1>1, <1>3, <1>4

\* Whether a step was made, as the loop sees it.
LEMMA StartedAfterStep ==
  ASSUME Types, NEW n \in Nat, Stepped(n)
  PROVE  Started <=> n > 0
<1>1. CASE n = 0
  <2>1. \A c : Visits(n, c) = {}
    BY <1>1 DEF Visits
  <2>2. \A c \in Components : steps[c] = 0
    BY Zenon, <2>1, FS_EmptySet DEF Stepped
  <2> QED BY <1>1, <2>2 DEF Started
<1>2. CASE n > 0
  <2>1. PICK m \in Nat : n = m + 1
    BY <1>2
  <2> DEFINE c == Schedule[(m % Len(Schedule)) + 1]
  <2>2. c \in Components
    <3>1. Len(Schedule) \in Nat \ {0} /\ DOMAIN Schedule = 1..Len(Schedule)
      BY SchedulerConstants
    <3> QED BY Zenon, <3>1, PickedIndex DEF Components
  <2>3. Cardinality(Visits(n, c)) = Cardinality(Visits(m, c)) + 1 /\ Cardinality(Visits(m, c)) \in Nat
    BY Zenon, <2>1, VisitsMore
  <2> HIDE DEF c
  <2>4. steps[c] > 0
    BY <2>2, <2>3 DEF Stepped
  <2> QED BY Zenon, <1>2, <2>2, <2>4 DEF Started
<1> QED BY <1>1, <1>2

LEMMA LoopKept ==
  ASSUME Types, Types', LoopIsRound, Next
  PROVE  LoopIsRound'
<1>1. PICK n \in 0..MaxSteps : LoopAt(n)
  BY Zenon DEF LoopIsRound
<1>2. n \in Nat
  BY SchedulerConstants
<1>3. CASE Step
  <2>1. n = offset + inBatch /\ offset < MaxSteps /\ inBatch < BatchSize
    BY Zenon, <1>1, <1>3 DEF LoopAt, Step
  <2>2. n + 1 \in 0..MaxSteps
    <3>1. BatchSize \in Nat /\ offset + BatchSize <= MaxSteps
      BY Zenon, <2>1, SizeOfBatch
    <3>2. offset \in Nat /\ inBatch \in Nat /\ MaxSteps \in Nat
      BY Zenon, SchedulerConstants DEF Types
    <3> QED BY <2>1, <3>1, <3>2
  <2>3. Stepped(n + 1)'
    <3>1. steps' = [steps EXCEPT ![Schedule[(n % Len(Schedule)) + 1]] = @ + 1]
      BY Zenon, <1>3, <2>1, TurnIsComponent DEF Step
    <3>2. ASSUME NEW c \in Components PROVE steps'[c] = Cardinality(Visits(n + 1, c))
      <4>1. steps[c] = Cardinality(Visits(n, c))
        BY Zenon, <1>1 DEF LoopAt, Stepped
      <4> QED BY ZenonT(40), <1>2, <3>1, <4>1, VisitsMore DEF Types
    <3> QED BY Zenon, <3>2 DEF Stepped
  <2>4. UNCHANGED <<offset, inBatch, batchIndex>> /\ BatchSize' = BatchSize /\ pc' \in {"observe", "finalize"}
    BY Zenon, <1>3 DEF Step, Raises, loopVars, BatchSize
  <2>5. LoopAt(n + 1)'
    BY Zenon, <2>1, <2>2, <2>3, <2>4 DEF LoopAt
  <2> QED BY Zenon, <2>2, <2>5 DEF LoopIsRound
<1>4. CASE LoopOn
  <2>1. offset < MaxSteps /\ inBatch < BatchSize /\ (n = offset + inBatch + 1 \/ (n = 0 /\ offset = 0 /\ inBatch = 0))
    BY Zenon, <1>1, <1>4 DEF LoopAt, LoopOn
  <2>2. Stepped(n)' /\ (Started <=> n > 0)
    BY Zenon, <1>1, <1>2, <1>4, StartedAfterStep DEF LoopAt, LoopOn, Stepped
  <2>3. n = offset' + inBatch'
    <3>1. BatchSize \in Nat /\ offset \in Nat /\ inBatch \in Nat
      BY Zenon, <2>1, SizeOfBatch DEF Types
    <3>2. CASE ~Started
      BY <1>4, <2>1, <2>2, <3>1, <3>2 DEF LoopOn, loopVars
    <3>3. CASE Started /\ inBatch + 1 < BatchSize
      BY <1>4, <2>1, <2>2, <3>1, <3>3 DEF LoopOn
    <3>4. CASE Started /\ ~(inBatch + 1 < BatchSize)
      BY <1>4, <2>1, <2>2, <3>1, <3>4 DEF LoopOn
    <3> QED BY Zenon, <3>2, <3>3, <3>4
  <2>4. offset' < MaxSteps => inBatch' < BatchSize'
    <3>1. CASE UNCHANGED <<offset, batchIndex>>
      <4>1. BatchSize' = BatchSize
        BY Zenon, <3>1 DEF BatchSize
      <4>2. inBatch' < BatchSize
        BY SMTT(30), <1>4, <2>1, <3>1, SizeOfBatch DEF LoopOn, loopVars, Types
      <4> QED BY Zenon, <4>1, <4>2
    <3>2. CASE inBatch' = 0
      BY <3>2, SizeOfNextBatch
    <3> QED BY Zenon, <1>4, <3>1, <3>2 DEF LoopOn, loopVars
  <2>5. pc' \in {"step", "quiesce", "finalize"} /\ (pc' = "step" => offset' < MaxSteps)
    BY Zenon, <1>4 DEF LoopOn
  <2>6. LoopAt(n)'
    BY Zenon, <1>1, <2>2, <2>3, <2>4, <2>5 DEF LoopAt
  <2> QED BY Zenon, <2>6 DEF LoopIsRound
<1>5. CASE BeginTest \/ Observe \/ Release \/ Quiesce \/ Finalize \/ Done
  <2>1. UNCHANGED <<offset, inBatch, batchIndex, steps>>
    BY Zenon, <1>5 DEF BeginTest, Observe, Release, Quiesce, Finalize, Done, vars, loopVars
  <2>2. BatchSize' = BatchSize /\ Stepped(n)' = Stepped(n)
    BY Zenon, <2>1 DEF BatchSize, Stepped
  <2>3. \/ pc' \in {"finalize", "done"}
        \/ pc = "begin" /\ pc' = "release"
        \/ pc = "observe" /\ pc' \in {"observe", "release"}
        \/ pc = "release" /\ pc' = "release"
    BY Zenon, <1>5 DEF BeginTest, Observe, Release, Quiesce, Finalize, Done, vars, Raises
  <2>4. LoopAt(n)'
    BY Zenon, <1>1, <2>1, <2>2, <2>3 DEF LoopAt
  <2> QED BY Zenon, <2>4 DEF LoopIsRound
<1> QED BY Zenon, <1>3, <1>4, <1>5 DEF Next

\* The outcome of a step, the work's part.
LEMMA OutcomeKept ==
  ASSUME Types, WorkIsTimed, OutcomeIsEarned, Next
  PROVE  OutcomeIsEarned'
<1>1. CASE Finalize
  <2>1. /\ pc = "finalize" /\ pc' = "done" /\ result' \in {None, FinalStatus(runnerFailure')}
        /\ runnerFailure' \in {runnerFailure, None, "budget_exhausted"}
        /\ UNCHANGED <<raised, quiesced, fired, releases>>
    BY Zenon, <1>1 DEF Finalize, itemVars, OutcomeIsEarned
  <2>2. ASSUME result' = "complete"
        PROVE  runnerFailure' = None /\ ~raised /\ quiesced # "incomplete" /\ fired = Numbers
    BY Zenon, <2>1, <2>2, SchedulerConstants DEF FinalStatus, Statuses, Types
  <2>3. {releases[i].item : i \in DOMAIN releases} = fired
    BY DEF WorkIsTimed, Timed
  <2>4. CompleteIsTrue'
    BY Zenon, <2>1, <2>2, <2>3 DEF CompleteIsTrue, OutcomeIsEarned
  <2> QED BY Zenon, <2>1, <2>4 DEF OutcomeIsEarned
<1>2. CASE Done
  BY Zenon, <1>2 DEF Done, vars, itemVars, outcomeVars, failureVars, OutcomeIsEarned, CompleteIsTrue
<1>3. CASE BeginTest \/ Step \/ Observe \/ Release \/ LoopOn \/ Quiesce
  <2>1. pc \notin {"finalize", "done"} /\ pc' # "done" /\ result' = result
    BY Zenon, <1>3 DEF BeginTest, Step, Observe, Release, LoopOn, Quiesce, Raises, outcomeVars, failureVars
  <2>2. result' = None /\ CompleteIsTrue'
    <3>1. None # "complete"
      BY Zenon, SchedulerConstants DEF Statuses
    <3> QED BY Zenon, <2>1, <3>1 DEF OutcomeIsEarned, CompleteIsTrue
  <2>3. ~raised /\ quiesced = None
    BY Zenon, <2>1 DEF OutcomeIsEarned
  <2>4. pc' # "finalize" => ~raised' /\ quiesced' = None
    BY Zenon, <1>3, <2>3 DEF BeginTest, Step, Observe, Release, LoopOn, Quiesce, Raises, outcomeVars, failureVars
  <2>5. pc' = "finalize" /\ ~raised' /\ Quiesces => quiesced' \in {"drained", "incomplete"}
    BY Zenon, <1>3, <2>3 DEF BeginTest, Step, Observe, Release, LoopOn, Quiesce, Raises, outcomeVars, failureVars
  <2> QED BY Zenon, <2>1, <2>2, <2>4, <2>5 DEF OutcomeIsEarned
<1> QED BY Zenon, <1>1, <1>2, <1>3 DEF Next

\* Steps that select and release nothing.
LEMMA WorkUntouched ==
  ASSUME Types, WorkIsTimed, UNCHANGED <<itemVars, seen, releases>>,
         pc' \notin {"begin"}, pc' = "release" => position' = 1,
         pc' = "step" => \A k \in Numbers : ~Due(k)'
  PROVE  WorkIsTimed'
<1>1. UNCHANGED <<cursor, pending, fired, seen, releases>>
  BY Zenon DEF itemVars
<1>2. \A k, c : From(k, c)' = From(k, c)
  BY Zenon, <1>1 DEF From
<1>3. pc' = "release" => \A k \in Numbers : ~(k < position')
  BY SchedulerConstants DEF Numbers
<1>4. \A i \in DOMAIN releases : Timed(releases[i])'
  BY Zenon, <1>1 DEF WorkIsTimed, Timed, From
<1> QED BY <1>1, <1>2, <1>3, <1>4 DEF WorkIsTimed

\* An observation: what it selects is timed from it.
LEMMA WorkObserved ==
  ASSUME Types, WorkIsTimed, Observe
  PROVE  WorkIsTimed'
<1> DEFINE o == Head(window)
           r == [component |-> o.component, epoch |-> o.epoch, matched |-> o.matched, ticks |-> ticks]
<1>1. /\ pending' = [k \in Numbers |->
              IF Selects(k, o) THEN ticks[ArmClock(k)] + Items[k].delay ELSE pending[k]]
      /\ cursor' = [k \in Numbers |-> IF Selects(k, o) THEN Len(seen) + 1 ELSE cursor[k]]
      /\ seen' = Append(seen, r)
      /\ UNCHANGED <<fired, releases>> /\ position' = 1 /\ pc' \in {"observe", "release"}
  BY Zenon DEF Observe
<1>2. \A k : Selects(k, o) => k \notin fired /\ pending[k] = None
  BY Zenon DEF Selects, Watching
<1>3. r.ticks = ticks
  BY Zenon
<1>4. \A k \in Numbers : ticks[ArmClock(k)] + Items[k].delay \in Nat /\ ticks[ArmClock(k)] \in Nat
  <2> TAKE k \in Numbers
  <2>1. ArmClock(k) \in Components /\ Items[k].delay \in Nat
    BY Zenon, Clocks DEF ItemType
  <2> QED BY <2>1 DEF Types
<1> HIDE DEF o, r
<1>5. Len(seen) \in Nat /\ Len(seen') = Len(seen) + 1 /\ seen'[Len(seen) + 1] = r
      /\ \A i \in 1..Len(seen) : seen'[i] = seen[i]
  BY <1>1 DEF Types
<1>6. \A k \in Numbers : Selects(k, o) => cursor'[k] = Len(seen) + 1 /\ pending'[k] = ticks[ArmClock(k)] + Items[k].delay
  BY Zenon, <1>1
<1>7. \A k \in Numbers : ~Selects(k, o) => cursor'[k] = cursor[k] /\ pending'[k] = pending[k]
  BY Zenon, <1>1
<1>8. \A k \in Numbers : \A c : ~Selects(k, o) /\ cursor[k] # None => From(k, c)' = From(k, c)
  <2> TAKE k \in Numbers
  <2> TAKE c
  <2> HAVE ~Selects(k, o) /\ cursor[k] # None
  <2>1. cursor'[k] = cursor[k] /\ cursor[k] \in 0..Len(seen)
    BY Zenon, <1>7 DEF WorkIsTimed
  <2> QED BY <1>5, <2>1 DEF From
<1>9. \A k \in Numbers : \A c : Selects(k, o) => From(k, c)' = ticks[c]
  BY <1>3, <1>5, <1>6 DEF From
<1>10. None \notin Nat
  BY Zenon, SchedulerConstants
<1>11. ASSUME NEW k \in Numbers
       PROVE  /\ cursor'[k] = None <=> pending'[k] = None /\ k \notin fired'
              /\ pending'[k] # None => k \notin fired'
              /\ cursor'[k] # None => cursor'[k] \in 0..Len(seen')
              /\ pending'[k] # None => pending'[k] = From(k, ArmClock(k))' + Items[k].delay
  <2>1. CASE Selects(k, o)
    BY <1>1, <1>2, <1>4, <1>5, <1>6, <1>9, <1>10, <2>1
  <2>2. CASE ~Selects(k, o)
    <3>1. /\ cursor[k] = None <=> pending[k] = None /\ k \notin fired
          /\ pending[k] # None => k \notin fired
          /\ cursor[k] # None => cursor[k] \in 0..Len(seen)
          /\ pending[k] # None => pending[k] = From(k, ArmClock(k)) + Items[k].delay
      BY Zenon DEF WorkIsTimed
    <3> QED BY <1>1, <1>5, <1>7, <1>8, <2>2, <3>1
  <2> QED BY Zenon, <2>1, <2>2
<1>12. ASSUME NEW i \in DOMAIN releases PROVE Timed(releases[i])'
  <2> DEFINE r1 == releases[i]
  <2>1. Timed(r1) /\ r1.item \in fired /\ r1.item \in Numbers
    BY Zenon DEF WorkIsTimed, Timed, Types
  <2>2. releases'[i] = r1
    BY Zenon, <1>1
  <2> HIDE DEF r1
  <2>3. ~Selects(r1.item, o) /\ cursor[r1.item] # None
    BY Zenon, <1>2, <2>1 DEF WorkIsTimed
  <2>4. cursor'[r1.item] = cursor[r1.item] /\ cursor[r1.item] \in 0..Len(seen)
    BY Zenon, <1>7, <2>1, <2>3 DEF WorkIsTimed
  <2>5. From(r1.item, ArmClock(r1.item)) =
          IF cursor'[r1.item] = 0 THEN 0 ELSE seen'[cursor'[r1.item]].ticks[ArmClock(r1.item)]
    BY <1>5, <2>4 DEF From
  <2>6. r1.ticks[DueClock(r1.item)] >= From(r1.item, ArmClock(r1.item)) + Items[r1.item].delay
    BY Zenon, <2>1 DEF Timed
  <2> QED BY ZenonT(40), <1>1, <2>1, <2>2, <2>5, <2>6 DEF Timed, From
<1>13. pc' = "release" => \A k \in Numbers : ~(k < position')
  BY <1>1, SchedulerConstants DEF Numbers
<1> QED BY Zenon, <1>1, <1>11, <1>12, <1>13 DEF WorkIsTimed

\* release_due goes past one item: it is not due, or it is released a delay after its
\* selection, and then it is no longer pending.
LEMMA WorkReleased ==
  ASSUME Types, WorkIsTimed, Release
  PROVE  WorkIsTimed'
<1> DEFINE k == position
<1>1. k \in Numbers /\ k \in Nat /\ pc = "release" /\ position' = position + 1 /\ UNCHANGED <<seen, ticks>>
  BY SchedulerConstants DEF Release, Types, Numbers
<1>2. CASE Due(k) /\ Released(k) /\ pc' = pc
  <2>1. /\ fired' = fired \cup {k} /\ pending' = [pending EXCEPT ![k] = None] /\ cursor' = cursor
        /\ releases' = Append(releases, [item |-> k, ticks |-> ticks])
    BY Zenon, <1>2 DEF Released
  <2>2. pending[k] # None /\ ticks[DueClock(k)] >= pending[k] /\ k \notin fired /\ cursor[k] # None
    BY Zenon, <1>1, <1>2 DEF Due, WorkIsTimed
  <2>3. \A j, c : From(j, c)' = From(j, c)
    BY Zenon, <1>1, <2>1 DEF From
  <2>4. ASSUME NEW j \in Numbers
        PROVE  /\ cursor'[j] = None <=> pending'[j] = None /\ j \notin fired'
               /\ pending'[j] # None => j \notin fired'
               /\ cursor'[j] # None => cursor'[j] \in 0..Len(seen')
               /\ pending'[j] # None => pending'[j] = From(j, ArmClock(j))' + Items[j].delay
    <3>1. /\ cursor[j] = None <=> pending[j] = None /\ j \notin fired
          /\ pending[j] # None => j \notin fired
          /\ cursor[j] # None => cursor[j] \in 0..Len(seen)
          /\ pending[j] # None => pending[j] = From(j, ArmClock(j)) + Items[j].delay
      BY ZenonT(60) DEF WorkIsTimed
    <3>2. pending'[j] = IF j = k THEN None ELSE pending[j]
      BY Zenon, <2>1 DEF Types
    <3> HIDE DEF k
    <3> QED BY Zenon, <1>1, <2>1, <2>2, <2>3, <3>1, <3>2
  <2>5. /\ DOMAIN releases' = DOMAIN releases \cup {Len(releases) + 1} /\ Len(releases) + 1 \notin DOMAIN releases
        /\ releases'[Len(releases) + 1] = [item |-> k, ticks |-> ticks]
        /\ \A i \in DOMAIN releases : releases'[i] = releases[i]
    BY <2>1 DEF Types
  <2>6. ASSUME NEW i \in DOMAIN releases' PROVE Timed(releases[i])'
    <3>1. CASE i \in DOMAIN releases
      BY ZenonT(40), <1>1, <2>1, <2>5, <3>1 DEF WorkIsTimed, Timed, From
    <3>2. CASE i = Len(releases) + 1
      <4>1. releases'[i].item = k /\ releases'[i].ticks = ticks
        BY <2>5, <3>2
      <4>2. pending[k] = From(k, ArmClock(k)) + Items[k].delay
        BY Zenon, <1>1, <2>2 DEF WorkIsTimed
      <4>3. k \in fired' /\ ticks[DueClock(k)] >= From(k, ArmClock(k)) + Items[k].delay
        BY Zenon, <2>1, <2>2, <4>2
      <4> HIDE DEF k
      <4> QED BY Zenon, <1>1, <2>1, <4>1, <4>3 DEF Timed, From
    <3> QED BY Zenon, <2>5, <3>1, <3>2
  <2>7. \A i, j \in DOMAIN releases' : releases'[i].item = releases'[j].item => i = j
    <3>1. \A i \in DOMAIN releases : releases[i].item # k
      BY <2>2 DEF WorkIsTimed, Timed
    <3>2. releases'[Len(releases) + 1].item = k
      BY <2>5
    <3> QED BY Zenon, <2>5, <3>1, <3>2 DEF WorkIsTimed
  <2>8. \A j \in fired' : \E i \in DOMAIN releases' : releases'[i].item = j
    <3>1. releases'[Len(releases) + 1].item = k
      BY <2>5
    <3>2. \A j \in fired : \E i \in DOMAIN releases : releases'[i].item = j
      BY <2>5 DEF WorkIsTimed
    <3> QED BY Zenon, <2>1, <2>5, <3>1, <3>2
  <2>9. \A j \in Numbers : j < position' => ~Due(j)'
    <3>1. \A j \in Numbers : j < k => ~Due(j)
      BY Zenon, <1>1 DEF WorkIsTimed
    <3>2. ASSUME NEW j \in Numbers, j < position' PROVE ~Due(j)'
      <4>1. CASE j = k
        BY Zenon, <1>1, <2>1, <4>1 DEF Due, Types
      <4>2. CASE j # k
        <5>1. j < k /\ j \in Nat
          BY <1>1, <3>2, <4>2, SchedulerConstants DEF Numbers
        <5>2. pending'[j] = pending[j]
          BY Zenon, <2>1, <4>2 DEF Types
        <5> QED BY Zenon, <1>1, <3>1, <5>1, <5>2 DEF Due
      <4> QED BY Zenon, <4>1, <4>2
    <3> QED BY Zenon, <3>2
  <2>10. pc' = "release"
    BY Zenon, <1>1, <1>2
  <2> HIDE DEF k
  <2> QED BY Zenon, <2>4, <2>6, <2>7, <2>8, <2>9, <2>10 DEF WorkIsTimed
<1>3. CASE UNCHANGED <<itemVars, releases>> /\ (pc' = "finalize" \/ (~Due(k) /\ pc' = pc))
  <2>1. UNCHANGED <<cursor, pending, fired, seen, releases>>
    BY Zenon, <1>1, <1>3 DEF itemVars
  <2>2. \A j, c : From(j, c)' = From(j, c)
    BY Zenon, <2>1 DEF From
  <2>3. \A j : Due(j)' = Due(j)
    BY Zenon, <1>1, <2>1 DEF Due
  <2>4. pc' = "release" => \A j \in Numbers : j < position' => ~Due(j)'
    <3>1. \A j \in Numbers : j < k + 1 => j < k \/ j = k
      BY <1>1, SchedulerConstants DEF Numbers
    <3> QED BY Zenon, <1>1, <1>3, <2>3, <3>1 DEF WorkIsTimed
  <2>5. pc' \in {"release", "finalize"}
    BY Zenon, <1>1, <1>3
  <2>6. \A i \in DOMAIN releases : Timed(releases[i])'
    BY Zenon, <2>1 DEF WorkIsTimed, Timed, From
  <2> HIDE DEF k
  <2> QED BY Zenon, <2>1, <2>2, <2>4, <2>5, <2>6 DEF WorkIsTimed
<1> QED BY Zenon, <1>2, <1>3 DEF Release, Raises

LEMMA WorkKept ==
  ASSUME Types, WorkIsTimed, Next
  PROVE  WorkIsTimed'
<1>1. CASE BeginTest
  <2>1. pc' # "begin" /\ pc' # "step" /\ (pc' = "release" => position' = 1)
    BY Zenon, <1>1 DEF BeginTest, Raises, WorkIsTimed
  <2> QED BY Zenon, <1>1, <2>1, WorkUntouched DEF BeginTest
<1>2. CASE Step
  <2>1. pc' \in {"observe", "finalize"}
    BY Zenon, <1>2 DEF Step, Raises
  <2> QED BY Zenon, <1>2, <2>1, WorkUntouched DEF Step
<1>3. CASE LoopOn
  <2>1. \A k \in Numbers : ~Due(k)'
    <3> TAKE k \in Numbers
    <3>1. k < position
      BY <1>3, SchedulerConstants DEF LoopOn, Numbers, Types
    <3>2. ~Due(k)
      BY Zenon, <1>3, <3>1 DEF LoopOn, WorkIsTimed
    <3> QED BY Zenon, <1>3, <3>2 DEF LoopOn, itemVars, Due
  <2>2. pc' \in {"step", "quiesce", "finalize"}
    BY Zenon, <1>3 DEF LoopOn
  <2> QED BY Zenon, <1>3, <2>1, <2>2, WorkUntouched DEF LoopOn
<1>4. CASE Quiesce \/ Finalize
  <2>1. pc' \in {"done", "finalize"}
    BY Zenon, <1>4 DEF Quiesce, Finalize, Raises
  <2> QED BY Zenon, <1>4, <2>1, WorkUntouched DEF Quiesce, Finalize
<1>5. CASE Done
  <2>1. pc' = "done"
    BY Zenon, <1>5 DEF Done, vars
  <2> QED BY Zenon, <1>5, <2>1, WorkUntouched DEF Done, vars
<1> QED BY Zenon, <1>1, <1>2, <1>3, <1>4, <1>5, WorkObserved, WorkReleased DEF Next

\* An observation that rises for a waiting item is counted, and the one it asked for
\* selects it; for an item already selected nothing changes.
LEMMA DetectsObserved ==
  ASSUME Types, WorkIsTimed, EdgesAreCounted, Observe, seen' \in Seq(Seen), NEW k \in Numbers
  PROVE  IsFiniteSet(Rises(k))' /\ (~Items[k].start => Detects(k)')
<1> DEFINE o == Head(window)
           n == Len(seen) + 1
           r == [component |-> o.component, epoch |-> o.epoch, matched |-> o.matched, ticks |-> ticks]
<1>1. /\ counts'[k] = IF Watching(k, o.component) /\ Edge(k, o) THEN counts[k] + 1 ELSE counts[k]
      /\ previousMatch'[k] = IF Watching(k, o.component) THEN k \in o.matched ELSE previousMatch[k]
      /\ cursor'[k] = IF Selects(k, o) THEN n ELSE cursor[k]
      /\ seen' = Append(seen, r) /\ epoch' = epoch
  BY Zenon DEF Observe
<1>2. o \in Sample /\ o.epoch = epoch
  <2>1. window # <<>> /\ window \in Seq(Sample) /\ 1 \in DOMAIN window /\ o = window[1]
    BY DEF Observe, Types
  <2> QED BY <2>1 DEF EdgesAreCounted
<1>3. r \in Seen /\ r.component = o.component /\ r.epoch = epoch /\ r.matched = o.matched
  BY Zenon, <1>2 DEF Sample, Seen, Types
<1>4. n \in Nat /\ seen \in Seq(Seen) /\ DOMAIN seen = 1..Len(seen) /\ Len(seen) \in Nat /\ epoch \in Nat
  BY DEF Types
<1> HIDE DEF o, r
<1>5. /\ DOMAIN seen' = DOMAIN seen \cup {n} /\ n \notin DOMAIN seen /\ Len(seen') = n
      /\ seen'[n] = r /\ \A i \in DOMAIN seen : seen'[i] = seen[i]
      /\ \A i \in DOMAIN seen : RisesAt(seen', k, i) <=> RisesAt(seen, k, i)
      /\ RisesAt(seen', k, n) <=>
           /\ o.component = Items[k].source /\ k \in o.matched
           /\ \A j \in DOMAIN seen : LastBefore(seen, k, epoch, n, j) => k \notin seen[j].matched
      /\ \A j \in DOMAIN seen' : LastBefore(seen', k, epoch, n + 1, j) <=>
           IF o.component = Items[k].source THEN j = n
           ELSE j \in DOMAIN seen /\ LastBefore(seen, k, epoch, n, j)
  <2>1. Len(seen') = n /\ seen'[n] = r
    BY <1>1, <1>4
  <2>2. LET t == Append(seen, r) IN
            /\ t \in Seq(Seen) /\ DOMAIN t = DOMAIN seen \cup {n} /\ n \notin DOMAIN seen
            /\ \A i \in DOMAIN seen : t[i] = seen[i] /\ (RisesAt(t, k, i) <=> RisesAt(seen, k, i))
            /\ RisesAt(t, k, n) <=>
                 /\ r.component = Items[k].source /\ k \in r.matched
                 /\ \A j \in DOMAIN seen : LastBefore(seen, k, r.epoch, n, j) => k \notin seen[j].matched
            /\ \A e \in Nat, j \in DOMAIN t : LastBefore(t, k, e, n + 1, j) <=>
                 IF r.component = Items[k].source /\ r.epoch = e THEN j = n
                 ELSE j \in DOMAIN seen /\ LastBefore(seen, k, e, n, j)
    BY Zenon, <1>3, <1>4, OneMore
  <2> QED BY Zenon, <1>1, <1>3, <1>4, <2>1, <2>2
<1>6. /\ Rises(k) = {i \in DOMAIN seen : RisesAt(seen, k, i)}
      /\ Rises(k)' = {i \in DOMAIN seen' : RisesAt(seen', k, i)}
  BY Zenon, <1>4, RisesNow, RisesNext
<1>7. Rises(k)' = Rises(k) \cup (IF RisesAt(seen', k, n) THEN {n} ELSE {}) /\ n \notin Rises(k)
      /\ \A i \in Rises(k) : i \in Nat /\ i < n
  <2>1. Rises(k)' = Rises(k) \cup (IF RisesAt(seen', k, n) THEN {n} ELSE {}) /\ n \notin Rises(k)
    BY Zenon, <1>5, <1>6
  <2> QED BY <1>4, <1>6, <2>1
<1>8. IsFiniteSet(Rises(k)) /\ Cardinality(Rises(k)) \in Nat
  BY Zenon, FS_CardinalityType DEF EdgesAreCounted
<1>9. /\ IsFiniteSet(Rises(k)')
      /\ Cardinality(Rises(k)') = IF RisesAt(seen', k, n) THEN Cardinality(Rises(k)) + 1 ELSE Cardinality(Rises(k))
  <2>1. CASE RisesAt(seen', k, n)
    <3>1. Rises(k)' = Rises(k) \cup {n}
      BY Zenon, <1>7, <2>1
    <3> QED BY <1>7, <1>8, <2>1, <3>1, FS_AddElement
  <2>2. CASE ~RisesAt(seen', k, n)
    <3>1. Rises(k)' = Rises(k)
      BY Zenon, <1>7, <2>2
    <3> QED BY Zenon, <1>8, <2>2, <3>1
  <2> QED BY Zenon, <2>1, <2>2
<1>10. ASSUME ~Items[k].start, cursor[k] = None
       PROVE  Detects(k)'
  <2>1. /\ counts[k] = Cardinality(Rises(k)) /\ counts[k] < Items[k].occurrence
        /\ previousMatch[k] <=> LastLevel(k)
    BY Zenon, <1>10 DEF EdgesAreCounted, Detects
  <2>2. Watching(k, o.component) <=> o.component = Items[k].source
    BY Zenon, <1>10 DEF Watching, WorkIsTimed
  <2>3. Watching(k, o.component) /\ Edge(k, o) <=> RisesAt(seen', k, n)
    BY Zenon, <1>5, <2>1, <2>2 DEF Edge, LastLevel
  <2>4. previousMatch'[k] <=> LastLevel(k)'
    <3>1. LastLevel(k)' <=> \E j \in DOMAIN seen' : LastBefore(seen', k, epoch, n + 1, j) /\ k \in seen'[j].matched
      BY Zenon, <1>1, <1>5 DEF LastLevel
    <3>2. CASE o.component = Items[k].source
      BY ZenonT(40), <1>1, <1>3, <1>5, <2>2, <3>1, <3>2
    <3>3. CASE o.component # Items[k].source
      BY Zenon, <1>1, <1>5, <2>1, <2>2, <3>1, <3>3 DEF LastLevel
    <3> QED BY Zenon, <3>2, <3>3
  <2>5. Items[k].occurrence \in Nat
    BY Zenon, Clocks DEF ItemType
  <2>6. CASE Selects(k, o)
    <3>1. RisesAt(seen', k, n) /\ cursor'[k] = n /\ counts[k] + 1 = Items[k].occurrence
      BY Zenon, <1>1, <2>3, <2>6 DEF Selects
    <3>2. {i \in Rises(k)' : i <= n} = Rises(k)' /\ n \in Rises(k)'
      BY <1>4, <1>7, <3>1
    <3>3. n # None
      BY Zenon, <1>4, SchedulerConstants
    <3>4. Cardinality(Rises(k)') = Items[k].occurrence
      BY Zenon, <1>9, <2>1, <3>1
    <3> QED BY Zenon, <3>1, <3>2, <3>3, <3>4 DEF Detects
  <2>7. CASE ~Selects(k, o)
    <3>1. cursor'[k] = None
      BY Zenon, <1>1, <1>10, <2>7
    <3>2. counts'[k] = Cardinality(Rises(k)')
      BY Zenon, <1>1, <1>9, <2>1, <2>3
    <3>3. counts'[k] < Items[k].occurrence
      BY <1>1, <1>8, <2>1, <2>5, <2>7 DEF Selects
    <3> QED BY Zenon, <2>4, <3>1, <3>2, <3>3 DEF Detects
  <2> QED BY Zenon, <2>6, <2>7
<1>11. ASSUME ~Items[k].start, cursor[k] # None
       PROVE  Detects(k)'
  <2>1. /\ cursor[k] \in Rises(k)
        /\ Cardinality({i \in Rises(k) : i <= cursor[k]}) = Items[k].occurrence
    BY Zenon, <1>11 DEF EdgesAreCounted, Detects
  <2>2. cursor'[k] = cursor[k]
    BY Zenon, <1>1, <1>11 DEF Selects, Watching, WorkIsTimed
  <2>3. {i \in Rises(k)' : i <= cursor[k]} = {i \in Rises(k) : i <= cursor[k]}
    BY <1>4, <1>7, <2>1
  <2> QED BY Zenon, <1>7, <1>11, <2>1, <2>2, <2>3 DEF Detects
<1> QED BY Zenon, <1>9, <1>10, <1>11

\* A reset starts the edge detection of every item again: no observation is of the new epoch.
LEMMA DetectsReleased ==
  ASSUME Types, EdgesAreCounted, Release, NEW k \in Numbers
  PROVE  IsFiniteSet(Rises(k))' /\ (~Items[k].start => Detects(k)')
<1>1. UNCHANGED <<seen, cursor, counts>>
  BY Zenon DEF Release, Released, itemVars
<1>2. Rises(k)' = Rises(k) /\ IsFiniteSet(Rises(k))
  BY <1>1 DEF Rises, EdgesAreCounted
<1>3. CASE UNCHANGED <<epoch, previousMatch>>
  BY Zenon, <1>1, <1>2, <1>3 DEF EdgesAreCounted, Detects, LastLevel
<1>4. CASE epoch' = epoch + 1 /\ previousMatch' = [j \in Numbers |-> FALSE]
  <2>1. ~LastLevel(k)'
    <3>1. \A i \in DOMAIN seen : seen[i].epoch # epoch + 1
      <4>1. epoch \in Nat /\ \A i \in DOMAIN seen : seen[i].epoch \in Nat
        BY Zenon, SeenEpochs DEF Types
      <4> QED BY <4>1 DEF EdgesAreCounted
    <3> QED BY Zenon, <1>1, <1>4, <3>1 DEF LastLevel, LastBefore, Before
  <2>2. ~previousMatch'[k]
    BY Zenon, <1>4
  <2> QED BY Zenon, <1>1, <1>2, <2>1, <2>2 DEF EdgesAreCounted, Detects
<1> QED BY Zenon, <1>3, <1>4 DEF Release, Released, itemVars

LEMMA EdgesKept ==
  ASSUME Types, Types', WorkIsTimed, EdgesAreCounted, Next
  PROVE  EdgesAreCounted'
<1>1. CASE Observe
  <2>1. \A k \in Numbers : IsFiniteSet(Rises(k))' /\ (~Items[k].start => Detects(k)')
    BY SMTT(30), <1>1, DetectsObserved DEF Types
  <2> DEFINE o == Head(window)
             r == [component |-> o.component, epoch |-> o.epoch, matched |-> o.matched, ticks |-> ticks]
  <2>2. window # <<>> /\ window \in Seq(Sample) /\ 1 \in DOMAIN window /\ o = window[1]
    <3>1. window # <<>> /\ window \in Seq(Sample)
      BY Zenon, <1>1 DEF Observe, Types
    <3> QED BY <3>1
  <2>3. r.epoch = epoch /\ epoch \in Nat
    BY Zenon, <2>2 DEF EdgesAreCounted, Types
  <2>4. seen' = Append(seen, r) /\ seen \in Seq(Seen) /\ epoch' = epoch
    BY Zenon, <1>1 DEF Observe, Types
  <2> HIDE DEF r
  <2>5. \A i \in DOMAIN seen' : seen'[i].epoch <= epoch
    BY <2>3, <2>4 DEF EdgesAreCounted
  <2>6. /\ \A i \in DOMAIN Tail(window) : Tail(window)[i] = window[i + 1] /\ i + 1 \in DOMAIN window
        /\ Tail(window) = <<>> <=> Len(window) = 1
    <3>1. Len(window) \in Nat /\ Len(window) > 0 /\ Len(Tail(window)) = Len(window) - 1
          /\ Tail(window) \in Seq(Sample)
      BY <2>2
    <3>2. \A i \in 1..(Len(window) - 1) : Tail(window)[i] = window[i + 1]
      BY <2>2
    <3>3. DOMAIN window = 1..Len(window) /\ DOMAIN Tail(window) = 1..(Len(window) - 1)
      BY <2>2, <3>1
    <3>4. Tail(window) = <<>> <=> Len(Tail(window)) = 0
      BY ZenonT(40), <3>1, EmptyByLength
    <3> QED BY <3>1, <3>2, <3>3, <3>4
  <2>7. window' = Tail(window) /\ pc' = IF Len(window) = 1 THEN "release" ELSE "observe"
    BY ZenonT(40), <1>1 DEF Observe
  <2> QED BY Zenon, <2>1, <2>4, <2>5, <2>6, <2>7 DEF EdgesAreCounted
<1>2. CASE Release
  <2>1. \A k \in Numbers : IsFiniteSet(Rises(k))' /\ (~Items[k].start => Detects(k)')
    BY Zenon, <1>2, DetectsReleased
  <2>2. /\ window' = window /\ window = <<>> /\ seen' = seen /\ epoch' \in {epoch, epoch + 1}
        /\ pc' \in {"release", "finalize"}
    BY Zenon, <1>2 DEF Release, Released, Raises, itemVars, EdgesAreCounted
  <2>3. \A i \in DOMAIN seen : seen[i].epoch <= epoch'
    <3>1. epoch \in Nat /\ \A i \in DOMAIN seen : seen[i].epoch \in Nat
      BY SMTT(30), SeenEpochs DEF Types
    <3> QED BY <2>2, <3>1 DEF EdgesAreCounted
  <2> QED BY <2>1, <2>2, <2>3 DEF EdgesAreCounted
<1>3. CASE BeginTest \/ Step \/ LoopOn \/ Quiesce \/ Finalize \/ Done
  <2>1. UNCHANGED <<seen, cursor, counts, previousMatch, epoch>>
    BY Zenon, <1>3 DEF BeginTest, Step, LoopOn, Quiesce, Finalize, Done, vars, itemVars
  <2>2. \A k : Rises(k)' = Rises(k) /\ LastLevel(k)' = LastLevel(k)
    BY <2>1 DEF Rises, LastLevel
  <2>3. \A k \in Numbers : IsFiniteSet(Rises(k))' /\ (~Items[k].start => Detects(k)')
    BY Zenon, <2>1, <2>2 DEF EdgesAreCounted, Detects
  <2>4. (\A i \in DOMAIN window' : window'[i].epoch = epoch) /\ (pc' = "observe" <=> window' # <<>>)
    <3>1. CASE Step
      <4>1. CASE pc' = "observe" /\ window' \in Windows
        BY Zenon, <4>1, WindowsAre
      <4>2. CASE pc' = "finalize" /\ window' = window
        BY ZenonT(60), <3>1, <4>2 DEF Step, EdgesAreCounted
      <4> QED BY Zenon, <3>1, <4>1, <4>2 DEF Step, Raises
    <3>2. CASE BeginTest \/ LoopOn \/ Quiesce \/ Finalize \/ Done
      <4>1. window' = window /\ pc # "observe" /\ pc' # "observe"
        BY Zenon, <3>2 DEF BeginTest, LoopOn, Quiesce, Finalize, Done, vars, Raises
      <4> QED BY Zenon, <4>1 DEF EdgesAreCounted
    <3> QED BY Zenon, <1>3, <3>1, <3>2
  <2> QED BY Zenon, <2>1, <2>3, <2>4 DEF EdgesAreCounted
<1> QED BY Zenon, <1>1, <1>2, <1>3 DEF Next

-----------------------------------------------------------------------------
(* The theorems. *)

LEMMA SchedInit ==
  ASSUME Init
  PROVE  SchedInv
<1>1. \A k \in Numbers : Items[k] \in ItemType
  BY Zenon, Clocks
<1>2. Types
  <2>1. pending \in [Numbers -> Nat \cup {None}] /\ cursor \in [Numbers -> Nat \cup {None}]
    BY Zenon, <1>1 DEF Init, ItemType
  <2>2. /\ ticks \in [Components -> Nat] /\ steps \in [Components -> Nat]
        /\ counts \in [Numbers -> Nat] /\ previousMatch \in [Numbers -> BOOLEAN]
    BY Zenon DEF Init
  <2>3. window \in Seq(Sample) /\ seen \in Seq(Seen) /\ releases \in Seq(Release_)
    BY DEF Init
  <2>4. /\ offset \in Nat /\ inBatch \in Nat /\ batchIndex \in Nat /\ epoch \in Nat
        /\ position \in Nat \ {0}
    BY DEF Init
  <2>5. /\ pc = "begin" /\ raised \in BOOLEAN /\ runnerFailure = None /\ quiesced = None
        /\ fired \in SUBSET Numbers
    BY Zenon DEF Init
  <2> QED BY Zenon, <2>1, <2>2, <2>3, <2>4, <2>5 DEF Types
<1>3. LoopIsRound
  <2>1. \A c : Visits(0, c) = {}
    BY DEF Visits
  <2>2. Stepped(0)
    BY Zenon, <2>1, FS_EmptySet DEF Init, Stepped
  <2>3. 0 < MaxSteps /\ 0 \in 0..MaxSteps
    BY SchedulerConstants
  <2>4. offset < MaxSteps /\ inBatch < BatchSize
    BY <1>2, <2>3, SizeOfBatch DEF Init
  <2>5. LoopAt(0)
    BY Zenon, <2>2, <2>3, <2>4 DEF Init, LoopAt
  <2> QED BY Zenon, <2>3, <2>5 DEF LoopIsRound
<1>4. WorkIsTimed
  <2>1. None \notin Nat
    BY Zenon, SchedulerConstants
  <2>2. ASSUME NEW k \in Numbers
        PROVE  /\ cursor[k] = None <=> pending[k] = None /\ k \notin fired
               /\ pending[k] # None => k \notin fired
               /\ cursor[k] # None => cursor[k] \in 0..Len(seen)
               /\ pending[k] # None => pending[k] = From(k, ArmClock(k)) + Items[k].delay
    BY <1>1, <2>1 DEF Init, ItemType, From
  <2> QED BY <2>2 DEF Init, WorkIsTimed
<1>5. EdgesAreCounted
  <2>1. ASSUME NEW k \in Numbers
        PROVE  Rises(k) = {} /\ IsFiniteSet(Rises(k)) /\ (~Items[k].start => Detects(k))
    <3>1. Rises(k) = {}
      BY <1>2, RisesNow DEF Init, Types
    <3>2. IsFiniteSet(Rises(k)) /\ Cardinality(Rises(k)) = 0
      BY Zenon, <3>1, FS_EmptySet
    <3>3. ~LastLevel(k)
      BY DEF Init, LastLevel
    <3>4. Items[k].occurrence > 0
      BY <1>1 DEF ItemType
    <3> QED BY Zenon, <3>1, <3>2, <3>3, <3>4 DEF Init, Detects
  <2> QED BY <2>1 DEF Init, EdgesAreCounted
<1>6. OutcomeIsEarned
  <2>1. None # "complete"
    BY Zenon, SchedulerConstants DEF Statuses
  <2> QED BY Zenon, <2>1 DEF Init, OutcomeIsEarned, CompleteIsTrue
<1> QED BY Zenon, <1>2, <1>3, <1>4, <1>5, <1>6 DEF SchedInv

LEMMA SchedStep ==
  ASSUME SchedInv, [Next]_vars
  PROVE  SchedInv'
<1>1. CASE Next
  BY Zenon, <1>1, TypesKept, LoopKept, WorkKept, EdgesKept, OutcomeKept DEF SchedInv
<1>2. CASE UNCHANGED vars
  <2>2. UNCHANGED <<pc, offset, inBatch, batchIndex, ticks, epoch, window, position, counts, previousMatch,
                    pending, fired, cursor, raised, runnerFailure, quiesced, result, seen, steps, releases>>
    BY Zenon, <1>2 DEF vars, loopVars, itemVars, outcomeVars, failureVars
  <2>3. Types'
    BY Zenon, <2>2 DEF SchedInv, Types
  <2>4. LoopIsRound'
    BY Zenon, <2>2 DEF SchedInv, LoopIsRound, LoopAt, Stepped, BatchSize
  <2>5. WorkIsTimed'
    BY Zenon, <2>2 DEF SchedInv, WorkIsTimed, Timed, From, Due
  <2>6. EdgesAreCounted'
    <3>1. \A k : Rises(k)' = Rises(k) /\ LastLevel(k)' = LastLevel(k)
      BY <2>2 DEF Rises, LastLevel
    <3>2. \A k : Detects(k)' = Detects(k)
      BY Zenon, <2>2, <3>1 DEF Detects
    <3> QED BY ZenonT(40), <2>2, <3>1, <3>2 DEF SchedInv, EdgesAreCounted
  <2>7. OutcomeIsEarned'
    BY Zenon, <2>2 DEF SchedInv, OutcomeIsEarned, CompleteIsTrue
  <2> QED BY Zenon, <2>3, <2>4, <2>5, <2>6, <2>7 DEF SchedInv
<1> QED BY Zenon, <1>1, <1>2

LEMMA SchedHolds == Spec => []SchedInv
BY SchedInit, SchedStep, PTL DEF Spec

\* scheduler.py, observe_step: in every test, with any schedule, items and observations, an
\* item triggered by an output is selected by exactly the occurrence it asks for.
THEOREM SelectionIsExact == Spec => []SelectedByItsOccurrence
<1>1. SchedInv => SelectedByItsOccurrence
  <2> SUFFICES ASSUME SchedInv, NEW k \in Numbers, ~Items[k].start
               PROVE  IF cursor[k] = None THEN Cardinality(Rises(k)) < Items[k].occurrence
                      ELSE /\ cursor[k] \in Rises(k)
                           /\ Cardinality({i \in Rises(k) : i <= cursor[k]}) = Items[k].occurrence
    BY Zenon DEF SelectedByItsOccurrence
  <2>1. Detects(k)
    BY Zenon DEF SchedInv, EdgesAreCounted
  <2> QED BY Zenon, <2>1 DEF Detects
<1> QED BY <1>1, SchedHolds, PTL

\* scheduler.py, release_due and the loop over the batches: items are released once, when
\* they are due and no delay is cut short, and batching leaves the round of the schedule.
THEOREM ReleasesAreOnTime == Spec => []ReleasedOnTime
<1>1. SchedInv => ReleasedWhenDue
  BY Zenon DEF SchedInv, WorkIsTimed, ReleasedWhenDue
<1>2. SchedInv => DelayKept
  BY Zenon DEF SchedInv, WorkIsTimed, DelayKept, Timed, From
<1>3. SchedInv => RoundRobin
  BY Zenon DEF SchedInv, LoopIsRound, LoopAt, Stepped, Visits, RoundRobin
<1> QED BY Zenon, <1>1, <1>2, <1>3, SchedHolds, PTL DEF ReleasedOnTime

\* scheduler.py, the status of the result: "complete" is reported only for a test that ran to
\* its end with every item released and its work drained.
THEOREM CompleteIsEarned == Spec => []CompleteIsTrue
BY SchedHolds, PTL DEF SchedInv, OutcomeIsEarned
=============================================================================
