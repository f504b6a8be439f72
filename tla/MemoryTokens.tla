---------------------------- MODULE MemoryTokens ----------------------------
(***************************************************************************)
(* MemoryTokenPool (integration/memory_lock.py): processes that share a    *)
(* budget of memory, and an exclusive right to build, through one state    *)
(* file. Every operation takes the flock, reads the file, drops the leases *)
(* of dead processes, decides, and publishes a new file by an atomic       *)
(* rename.                                                                 *)
(*                                                                         *)
(* Threads of a process share its pool, whose condition variable lets one  *)
(* of them run; it is given up while an acquire waits.  A process may die  *)
(* between any two steps: its flock is freed, its memory is gone, the file *)
(* stays.  Its pid may be used again by another process.                   *)
(***************************************************************************)
EXTENDS Integers, Sequences, FiniteSetsExt

CONSTANTS
  Pids,         \* process ids
  Threads,      \* threads that use the pool
  Home,         \* Home[t]: the pid t belongs to
  SoftLimit,    \* soft_limit_bytes
  Estimates,    \* values of estimate_bytes
  MaxGrants,    \* bound: leases granted
  MaxStarts,    \* bound: start times, that of the first processes included
  MaxHistory,   \* _MAX_HISTORY
  None

ASSUME TokenConstants ==
  /\ Home \in [Threads -> Pids]
  /\ SoftLimit \in Nat /\ Estimates \subseteq Nat \ {0} /\ IsFiniteSet(Estimates)
  /\ {MaxGrants, MaxStarts, MaxHistory} \subseteq Nat
  /\ None \notin Threads /\ None \notin Nat

VARIABLES
  file,         \* the published state file
  exists,       \* there is one
  lock,         \* the thread that holds the flock
  pc,           \* where the call of a thread stands
  call,         \* its arguments
  draft,        \* the state the holder of the flock is to publish
  held,         \* the leases a process has and has not asked to release
  issued,       \* the TokenLease objects that acquire has returned
  granted,      \* number of tokens drawn
  running,      \* "running", "zombie" or "gone", for each pid, or "foreign": it belongs to a
                \* process of another user, which may not be signalled
  birth,        \* process_start_ticks of the process that has (or last had) a pid
  unread        \* the pids whose /proc entry cannot be read by the next who takes the flock

procVars == <<running, birth, unread>>
tokenVars == <<file, exists, lock, pc, call, draft, held, issued, granted, running, birth, unread>>

EmptyState == [leases |-> {}, bytes |-> 0, builds |-> 0, maxBuilds |-> 0, history |-> <<>>]
NoCall == [op |-> "none"]

TokenInit ==
  /\ file = EmptyState
  /\ exists = FALSE
  /\ lock = None
  /\ pc = [t \in Threads |-> "idle"]
  /\ call = [t \in Threads |-> NoCall]
  /\ draft = EmptyState
  /\ held = [p \in Pids |-> {}]
  /\ issued = {}
  /\ granted = 0
  /\ running = [p \in Pids |-> "running"]
  /\ birth = [p \in Pids |-> 1]
  /\ unread = {}

Builds(S) == Cardinality({l \in S : l.build})
Bytes(S) == MapThenSumSet(LAMBDA l : l.bytes, S)

\* Faulty form of PidMatches: the start time is not compared.
PidMatchesAnyStart(l) == running[l.pid] \in {"running", "foreign"}

\* _pid_matches: the pid is in use, by a process that may not be signalled, or whose entry
\* in /proc cannot be read (it may have ended since it was signalled), or that is no zombie
\* and started when the lease says, if it says.
PidMatches(l) ==
  \/ running[l.pid] = "foreign"
  \/ running[l.pid] # "gone" /\ l.pid \in unread
  \/ running[l.pid] = "running" /\ l.start \in {None, birth[l.pid]}

\* _append_history: the ended leases, in the order of their tokens, the last MaxHistory
\* kept.  Of an entry, only the token is modelled.
Ended(history, S) ==
  LET tokens == {l.token : l \in S}
      gone == CHOOSE f \in [1..Cardinality(tokens) -> tokens] :
                \A i, j \in DOMAIN f : i < j => f[i] < f[j]
      all == history \o gone
  IN  SubSeq(all, Max({1, Len(all) - MaxHistory + 1}), Len(all))

\* Faulty form of Reclaim: the counters are left as they were.
ReclaimKeepsCounters(s) ==
  LET stale == {l \in s.leases : ~PidMatches(l)}
  IN  [s EXCEPT !.leases = @ \ stale]

\* _reclaim_stale: the leases are visited in file order, which is the order of tokens.
Reclaim(s) ==
  LET stale == {l \in s.leases : ~PidMatches(l)}
      retained == s.leases \ stale
  IN  IF stale = {} THEN s
      ELSE [s EXCEPT !.leases = retained, !.bytes = Bytes(retained), !.builds = Builds(retained),
                     !.history = Ended(@, stale)]
Dirty(s) == ~exists \/ s # file      \* created or reclaimed

\* A call starts: it has the flock.  What it read before that is nothing, so that waiting
\* for the flock, or for the condition variable of the pool, is no step.  A thread that
\* holds the condition variable keeps the other threads of its process out.
Locks(t) ==
  /\ pc[t] \in {"idle", "waiting"}
  /\ lock = None
  /\ running[Home[t]] = "running"

\* Faulty form of Unavailable: a build does not look at the other leases.
UnavailableToAll(s, c) == s.bytes + c.bytes > SoftLimit \/ s.builds > 0

\* _try_acquire: the request does not fit what is active.
Unavailable(s, c) ==
  s.bytes + c.bytes > SoftLimit \/ s.builds > 0 \/ (c.build /\ s.leases # {})

\* Faulty form of LeaseMatches: a copy in another process releases, too.
LeaseMatchesAnywhere(l, t) == TRUE

\* _lease_matches, for the process of t.
LeaseMatches(l, t) ==
  l.pid = Home[t] /\ (l.start \in {None, birth[Home[t]]} \/ Home[t] \in unread)

\* The new record; its start time is None when /proc cannot be read.
Record(t, c, start) ==
  [token |-> granted + 1, bytes |-> c.bytes, build |-> c.build, pid |-> Home[t],
   start |-> start, owner |-> <<Home[t], birth[Home[t]]>>]

Prepare(t, s, next) ==
  /\ lock' = t
  /\ draft' = IF next = "write" THEN s ELSE EmptyState
  /\ pc' = [pc EXCEPT ![t] = next]
  /\ unread' = {}
  /\ UNCHANGED <<file, exists, issued, running, birth>>
WriteIfDirty(t, s) == Prepare(t, s, IF Dirty(s) THEN "write" ELSE "return")

\* An attempt of acquire, the first or one after a wait: read, reclaim and decide.  What is
\* to be published is in draft.
Requests == [op : {"acquire"}, bytes : Estimates, build : BOOLEAN]
TryAcquire(t, c) ==
  LET s == Reclaim(file) IN
  /\ Locks(t) /\ (pc[t] = "waiting" => c = call[t])
  /\ \/ /\ Unavailable(s, c)
        /\ WriteIfDirty(t, s)
        /\ call' = [call EXCEPT ![t] = c]
        /\ UNCHANGED granted
     \/ /\ ~Unavailable(s, c)
        /\ granted < MaxGrants
        /\ \E start \in {birth[Home[t]], None} :
             LET l == Record(t, c, start)
                 builds == s.builds + (IF l.build THEN 1 ELSE 0)
             IN  /\ Prepare(t, [s EXCEPT !.leases = @ \cup {l}, !.bytes = @ + l.bytes,
                                         !.builds = builds, !.maxBuilds = IF @ < builds THEN builds ELSE @], "write")
                 /\ call' = [call EXCEPT ![t] = [op |-> "granted", lease |-> l]]
        /\ granted' = granted + 1
  /\ UNCHANGED held

\* release, or the end of a with block; the object may have been released before, and may
\* be the copy of another process, which is refused with a ValueError.
TryRelease(t, l) ==
  LET s == Reclaim(file) IN
  /\ Locks(t) /\ pc[t] = "idle"
  /\ IF l \in s.leases /\ LeaseMatches(l, t)
     THEN Prepare(t, [s EXCEPT !.leases = @ \ {l}, !.bytes = @ - l.bytes,
                               !.builds = @ - (IF l.build THEN 1 ELSE 0),
                               !.history = Ended(@, {l})], "write")
     ELSE Prepare(t, s, "return")
  /\ held' = [held EXCEPT ![Home[t]] = @ \ {l}]
  /\ UNCHANGED <<call, granted>>

\* snapshot, and the constructor.
TrySnapshot(t) ==
  /\ Locks(t) /\ pc[t] = "idle"
  /\ WriteIfDirty(t, Reclaim(file))
  /\ UNCHANGED <<call, held, granted>>

\* _write_state_locked: the rename; or a failure before it, which the caller sees.
WriteState(t) ==
  /\ pc[t] = "write"
  /\ \/ /\ file' = draft
        /\ exists' = TRUE
        /\ UNCHANGED call
     \/ /\ call' = [call EXCEPT ![t] = NoCall]
        /\ UNCHANGED <<file, exists>>
  /\ pc' = [pc EXCEPT ![t] = "return"]
  /\ draft' = EmptyState
  /\ UNCHANGED <<lock, held, issued, granted, procVars>>

\* The flock is freed and the call goes back to its caller; an acquire that found no room
\* waits instead, unless its deadline has passed.
Return(t) ==
  LET c == call[t]
      p == Home[t]
  IN
  /\ pc[t] = "return"
  /\ lock' = None
  /\ \/ /\ pc' = [pc EXCEPT ![t] = "idle"]
        /\ call' = [call EXCEPT ![t] = NoCall]
     \/ /\ c.op = "acquire"
        /\ pc' = [pc EXCEPT ![t] = "waiting"]
        /\ UNCHANGED call
  /\ held' = IF c.op = "granted" THEN [held EXCEPT ![p] = @ \cup {c.lease}] ELSE held
  /\ issued' = IF c.op = "granted" THEN issued \cup {c.lease} ELSE issued
  /\ UNCHANGED <<file, exists, draft, granted, procVars>>

\* A process ends, at any point; a parent that has not waited for it leaves a zombie.
Die(p) ==
  /\ running[p] = "running"
  /\ running' \in {[running EXCEPT ![p] = s] : s \in {"zombie", "gone"}}
  /\ lock' = IF lock # None /\ Home[lock] = p THEN None ELSE lock
  /\ pc' = [t \in Threads |-> IF Home[t] = p THEN "idle" ELSE pc[t]]
  /\ call' = [t \in Threads |-> IF Home[t] = p THEN NoCall ELSE call[t]]
  /\ draft' = IF lock # None /\ Home[lock] = p THEN EmptyState ELSE draft
  /\ held' = [held EXCEPT ![p] = {}]
  /\ UNCHANGED <<file, exists, issued, granted, birth, unread>>
\* A zombie is waited for, or the process of another user ends.
Reap(p) ==
  /\ running[p] \in {"zombie", "foreign"}
  /\ running' = [running EXCEPT ![p] = "gone"]
  /\ UNCHANGED <<file, exists, lock, pc, call, draft, held, issued, granted, birth, unread>>
\* Another process starts on the pid, later than any other has.
Start(p) ==
  /\ running[p] = "gone"
  /\ running' \in {[running EXCEPT ![p] = s] : s \in {"running", "foreign"}}
  /\ \E now \in 1..MaxStarts :
       /\ \A q \in Pids : birth[q] < now
       /\ birth' = [birth EXCEPT ![p] = now]
  /\ UNCHANGED <<file, exists, lock, pc, call, draft, held, issued, granted, unread>>
\* Entries of /proc become unreadable for the next who takes the flock.
Hide(S) ==
  /\ lock = None /\ unread = {} /\ unread' = S
  /\ UNCHANGED <<file, exists, lock, pc, call, draft, held, issued, granted, running, birth>>

TokenNext ==
  \/ \E t \in Threads :
       \/ \E c \in Requests : TryAcquire(t, c)
       \/ \E l \in issued : TryRelease(t, l)
       \/ TrySnapshot(t) \/ WriteState(t) \/ Return(t)
  \/ \E p \in Pids : Die(p) \/ Reap(p) \/ Start(p)
  \/ \E S \in SUBSET Pids \ {{}} : Hide(S)

TokenSpec == TokenInit /\ [][TokenNext]_tokenVars
-----------------------------------------------------------------------------
InForce == file.leases
Dead == {o \in Pids \X (1..MaxStarts) :
           o[2] < birth[o[1]] \/ (o[2] = birth[o[1]] /\ running[o[1]] # "running")}

\* What a process believes it holds is recorded in the file, so that what is held at one
\* time counts against the limit; and a lease for an exclusive build is the only one in
\* force.
HeldLeases == UNION {held[p] : p \in Pids}
HoldersCovered ==
  /\ HeldLeases \subseteq InForce
  /\ \A k, l \in InForce : k.build => k = l

\* Every file an operation publishes is one that _validate_state accepts: the counters are
\* the sums over the leases and within the limits.  A lease that has ended is listed as
\* ended once, and is not in force.
BooksBalance ==
  LET s == file IN
      /\ s.bytes = Bytes(s.leases) /\ s.bytes <= SoftLimit
      /\ s.builds = Builds(s.leases) /\ s.builds <= 1 /\ s.maxBuilds >= s.builds
      /\ \A i, j \in DOMAIN s.history : s.history[i] = s.history[j] => i = j
      /\ \A i \in DOMAIN s.history, l \in s.leases : s.history[i] # l.token

\* An acquire that is told the pool is full is told so because of leases whose owner lives or
\* cannot be told from a living one: the lease recorded no start time, or its pid belongs to
\* another user's process, or to one that /proc does not show.  Without the leases of all other
\* dead owners it would not fit either.
Uncertain(l) == l.start = None \/ running[l.pid] = "foreign" \/ (running[l.pid] # "gone" /\ l.pid \in unread)
Counted == {l \in InForce : l.owner \notin Dead \/ Uncertain(l)}
RefusedByTheLiving ==
  [][\A t \in Threads :
       lock # t /\ lock' = t /\ call'[t].op = "acquire"
         => \/ Bytes(Counted) + call'[t].bytes > SoftLimit
            \/ \E l \in Counted : l.build \/ call'[t].build]_tokenVars

\* Seen through its published leases, the state file is a pool: a lease is granted only
\* where it fits, and ends only by a release of its owner or after its owner's death.
Pool == INSTANCE LeasePool WITH leases <- InForce, dead <- Dead
ActsAsPool == Pool!PoolSpec
=============================================================================
