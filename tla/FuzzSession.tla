----------------------------- MODULE FuzzSession -----------------------------
(***************************************************************************)
(* run_session (fuzz/session.py): the conversation with a host process     *)
(* that asks for inputs and reports cases.  The host, the thread that      *)
(* pumps its lines into a bounded queue, and the main loop with its case   *)
(* budget, its deadline and its stall limit run concurrently.              *)
(*                                                                         *)
(* A line is [token, input]: input is the number of the input a case line  *)
(* is about.  Time is abstracted: a stall may be declared whenever the     *)
(* queue is empty, the deadline may pass at any time.  The host may die,   *)
(* close its output or fall silent anywhere; an obedient one keeps to the  *)
(* protocol.                                                               *)
(***************************************************************************)
EXTENDS Integers, Sequences

CONSTANTS
  Cases,          \* budget.cases, or a bound on the cases of a batch without it
  HasDeadline,    \* budget.seconds is given
  QueueLines,     \* _QUEUE_LINES
  OutLines,       \* lines that fit the host's output pipe
  InLines,        \* lines that fit the host's input pipe
  MaxUnanswered,  \* _MAX_UNANSWERED_SUBMISSIONS
  MaxRambles      \* bound: lines of a host that does not keep to the protocol

ASSUME SessionConstants ==
  /\ {Cases, QueueLines, OutLines, InLines, MaxUnanswered} \subseteq Nat \ {0}
  /\ HasDeadline \in BOOLEAN /\ MaxRambles \in Nat

VARIABLES
  limited,        \* budget.cases is given
  obedient,       \* the host keeps to the protocol
  rambled,        \* lines printed by one that does not
  host,           \* "running", "closed" (its output) or "exited"
  turn,           \* where an obedient host stands: "ready", "asked", "busy", "ended", "quiet"
  busyWith,       \* the input it executes
  reported,       \* history: case lines printed
  stdin, out,     \* the pipes
  lines,          \* the queue between the reader thread and the main loop
  reader,         \* "pumping" or "done"
  phase,          \* of the main loop: "loop", "closing" or "done"
  stop, endSent, stalled, late, summary, error,     \* late: the deadline has passed
  budgetReached,  \* stats.budget_reached: "none", "cases" or "seconds"
  submitted, executed,
  sent,           \* history: what the main loop wrote to the host
  mixedUp,        \* history: a case was counted for an input that is not its own
  status

hostVars == <<limited, obedient, rambled, host, turn, busyWith, reported>>
pipes == <<stdin, out, lines>>
flags == <<stop, endSent, stalled, late, summary, error, budgetReached>>
counts == <<submitted, executed, sent, mixedUp>>
vars == <<hostVars, pipes, reader, phase, flags, counts, status>>

End == 0          \* the END message; inputs are numbered from 1
Eof == [token |-> "EOF", input |-> 0]
Line(token, input) == [token |-> token, input |-> input]

Init ==
  /\ limited \in BOOLEAN /\ (limited \/ HasDeadline)
  /\ obedient \in BOOLEAN /\ rambled = 0
  /\ host = "running" /\ turn = "ready" /\ busyWith = 0 /\ reported = 0
  /\ stdin = <<>> /\ out = <<>> /\ lines = <<>>
  /\ reader = "pumping" /\ phase = "loop"
  /\ stop = FALSE /\ endSent = FALSE /\ stalled = FALSE /\ late = FALSE
  /\ summary = FALSE /\ error \in BOOLEAN       \* the seed corpus may be refused
  /\ budgetReached = "none"
  /\ submitted = 0 /\ executed = 0 /\ sent = <<>> /\ mixedUp = FALSE
  /\ status = "none"
-----------------------------------------------------------------------------
\* The host.  What it prints when nobody reads any more is lost, as if it were silent.
Prints(token, input) ==
  /\ host = "running" /\ reader = "pumping" /\ Len(out) < OutLines
  /\ out' = Append(out, Line(token, input))
  /\ reported' = IF token = "case" THEN reported + 1 ELSE reported
HostAsks ==
  /\ obedient /\ turn = "ready" /\ (limited \/ reported < Cases)
  /\ Prints("NEED_RECORD", 0)
  /\ turn' = "asked"
  /\ UNCHANGED <<rambled, host, busyWith, stdin>>
HostReads ==
  /\ host = "running" /\ stdin # <<>>
  /\ obedient => turn = "asked"
  /\ stdin' = Tail(stdin)
  /\ turn' = IF Head(stdin) = End THEN "ended" ELSE "busy"
  /\ busyWith' = Head(stdin)
  /\ UNCHANGED <<rambled, host, reported, out>>
HostReports ==
  /\ obedient /\ turn = "busy"
  /\ Prints("case", busyWith)
  /\ turn' = "ready"
  /\ UNCHANGED <<rambled, host, busyWith, stdin>>
HostSums ==
  /\ obedient /\ turn = "ended"
  /\ Prints("summary", 0)
  /\ turn' = "quiet"
  /\ UNCHANGED <<rambled, host, busyWith, stdin>>
HostRambles ==
  /\ ~obedient /\ rambled < MaxRambles
  /\ \E token \in {"NEED_RECORD", "case", "summary", "other"} : Prints(token, 0)
  /\ rambled' = rambled + 1
  /\ UNCHANGED <<host, turn, busyWith, stdin>>
HostEnds ==
  /\ host # "exited"
  /\ host' \in {"closed", "exited"} \ {host}
  /\ UNCHANGED <<rambled, turn, busyWith, reported, stdin, out>>
Host ==
  /\ HostAsks \/ HostReads \/ HostReports \/ HostSums \/ HostRambles \/ HostEnds
  /\ UNCHANGED <<limited, obedient, lines, reader, phase, flags, counts, status>>

\* _pump_lines: a line, or the end: of the stream, or of the reader at a line it cannot read
\* or decode.  The end is not announced when the queue stays full for a second.
Pump ==
  /\ reader = "pumping" /\ out # <<>> /\ Len(lines) < QueueLines
  /\ lines' = Append(lines, Head(out))
  /\ out' = Tail(out)
  /\ UNCHANGED reader
PumpEnds ==
  /\ reader = "pumping"
  /\ out # <<>> \/ host # "running"
  /\ lines' = IF Len(lines) < QueueLines THEN Append(lines, Eof) ELSE lines
  /\ reader' = "done"
  /\ out' = <<>>
Reader ==
  /\ Pump \/ PumpEnds
  /\ UNCHANGED <<hostVars, stdin, phase, flags, counts, status>>
DeadlinePasses ==
  /\ HasDeadline /\ ~late
  /\ late' = TRUE
  /\ UNCHANGED <<hostVars, pipes, reader, phase, stop, endSent, stalled, summary, error, budgetReached, counts, status>>
-----------------------------------------------------------------------------
\* The main loop.  _send blocks while the input pipe is full, and fails when the host is gone.
Gone == host = "exited"
Room(messages) == Gone \/ Len(stdin) + Len(messages) <= InLines
Send(messages) ==
  /\ Room(messages)
  /\ stdin' = IF Gone THEN stdin ELSE stdin \o messages
  /\ sent' = sent \o messages

\* END is sent once; an error is noted if it cannot be.
SendEnd(failed) ==
  /\ IF endSent THEN UNCHANGED <<stdin, sent>> ELSE Send(<<End>>)
  /\ error' = (error \/ failed \/ (~endSent /\ Gone))
  /\ endSent' = TRUE

Took(token) ==
  /\ phase = "loop" /\ lines # <<>> /\ Head(lines).token = token
  /\ lines' = Tail(lines)

TakeNeed ==
  /\ Took("NEED_RECORD")
  /\ LET unanswered == submitted + 1 - executed > MaxUnanswered IN
     \/ stop /\ SendEnd(FALSE) /\ UNCHANGED <<stop, submitted>>
     \/ ~stop /\ SendEnd(TRUE) /\ stop' = TRUE /\ UNCHANGED submitted     \* no input generated
     \/ /\ ~stop /\ Gone
        /\ error' = TRUE /\ stop' = TRUE
        /\ UNCHANGED <<stdin, sent, endSent, submitted>>
     \/ /\ ~stop /\ ~Gone
        /\ Send(<<submitted + 1>> \o IF unanswered THEN <<End>> ELSE <<>>)
        /\ submitted' = submitted + 1
        /\ stop' = unanswered /\ endSent' = unanswered /\ error' = (error \/ unanswered)
  /\ UNCHANGED <<phase, executed, mixedUp, summary, stalled, budgetReached>>

Enough(n) == limited /\ n >= Cases

\* Faulty form of TakeCase: the cases that arrive after a stop was requested are ignored.
TakeCaseUntilStop ==
  /\ Took("case")
  /\ IF stop THEN UNCHANGED <<stop, error, executed, mixedUp, budgetReached>>
     ELSE /\ executed' = executed + 1
          /\ mixedUp' = (mixedUp \/ Head(lines).input # submitted)
          /\ stop' = (Enough(executed + 1) \/ late)
          /\ budgetReached' = IF Enough(executed + 1) THEN "cases" ELSE IF late THEN "seconds" ELSE "none"
          /\ UNCHANGED error
  /\ UNCHANGED <<stdin, sent, endSent, submitted, phase, summary, stalled>>

\* A case line: it or its feedback cannot be read, or it is counted for the last input.
TakeCase ==
  /\ Took("case")
  /\ \/ /\ error' = TRUE /\ stop' = TRUE
        /\ UNCHANGED <<executed, mixedUp, budgetReached>>
     \/ /\ executed' = executed + 1
        /\ mixedUp' = (mixedUp \/ Head(lines).input # submitted)
        /\ stop' = (stop \/ Enough(executed') \/ late)
        /\ budgetReached' = IF stop THEN budgetReached
                            ELSE IF Enough(executed') THEN "cases"
                            ELSE IF late THEN "seconds" ELSE budgetReached
        /\ UNCHANGED error
  /\ UNCHANGED <<stdin, sent, endSent, submitted, phase, summary, stalled>>
TakeSummary ==
  /\ Took("summary")
  /\ \/ summary' = TRUE /\ UNCHANGED error
     \/ error' = TRUE /\ UNCHANGED summary
  /\ UNCHANGED <<stdin, sent, endSent, submitted, executed, mixedUp, stop, phase, stalled, budgetReached>>
TakeOther ==
  /\ Took("other")
  /\ UNCHANGED <<stdin, counts, flags, phase>>
TakeEof ==
  /\ Took("EOF")
  /\ phase' = "closing"
  /\ UNCHANGED <<stdin, counts, flags>>

\* The queue stayed empty: until the deadline, or for the stall limit.
\* Faulty form of TimeUp: that END was sent is not noted.
TimeUpForgets ==
  /\ phase = "loop" /\ lines = <<>> /\ late /\ ~stop
  /\ Send(<<End>>)
  /\ error' = (error \/ Gone)
  /\ stop' = TRUE /\ budgetReached' = "seconds"
  /\ UNCHANGED <<lines, endSent, phase, summary, stalled, submitted, executed, mixedUp>>
TimeUp ==
  /\ phase = "loop" /\ lines = <<>> /\ late /\ ~stop
  /\ SendEnd(FALSE)
  /\ stop' = TRUE /\ budgetReached' = "seconds"
  /\ UNCHANGED <<lines, phase, summary, stalled, submitted, executed, mixedUp>>
\* Faulty form of Stall: after END, nobody watches the host.
StallBeforeEnd ==
  /\ phase = "loop" /\ lines = <<>> /\ ~(late /\ ~stop) /\ ~endSent
  /\ stalled' = TRUE /\ error' = TRUE
  /\ phase' = "closing"
  /\ UNCHANGED <<stdin, lines, counts, stop, endSent, summary, budgetReached>>
Stall ==
  /\ phase = "loop" /\ lines = <<>> /\ ~(late /\ ~stop)
  /\ stalled' = TRUE /\ error' = TRUE
  /\ phase' = "closing"
  /\ UNCHANGED <<stdin, lines, counts, stop, endSent, summary, budgetReached>>

Loop ==
  /\ TakeNeed \/ TakeCase \/ TakeSummary \/ TakeOther \/ TakeEof \/ TimeUp \/ Stall
  /\ UNCHANGED <<hostVars, out, reader, late, status>>

\* The host is waited for, or stopped; what is left in the queue goes to the log.
Close ==
  /\ phase = "closing"
  /\ host' = "exited"
  /\ error' = (error \/ host # "exited")
  /\ phase' = "done"
  /\ status' = IF stalled THEN "host_stalled"
               ELSE IF ~summary THEN "host_error"
               ELSE IF limited /\ executed < Cases /\ budgetReached = "none" THEN "host_error"
               ELSE IF error' THEN "completed_with_error"
               ELSE "completed"
  /\ UNCHANGED <<limited, obedient, rambled, turn, busyWith, reported, pipes, reader, stop, endSent, stalled, late, summary, budgetReached, counts>>

Next == Host \/ Reader \/ DeadlinePasses \/ Loop \/ Close
Spec == Init /\ [][Next]_vars
-----------------------------------------------------------------------------
\* END is the last thing the host is sent, and is sent once, whoever decided to stop.
NothingAfterEnd == \A i \in DOMAIN sent : sent[i] = End => i = Len(sent)

\* A batch of an obedient host that counts as completed without an error has counted every
\* case the host reported, each for the input it executed, and has used up one of its budgets.
CompletedIsComplete ==
  obedient /\ status = "completed" =>
    /\ executed = reported /\ ~mixedUp
    /\ Enough(executed) \/ (late /\ endSent)
=============================================================================
