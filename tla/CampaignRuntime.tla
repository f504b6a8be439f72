--------------------------- MODULE CampaignRuntime ---------------------------
(***************************************************************************)
(* PersistentCampaignRuntime (runtime/engine.py): the life of a campaign   *)
(* over one channel, from any sequence of calls of its methods.  A call is *)
(* one step; what the channel, the kernel and the bound plan answer is a   *)
(* choice.                                                                 *)
(*                                                                         *)
(* A case of n records submits them one by one.  A submission that fails   *)
(* may leave its transaction open in a ledger; the key is named for its    *)
(* case.                                                                   *)
(***************************************************************************)
EXTENDS Integers, Sequences, FiniteSets

CONSTANTS MaxCases, MaxRecords

VARIABLES
  state,
  drifted,          \* a runner, session or process is no longer the one of the start
  cases,            \* [status, submitted, records] for each case
  lost,             \* history: the cases that left a key open
  ledger,           \* their keys in the ledgers: "pending" or "uncertain"
  recorded,         \* _collect_pending_uncertain: the rows kept, <<kind, key>>
  unread,           \* history: a ledger could not be read when the run was closed
  terminal,         \* the last state of every child process is recorded
  report,           \* _report: what it says, or NoReport
  finishes, submissions,   \* history: calls of channel.finish, and of channel.submit
  released
vars == <<state, drifted, cases, lost, ledger, recorded, unread, terminal, report, finishes, submissions, released>>

NoReport == [state |-> "none", cases |-> <<>>, recorded |-> {}, terminal |-> FALSE]

Init ==
  /\ state = "CREATED" /\ drifted = FALSE
  /\ cases = <<>> /\ lost = {} /\ ledger = <<>> /\ recorded = {}
  /\ unread = FALSE /\ terminal = FALSE
  /\ report = NoReport
  /\ finishes = 0 /\ submissions = <<>> /\ released = FALSE

BuildReport == report' = [state |-> state', cases |-> cases, recorded |-> recorded', terminal |-> terminal']
-----------------------------------------------------------------------------
Drift ==
  /\ ~drifted /\ state \in {"PREPARED", "RUNNING"}
  /\ drifted' = TRUE
  /\ UNCHANGED <<state, cases, lost, ledger, recorded, unread, terminal, report, finishes, submissions, released>>

Prepare ==
  /\ state = "CREATED" /\ state' = "PREPARED"
  /\ UNCHANGED <<drifted, cases, lost, ledger, recorded, unread, terminal, report, finishes, submissions, released>>

\* The channel begins and is found to be in order, does not begin, or begins and is not in
\* order: then it is drained and the run is over.
Start ==
  /\ state \in {"CREATED", "PREPARED"}
  /\ \/ ~drifted /\ state' = "RUNNING" /\ UNCHANGED <<finishes, terminal>>
     \/ state' = "PREPARED" /\ UNCHANGED <<finishes, terminal>>
     \/ state' = "CLOSED" /\ finishes' = finishes + 1 /\ terminal' \in BOOLEAN
  /\ UNCHANGED <<drifted, cases, lost, ledger, recorded, unread, report, submissions, released>>

Keys == DOMAIN ledger
\* _collect_pending_uncertain: a ledger that cannot be read is skipped.
Collect(read) == recorded' = recorded \cup IF read THEN {<<ledger'[k], k>> : k \in DOMAIN ledger'} ELSE {}
Row(status, submitted, records) == [status |-> status, submitted |-> submitted, records |-> records]
Calls(n) == submissions' = submissions \o [i \in 1..n |-> Len(cases) + 1]

\* A case whose records all went through; its evidence may be incomplete.
SubmitWhole(n) ==
  /\ ~drifted /\ Calls(n)
  /\ \E status \in {"effective", "submitted"} : cases' = Append(cases, Row(status, n, n))
  /\ UNCHANGED <<state, lost, ledger, recorded>>
\* Record k + 1 fails, before its effect or in it, or the identity check after the last one.
SubmitBroken(n) ==
  \E k \in 0..n, calls \in {0, 1}, open, read \in BOOLEAN :
    /\ k = n => calls = 0 /\ ~open
    /\ open => calls = 1
    /\ Calls(k + calls)
    /\ cases' = Append(cases, Row("uncertain", k, n))
    /\ lost' = IF open THEN lost \cup {Len(cases) + 1} ELSE lost
    /\ ledger' = [c \in lost' |-> IF c \in lost THEN ledger[c] ELSE "pending"]
    /\ Collect(read)
    /\ state' = "FAULTED"
\* Drift found before anything was submitted: no case is recorded.
SubmitRefused ==
  /\ state' = "FAULTED" /\ UNCHANGED <<cases, lost, ledger, recorded, submissions>>
\* Faulty form of Submit: a run that has met a fault goes on with the next case.
SubmitAfterFault(n) ==
  /\ state \in {"RUNNING", "FAULTED"} /\ Len(cases) < MaxCases
  /\ SubmitWhole(n) \/ SubmitBroken(n) \/ SubmitRefused
  /\ UNCHANGED <<drifted, unread, terminal, report, finishes, released>>
Submit(n) ==
  /\ state = "RUNNING" /\ Len(cases) < MaxCases
  /\ SubmitWhole(n) \/ SubmitBroken(n) \/ SubmitRefused
  /\ UNCHANGED <<drifted, unread, terminal, report, finishes, released>>

ReadReport ==
  /\ report = NoReport
  /\ report' = [state |-> state, cases |-> cases, recorded |-> recorded, terminal |-> terminal]
  /\ UNCHANGED <<state, drifted, cases, lost, ledger, recorded, unread, terminal, finishes, submissions, released>>
-----------------------------------------------------------------------------
\* channel.finish ends the testcase: what is pending becomes uncertain; it may fail.
ChannelFinish ==
  /\ finishes' = finishes + 1
  /\ ledger' \in {ledger, [k \in Keys |-> "uncertain"]}
\* The stages after it, each of which may fail by itself.
Settle ==
  /\ \E read \in BOOLEAN : Collect(read) /\ unread' = ~read
  /\ terminal' \in BOOLEAN
  /\ state' = "CLOSED"

\* Faulty form of Finish: the ledgers of a faulted run were read already.
FinishOnce ==
  /\ state \in {"RUNNING", "FAULTED"}
  /\ ChannelFinish
  /\ IF state = "FAULTED" THEN UNCHANGED <<recorded, unread>> ELSE \E read \in BOOLEAN : Collect(read) /\ unread' = ~read
  /\ terminal' \in BOOLEAN /\ state' = "CLOSED" /\ BuildReport
  /\ UNCHANGED <<drifted, cases, lost, submissions, released>>
Finish ==
  /\ state \in {"RUNNING", "FAULTED"}
  /\ ChannelFinish /\ Settle /\ BuildReport
  /\ UNCHANGED <<drifted, cases, lost, submissions, released>>
Abort ==
  /\ \/ state \in {"RUNNING", "FAULTED"} /\ ChannelFinish /\ Settle
     \/ /\ state \in {"CREATED", "PREPARED"} /\ state' = "CLOSED"
        /\ UNCHANGED <<ledger, recorded, unread, terminal, finishes>>
  /\ BuildReport
  /\ UNCHANGED <<drifted, cases, lost, submissions, released>>
\* A faulted run is settled without the channel; a report made earlier is kept.
\* (__exit__ aborts a running run and closes any other.)
Close ==
  /\ state # "RUNNING" /\ ~released
  /\ IF state = "FAULTED" THEN UNCHANGED ledger /\ Settle
     ELSE state' = "CLOSED" /\ UNCHANGED <<ledger, recorded, unread, terminal>>
  /\ IF report = NoReport THEN BuildReport ELSE UNCHANGED report
  /\ released' = TRUE
  /\ UNCHANGED <<drifted, cases, lost, finishes, submissions>>

Next ==
  \/ Drift \/ Prepare \/ Start \/ (\E n \in 1..MaxRecords : Submit(n))
  \/ ReadReport \/ Finish \/ Abort \/ Close
Spec == Init /\ [][Next]_vars
-----------------------------------------------------------------------------
\* Once the outcome of a submission is in doubt nothing more is submitted, no record of it is
\* tried again, and the channel is drained at most once; every call is accounted for by its case.
NothingIsRetried ==
  /\ \A i \in DOMAIN cases : cases[i].status = "uncertain" => i = Len(cases) /\ state \in {"FAULTED", "CLOSED"}
  /\ \A i \in DOMAIN cases : LET calls == Cardinality({c \in DOMAIN submissions : submissions[c] = i}) IN
       cases[i].submitted <= calls /\ calls <= cases[i].submitted + (IF cases[i].status = "uncertain" THEN 1 ELSE 0)
  /\ finishes <= 1

\* A transaction that a failed submission left open is named in what a finished or aborted
\* run reports, unless its ledger cannot be read.
OpenKeysReported ==
  state = "CLOSED" /\ ~unread /\ finishes > 0 =>
    \A k \in lost : \E kind \in {"pending", "uncertain"} : <<kind, k>> \in report.recorded

\* The report of a closed run that met a fault in a case has that case, its open keys, and
\* the last state of every process that was recorded.
FinalReport ==
  released /\ (\E i \in DOMAIN cases : cases[i].status = "uncertain") =>
    report.cases = cases /\ report.recorded = recorded /\ (terminal => report.terminal)
=============================================================================
