--------------------------- MODULE CpuMemoryPort ---------------------------
(***************************************************************************)
(* A CPU session and the memory behind it: the instruction and data ports  *)
(* of local_harness/cpu_session.py, the memory service that answers them   *)
(* (scenario/memory_service.py), the transaction ledger and the memory.    *)
(*                                                                         *)
(* The service validates a request, then runs the memory access as the     *)
(* target operation of the ledger; a write that was committed is published *)
(* in a bounded stream until the runner acknowledges it.  A fetch from a   *)
(* reserved instruction slot that is still empty waits, with its key, and  *)
(* is tried again when instructions are accepted and at every step.        *)
(*                                                                         *)
(* The process is single-threaded: "phase" says how far the step of the    *)
(* CPU has come, and "call" is the access the ledger is about to run.      *)
(* MMIO requests are in DataflowRouter.  Every access has the width of the *)
(* port, one word.                                                         *)
(***************************************************************************)
EXTENDS Naturals, Sequences, FiniteSets, Functions

CONSTANTS
  Regions, Size, Windows, Readable, Writable, Widths, WordBytes, Values, InitialByte,
  MaxInitializedBytes, MaxGeneration, MaxCommits, Undetermined,
  SlotAddresses,  \* words declared as instruction slots before the test
  Capacity,       \* commit_stream_capacity
  MaxSequence,    \* bound: requests of a port per epoch
  MaxEpoch,       \* bound: resets
  MaxRequests,    \* bound: requests of both ports in all epochs,
  ResetCost,      \* a reset counting as this many of them
  None            \* no entry, no receipt, no call, no response

VARIABLES
  bytes, initialImages, instructionSlots, commitSequences, generation, acceptances, reply,
  entries, nextChannelSequence, nextTargetSequence, stack, effects, answers,
  call,           \* the service call whose commit has not run yet
  pendingCommits, \* keys of _pending_commits, in order
  acknowledged,   \* history: the keys the runner has acknowledged
  committed,      \* history: the keys of all writes, in the order they took effect
  response,       \* _pending_instr and _pending_data
  waiting,        \* _waiting_instr
  sequences,      \* _sequences
  epoch,          \* reset_epoch
  phase,          \* where the session is in its step
  failed          \* an exception has ended the test

memoryVars == <<bytes, initialImages, instructionSlots, commitSequences, generation, acceptances, reply>>
ledgerVars == <<entries, nextChannelSequence, nextTargetSequence, stack, effects, answers>>
serviceVars == <<call, pendingCommits, acknowledged, committed>>
sessionVars == <<response, waiting, sequences, epoch>>
vars == <<memoryVars, ledgerVars, serviceVars, sessionVars, phase, failed>>

Ports == {"instr", "data"}
Memory == INSTANCE PersistentMemory

\* The words of the memory, what is read from or written to some of its bytes, and
\* the payloads that the service hands to the ledger.
Words == {a \in Memory!Addresses : a % WordBytes = 0 /\ Memory!Resolve(a, WordBytes) # {}}
Data == UNION {[cells -> Values] : cells \in SUBSET Memory!Cells}
Accesses == [op : {"read"}, address : Words]
              \cup [op : {"write"}, address : Words, enabled : SUBSET Memory!Cells, value : Data]

Ledger == INSTANCE TransactionLedger WITH
  Channels <- Ports \X (0..MaxEpoch), MaxDepth <- 1, NoEntry <- None, NoReceipt <- None,
  Payloads <- Accesses, Receipts <- Data \cup {"written"}

Calls == [op : {"read"}, key : Ledger!Keys, address : Words]
           \cup [op : {"write"}, key : Ledger!Keys, address : Words, enabled : SUBSET Memory!Cells, value : Data]
Fetches == [key : Ledger!Keys, address : Words]

ASSUME PortConstants ==
  /\ Capacity \in Nat \ {0} /\ MaxSequence \in Nat /\ MaxEpoch \in Nat /\ {MaxRequests, ResetCost} \subseteq Nat
  /\ SlotAddresses \subseteq Words
  /\ None \notin Ledger!Entry /\ None \notin Calls /\ None \notin Fetches
  /\ Memory!MemoryConstants

SlotCells == UNION {Memory!Span(place, WordBytes) :
                      place \in UNION {Memory!Resolve(a, WordBytes) : a \in SlotAddresses}}

Init ==
  /\ Memory!Empty(SlotCells)
  /\ Ledger!Init
  /\ call = None
  /\ pendingCommits = <<>> /\ acknowledged = <<>> /\ committed = <<>>
  /\ response = [p \in Ports |-> None]
  /\ waiting = None
  /\ sequences = [p \in Ports |-> 0]
  /\ epoch = 0
  /\ phase = "idle"
  /\ failed = FALSE

\* _key: the next key of a port.
Key(port) == <<<<port, epoch>>, sequences[port] + 1>>
Place(address) == CHOOSE place \in Memory!Resolve(address, WordBytes) : TRUE
Lanes(address) == Memory!Span(Place(address), WordBytes)

\* service.read up to its commit: an access that validate_read refuses leaves the
\* ledger alone, so its key can be used again.
ServiceRead(key, address) ==
  /\ Memory!Loadable(Place(address), WordBytes)
  /\ Ledger!ExecuteOnce(key, [op |-> "read", address |-> address])
  /\ call' = [op |-> "read", key |-> key, address |-> address]

\* service.write up to its commit: validate_write and the capacity of the commit
\* stream are checked while the ledger does not know the key.
Storable(address, enabled) ==
  /\ Place(address)[1] \in Writable
  /\ Memory!Budget(enabled)
  /\ Len(pendingCommits) < Capacity

\* Faulty form of ServiceWrite: the write is left to fail in its commit.
ServiceWriteUnchecked(key, address, enabled, value) ==
  /\ Ledger!ExecuteOnce(key, [op |-> "write", address |-> address, enabled |-> enabled, value |-> value])
  /\ call' = [op |-> "write", key |-> key, address |-> address, enabled |-> enabled, value |-> value]

ServiceWrite(key, address, enabled, value) ==
  /\ Storable(address, enabled)
  /\ Ledger!ExecuteOnce(key, [op |-> "write", address |-> address, enabled |-> enabled, value |-> value])
  /\ call' = [op |-> "write", key |-> key, address |-> address, enabled |-> enabled, value |-> value]

\* The commit of a read: the snapshot becomes the receipt and the response.
CommitRead ==
  /\ call # None /\ call.op = "read"
  /\ Memory!Read(call.address, WordBytes)
  /\ Ledger!OperationReturns(reply')
  /\ response' = [response EXCEPT ![call.key[1][1]] = [key |-> call.key, data |-> reply']]
  /\ waiting' = IF call.key[1][1] = "instr" THEN None ELSE waiting
  /\ UNCHANGED <<pendingCommits, acknowledged, committed>>

\* The commit of a write, and its publication once the ledger has the receipt.  A
\* write with no lane enabled is published as well.
CommitWrite ==
  /\ call # None /\ call.op = "write"
  /\ IF call.enabled = {} THEN UNCHANGED memoryVars
     ELSE Memory!Write(call.address, WordBytes, call.enabled, call.value)
  /\ Ledger!OperationReturns("written")
  /\ pendingCommits' = Append(pendingCommits, call.key)
  /\ committed' = Append(committed, call.key)
  /\ response' = [response EXCEPT ![call.key[1][1]] = [key |-> call.key, data |-> "written"]]
  /\ UNCHANGED <<acknowledged, waiting>>

Commit ==
  /\ CommitRead \/ CommitWrite
  /\ call' = None
  /\ UNCHANGED <<sequences, epoch, phase, failed>>

AtRest == call = None /\ ~failed

\* _resume_instruction: a waiting fetch is tried again under its own key, at the
\* start of a step and after instructions were accepted.
Resume(from, to) ==
  /\ AtRest /\ phase = from
  /\ phase' = to
  /\ IF waiting # None /\ Memory!Loadable(Place(waiting.address), WordBytes)
     THEN ServiceRead(waiting.key, waiting.address)
     ELSE UNCHANGED <<ledgerVars, call>>
  /\ UNCHANGED <<memoryVars, pendingCommits, acknowledged, committed, sessionVars, failed>>

\* Faulty form of BeginStep: a waiting fetch is only tried again on acceptance.
BeginStepNoRetry ==
  /\ AtRest /\ phase = "idle"
  /\ phase' = "instr"
  /\ UNCHANGED <<memoryVars, ledgerVars, serviceVars, sessionVars, failed>>

BeginStep == Resume("idle", "instr")
ResumeAccepted == Resume("accepted", "idle")

After(port) == IF port = "instr" THEN "data" ELSE "idle"
Requests == Cardinality({key \in Ledger!Keys : entries[key] # None}) + (IF waiting = None THEN 0 ELSE 1)

Asks(port) ==
  /\ AtRest /\ phase = port
  /\ response[port] = None /\ (port = "instr" => waiting = None)
  /\ sequences[port] < MaxSequence /\ Requests + ResetCost * epoch < MaxRequests
  /\ phase' = After(port)

\* The port is idle, or the CPU takes its response.
PortRests(port) ==
  /\ AtRest /\ phase = port
  /\ phase' = After(port)
  /\ response' \in {response, [response EXCEPT ![port] = None]}
  /\ UNCHANGED <<memoryVars, ledgerVars, serviceVars, waiting, sequences, epoch, failed>>

\* _serve: a fetch or a load of a word.  A fetch of an empty slot waits.
Load(port, address) ==
  /\ Asks(port)
  /\ sequences' = [sequences EXCEPT ![port] = @ + 1]
  /\ \/ /\ ServiceRead(Key(port), address)
        /\ UNCHANGED waiting
     \/ /\ port = "instr"
        /\ Lanes(address) \cap (instructionSlots \ Memory!Determined) # {}
        /\ waiting' = [key |-> Key(port), address |-> address]
        /\ UNCHANGED <<ledgerVars, call>>
  /\ UNCHANGED <<memoryVars, pendingCommits, acknowledged, committed, response, epoch, failed>>

\* _serve: a store of some lanes of a word.
Store(address, enabled, value) ==
  /\ Asks("data")
  /\ ServiceWrite(Key("data"), address, enabled, value)
  /\ sequences' = [sequences EXCEPT !["data"] = @ + 1]
  /\ UNCHANGED <<memoryVars, pendingCommits, acknowledged, committed, response, waiting, epoch, failed>>

\* The service refuses the access before the ledger hears of it; the exception
\* ends the test.  A data access to an empty slot is one of these.
Refused(port, address, enabled) ==
  /\ Asks(port)
  /\ \/ /\ ~Memory!Loadable(Place(address), WordBytes)
        /\ port = "data" \/ Lanes(address) \cap (instructionSlots \ Memory!Determined) = {}
     \/ port = "data" /\ ~Storable(address, enabled)
  /\ sequences' = [sequences EXCEPT ![port] = @ + 1]
  /\ failed' = TRUE
  /\ UNCHANGED <<memoryVars, ledgerVars, serviceVars, response, waiting, epoch>>

\* accept_instructions of the session, up to the retry of a waiting fetch.
AcceptInstructions(address, value) ==
  /\ AtRest /\ phase = "idle"
  /\ Memory!AcceptInstructions(address, WordBytes, value)
  /\ phase' = "accepted"
  /\ UNCHANGED <<ledgerVars, serviceVars, sessionVars, failed>>

\* ack_commit_events: a prefix of the stream is released.
Acknowledge(n) ==
  /\ AtRest /\ phase = "idle"
  /\ pendingCommits' = SubSeq(pendingCommits, n + 1, Len(pendingCommits))
  /\ acknowledged' = acknowledged \o SubSeq(pendingCommits, 1, n)
  /\ UNCHANGED <<memoryVars, ledgerVars, call, committed, sessionVars, phase, failed>>

\* Faulty forms of Reset: commits and the waiting fetch as given.
ResetTo(commits, fetch) ==
  /\ AtRest /\ phase = "idle"
  /\ epoch < MaxEpoch /\ Requests + ResetCost * (epoch + 1) <= MaxRequests
  /\ Memory!WarmReset \/ Memory!ColdReset
  /\ epoch' = epoch + 1
  /\ sequences' = [p \in Ports |-> 0]
  /\ pendingCommits' = commits
  /\ response' = [p \in Ports |-> None]
  /\ waiting' = fetch
  /\ UNCHANGED <<ledgerVars, call, acknowledged, committed, phase, failed>>
ResetDropsCommits == ResetTo(<<>>, None)
ResetKeepsWaiting == ResetTo(pendingCommits, waiting)

\* reset_local of the session, then the memory's part of reset_all.
Reset ==
  /\ AtRest /\ phase = "idle"
  /\ epoch < MaxEpoch /\ Requests + ResetCost * (epoch + 1) <= MaxRequests
  /\ Memory!WarmReset \/ Memory!ColdReset
  /\ epoch' = epoch + 1
  /\ sequences' = [p \in Ports |-> 0]
  /\ response' = [p \in Ports |-> None]
  /\ waiting' = None
  /\ UNCHANGED <<ledgerVars, serviceVars, phase, failed>>

Next ==
  \/ BeginStep
  \/ ResumeAccepted
  \/ Commit
  \/ \E port \in Ports :
       \/ PortRests(port)
       \/ \E address \in Words : Load(port, address)
       \/ \E address \in Words : \E enabled \in SUBSET Lanes(address) : Refused(port, address, enabled)
  \/ \E address \in Words :
       \/ \E value \in [Lanes(address) -> Values] : AcceptInstructions(address, value)
       \/ \E enabled \in SUBSET Lanes(address) : \E value \in [enabled -> Values] :
            Store(address, enabled, value)
  \/ \E n \in 1..Len(pendingCommits) : Acknowledge(n)
  \/ Reset

\* The runner goes on stepping the CPU.
Fairness == WF_vars(BeginStep) /\ WF_vars(Commit) /\ WF_vars(ResumeAccepted)
              /\ \A port \in Ports : WF_vars(PortRests(port))

Spec == Init /\ [][Next]_vars /\ Fairness

-----------------------------------------------------------------------------

\* What validate_read, validate_write and the capacity check promise: the commit
\* that runs inside the ledger meets no error, so no memory access is ever left
\* with an uncertain effect and no channel is blocked by one.
CommitCannotFail ==
  /\ call # None =>
       IF call.op = "read" THEN Memory!Loadable(Place(call.address), WordBytes)
       ELSE Storable(call.address, call.enabled)
  /\ \A key \in Ledger!Keys : Ledger!Status[key] \in {"absent", "complete"}
                               \/ (call # None /\ call.key = key)

\* The commit stream tells every write once, in the order of the effects, and never
\* holds more than its capacity: nothing is lost or repeated across refusals,
\* acknowledgements and resets, and lookup_pending_commit always finds the entry.
StreamIsExact ==
  /\ acknowledged \o pendingCommits = committed
  /\ IsInjective(committed)
  /\ Range(committed) = {key \in Ledger!Keys :
       Ledger!Status[key] = "complete" /\ entries[key].digest.op = "write"}
  /\ Len(pendingCommits) <= Capacity

\* "Freeze RAM responses when the memory service commits a CPU request"
\* (memory_service.py:1): what a port is about to answer is the receipt of its own
\* request of this epoch, whatever was stored since.
ResponsesFrozen ==
  \A port \in Ports : response[port] # None =>
    /\ response[port].key[1] = <<port, epoch>>
    /\ Ledger!Status[response[port].key] = "complete"
    /\ entries[response[port].key].receipt = response[port].data

\* A waiting fetch has used up its sequence number but not its key: the ledger does
\* not know it and expects it next, so the retry is neither out of order nor a
\* conflict, and no other fetch came in between.
WaitingKeyIsFresh ==
  waiting # None /\ call = None =>
    /\ Ledger!Status[waiting.key] = "absent"
    /\ waiting.key = <<<<"instr", epoch>>, sequences["instr"]>>
    /\ nextChannelSequence[waiting.key[1]] = waiting.key[2]
    /\ response["instr"] = None

\* What a port holds over several steps, an answer or a fetch that waits, belongs to
\* its own request and to the present epoch.
PortsAreCurrent == ResponsesFrozen /\ WaitingKeyIsFresh

\* Once every byte of the word is there, from the source of instructions or from a
\* store of the CPU itself, the waiting fetch is answered.
FetchServed ==
  (waiting # None /\ Lanes(waiting.address) \subseteq Memory!Determined) ~> (waiting = None \/ failed)
=============================================================================
