--------------------------- MODULE DataflowRouter ---------------------------
(***************************************************************************)
(* The MMIO router between CPU sessions and device sessions,               *)
(* src/myfuzz/scenario/router.py, with the two ends that use it: the CPU   *)
(* session that accepts a beat, waits for its response and is reset        *)
(* (local_harness/cva6_axi4_session.py, local_harness/cpu_session.py), and *)
(* the runner that drains a device after stepping it (scenario/runner.py). *)
(*                                                                         *)
(* Every source has a ledger of its own.  Their channels are disjoint, so  *)
(* one TransactionLedger over all channels stands for all the ledgers, and *)
(* every change to it is one of its calls.                                 *)
(*                                                                         *)
(* The process is single-threaded.  A step that calls a target is split in *)
(* two at the call, and a reset in one part per cancelled request, so that *)
(* an exception can stop it half-way; nothing else runs in between.        *)
(***************************************************************************)
EXTENDS Naturals, Sequences, FiniteSets, Functions

CONSTANTS
  Sources,      \* CPU sessions that share the router
  SourceOrder,  \* the sessions in the order reset_all visits them
  Slots,        \* Slots[s]: how many beats session s can wait for, by name
  Deferred,     \* sessions built with defer_mmio
  Devices,      \* device ids; the address of a beat selects one
  Confirming,   \* devices whose delivery row waits for the source callback
  Ordinary,     \* the confirming devices with ordinary APB receipts
  MaxConfirmations, \* _MAX_ORDINARY_DELIVERY_CONFIRMATIONS
  MaxSequence,  \* bound: beats per epoch
  MaxEpoch,     \* bound: resets per source
  MaxBeats,     \* bound: beats of all sources in all epochs,
  InlineCost,   \* a beat of a session that does not queue counting as this many
  NoCall, NoKey, NoEntry, NoReceipt

VARIABLES
  entries, nextChannelSequence, nextTargetSequence, stack, effects, answers,
  queued,       \* _queued, all devices and all ledgers in one list
  call,         \* the target call in progress, with drain_one's "index"
  deliveries,   \* the rows of deliveries, by device
  deliveryCount,\* _target_delivery_counts
  confirmations,\* keys of _ordinary_delivery_confirmations
  slots,        \* what each session knows of its outstanding beats
  sequence,     \* the session's MMIO sequence counter
  epoch,        \* the session's reset_epoch
  mode,         \* the runner: running, quiescing or failed
  resetting,    \* sources reset_all has still to visit
  scan,         \* requests the loop of cancel_for_ledger has seen
  remaining     \* its list of requests to keep

ledgerVars == <<entries, nextChannelSequence, nextTargetSequence, stack, effects, answers>>
routerVars == <<queued, call, deliveries, deliveryCount, confirmations>>
sessionVars == <<slots, sequence, epoch>>
resetVars == <<resetting, scan, remaining>>
vars == <<ledgerVars, routerVars, sessionVars, mode, resetVars>>

\* The key of a beat: its channel is the source in its epoch.
Ledger == INSTANCE TransactionLedger WITH
  Channels <- Sources \X (0..MaxEpoch), MaxDepth <- 1,
  Payloads <- Devices, Receipts <- {"response"}

Item == [source : Sources, slot : UNION {Slots[s] : s \in Sources}, key : Ledger!Keys, device : Devices]
CallRecord == [item : Item, index : Nat]

ASSUME RouterConstants ==
  /\ MaxSequence \in Nat /\ MaxEpoch \in Nat /\ MaxBeats \in Nat /\ InlineCost \in Nat
  /\ Deferred \subseteq Sources /\ Confirming \subseteq Devices
  /\ Ordinary \subseteq Confirming /\ MaxConfirmations \in Nat
  /\ IsFiniteSet(Sources) /\ SourceOrder \in Seq(Sources)
  /\ IsInjective(SourceOrder) /\ Range(SourceOrder) = Sources
  /\ NoReceipt # "response" /\ NoEntry \notin Ledger!Entry /\ NoCall \notin CallRecord

Idle == [state |-> "idle", key |-> NoKey]

Init ==
  /\ Ledger!Init
  /\ queued = <<>>
  /\ call = NoCall
  /\ deliveries = [d \in Devices |-> <<>>]
  /\ deliveryCount = [d \in Devices |-> 0]
  /\ confirmations = {}
  /\ slots = [s \in Sources |-> [x \in Slots[s] |-> Idle]]
  /\ sequence = [s \in Sources |-> 0]
  /\ epoch = [s \in Sources |-> 0]
  /\ mode = "running"
  /\ resetting = <<>>
  /\ scan = 0
  /\ remaining = <<>>

\* No Python frame of the router or of reset_all is active.
AtRest == call = NoCall /\ resetting = <<>>

\* _mmio_key: the next key of the session's channel.
NextKey(s) == <<<<s, epoch[s]>>, sequence[s] + 1>>

Beats(S) == Cardinality({key \in Ledger!Keys : key[1][1] \in S /\ entries[key] # NoEntry})

\* A session accepts a beat only into a free slot, and not while it quiesces.
Ready(s, x) ==
  /\ AtRest /\ mode = "running"
  /\ slots[s][x] = Idle
  /\ sequence[s] < MaxSequence
  /\ Beats(Sources) + (InlineCost - 1) * Beats(Sources \ Deferred) < MaxBeats

\* _route_mmio with defer_mmio: enqueue accepts the beat and queues it.
Enqueue(s, x, d) ==
  /\ s \in Deferred
  /\ Ready(s, x)
  /\ Ledger!Accept(NextKey(s), d)
  /\ queued' = Append(queued, [source |-> s, slot |-> x, key |-> NextKey(s), device |-> d])
  /\ slots' = [slots EXCEPT ![s][x] = [state |-> "queued", key |-> NextKey(s)]]
  /\ sequence' = [sequence EXCEPT ![s] = @ + 1]
  /\ UNCHANGED <<call, deliveries, deliveryCount, confirmations, epoch, mode, resetVars>>

\* _route_mmio without defer_mmio: transact calls the target at once.
Transact(s, x, d) ==
  /\ s \notin Deferred
  /\ Ready(s, x)
  /\ Ledger!ExecuteOnce(NextKey(s), d)
  /\ call' = [item |-> [source |-> s, slot |-> x, key |-> NextKey(s), device |-> d], index |-> 0]
  /\ sequence' = [sequence EXCEPT ![s] = @ + 1]
  /\ UNCHANGED <<queued, deliveries, deliveryCount, confirmations, slots, epoch, mode, resetVars>>

\* target_ready, and the position of the oldest request of a device.
TargetReady(key) == Ledger!Status[key] = "target_pending" /\ key[2] = nextTargetSequence[key[1]]
QueuedFor(d) == {i \in DOMAIN queued : queued[i].device = d}
\* No confirmation of an ordinary device can be kept any more.
Full(d) == d \in Ordinary /\ Cardinality(confirmations) >= MaxConfirmations

\* Faulty form of Oldest: the scan keeps the last match.
Newest(d) == CHOOSE i \in QueuedFor(d) : \A j \in QueuedFor(d) : j <= i

Oldest(d) == CHOOSE i \in QueuedFor(d) : \A j \in QueuedFor(d) : i <= j

\* drain_one, after the runner stepped device d, up to the target call.
DrainOne(d) ==
  /\ AtRest /\ mode # "failed"
  /\ QueuedFor(d) # {}
  /\ TargetReady(queued[Oldest(d)].key)
  /\ ~Full(d)
  /\ Ledger!CompleteAccepted(queued[Oldest(d)].key, d)
  /\ call' = [item |-> queued[Oldest(d)], index |-> Oldest(d)]
  /\ UNCHANGED <<queued, deliveries, deliveryCount, confirmations, sessionVars, mode, resetVars>>

\* drain_one finds no room for the confirmation and raises before it sends the
\* request.  The runner fails.
DrainRefused(d) ==
  /\ AtRest /\ mode # "failed"
  /\ QueuedFor(d) # {}
  /\ TargetReady(queued[Oldest(d)].key)
  /\ Full(d)
  /\ mode' = "failed"
  /\ UNCHANGED <<ledgerVars, routerVars, sessionVars, resetVars>>

\* Faulty form of PopCalled: the head of the queue is dropped.
PopHead == queued' = IF call.index = 0 THEN queued ELSE Tail(queued)

\* _queued.pop(index), with the index found before the target ran.
PopCalled == queued' = IF call.index = 0 THEN queued
                       ELSE SubSeq(queued, 1, call.index - 1)
                              \o SubSeq(queued, call.index + 1, Len(queued))

\* deliver: the device has acted once more; the row of the delivery is recorded
\* now or, by a confirming device, once the callback has returned.
Deliver(recorded) ==
  LET d == call.item.device IN
  /\ deliveryCount' = [deliveryCount EXCEPT ![d] = @ + 1]
  /\ deliveries' = IF recorded
       THEN [deliveries EXCEPT ![d] =
               Append(@, [key |-> call.item.key, target_delivery_order |-> deliveryCount[d] + 1])]
       ELSE deliveries

\* The target returns and the session takes the response: through its callback,
\* or as the return value of transact.  Every delivery is recorded.
TargetReturns ==
  /\ call # NoCall
  /\ Ledger!OperationReturns("response")
  /\ PopCalled
  /\ Deliver(TRUE)
  /\ slots' = [slots EXCEPT ![call.item.source][call.item.slot] =
                 [state |-> "answered", key |-> call.item.key]]
  /\ confirmations' = IF call.index # 0 /\ call.item.device \in Ordinary
                       THEN confirmations \cup {call.item.key} ELSE confirmations
  /\ call' = NoCall
  /\ UNCHANGED <<sequence, epoch, mode, resetVars>>

\* The target returns but the callback of the session raises: the receipt stays
\* cached, the request is gone from the queue, and a device that confirms its
\* deliveries gets no row.  The runner fails.
CallbackRaises ==
  /\ call # NoCall /\ call.index # 0
  /\ Ledger!OperationReturns("response")
  /\ PopCalled
  /\ Deliver(call.item.device \notin Confirming)
  /\ call' = NoCall
  /\ mode' = "failed"
  /\ UNCHANGED <<confirmations, sessionVars, resetVars>>

\* The target raises: it may have acted.  The request leaves the queue because
\* its key is uncertain, and the runner fails.
TargetRaises ==
  /\ call # NoCall
  /\ Ledger!OperationRaises
  /\ PopCalled
  /\ call' = NoCall
  /\ mode' = "failed"
  /\ UNCHANGED <<deliveries, deliveryCount, confirmations, sessionVars, resetVars>>

\* The CPU takes the response of a slot on its bus.
ConsumeResponse(s, x) ==
  /\ AtRest /\ mode # "failed"
  /\ slots[s][x].state = "answered"
  /\ slots' = [slots EXCEPT ![s][x] = Idle]
  /\ UNCHANGED <<ledgerVars, routerVars, sequence, epoch, mode, resetVars>>

\* quiesce: the sessions stop accepting beats; the runner goes on stepping.
BeginQuiesce ==
  /\ AtRest /\ mode = "running"
  /\ mode' = "quiescing"
  /\ UNCHANGED <<ledgerVars, routerVars, sessionVars, resetVars>>

\* reset_all: every session is reset, one after the other.
BeginReset ==
  /\ AtRest /\ mode = "running"
  /\ \A s \in Sources : epoch[s] < MaxEpoch
  /\ resetting' = SourceOrder
  /\ UNCHANGED <<ledgerVars, routerVars, sessionVars, mode, scan, remaining>>

OwnItems(s) == {i \in DOMAIN queued : queued[i].source = s}
Uncancelled(s) == {i \in OwnItems(s) : Ledger!Status[queued[i].key] # "cancelled"}

\* cancel_for_ledger, one turn of its loop: a request of the session is cancelled in
\* its ledger, another one is kept.  Both are still queued.
CancelOne ==
  /\ resetting # <<>> /\ scan < Len(queued)
  /\ queued[scan + 1].source = Head(resetting)
  /\ Ledger!CancelAccepted(queued[scan + 1].key, queued[scan + 1].device)
  /\ scan' = scan + 1
  /\ UNCHANGED <<routerVars, sessionVars, mode, resetting, remaining>>

KeepOne ==
  /\ resetting # <<>> /\ scan < Len(queued)
  /\ queued[scan + 1].source # Head(resetting)
  /\ remaining' = Append(remaining, queued[scan + 1])
  /\ scan' = scan + 1
  /\ UNCHANGED <<ledgerVars, routerVars, sessionVars, mode, resetting>>

QueuedSlots(s) == {x \in Slots[s] : slots[s][x].state = "queued"}

\* Faulty form of ForgetBeats: an unread answer survives the reset.
ForgetBeatsKeepsAnswers(s, e) ==
  /\ resetting # <<>> /\ s = Head(resetting)
  /\ scan = Len(queued)
  /\ queued' = remaining /\ scan' = 0 /\ remaining' = <<>>
  /\ slots' = [slots EXCEPT ![s] =
                 [x \in Slots[s] |-> IF x \in QueuedSlots(s) THEN Idle ELSE @[x]]]
  /\ sequence' = [sequence EXCEPT ![s] = 0]
  /\ epoch' = [epoch EXCEPT ![s] = e]
  /\ UNCHANGED <<ledgerVars, call, deliveries, deliveryCount, confirmations>>

\* What reset_local does after the loop of cancel_for_ledger: the requests it kept are
\* the queue, the number of the others must be the session's own count, the session forgets its
\* beats and restarts its process in epoch e.
ForgetBeats(s, e) ==
  /\ resetting # <<>> /\ s = Head(resetting)
  /\ scan = Len(queued)
  /\ Cardinality(QueuedSlots(s)) = Cardinality(OwnItems(s))
  /\ queued' = remaining /\ scan' = 0 /\ remaining' = <<>>
  /\ slots' = [slots EXCEPT ![s] = [x \in Slots[s] |-> Idle]]
  /\ sequence' = [sequence EXCEPT ![s] = 0]
  /\ epoch' = [epoch EXCEPT ![s] = e]
  /\ UNCHANGED <<ledgerVars, call, deliveries, deliveryCount, confirmations>>

\* reset_local succeeds and reset_all goes on to the next session.
ResetLocal(s) ==
  /\ ForgetBeats(s, epoch[s] + 1)
  /\ resetting' = Tail(resetting)
  /\ UNCHANGED mode

\* The process does not end, or does not start again: reset_all fails half-way.
RestartRaises(s) ==
  /\ \E e \in {epoch[s], epoch[s] + 1} : ForgetBeats(s, e)
  /\ resetting' = <<>>
  /\ mode' = "failed"

\* The process of the session had died: reset_local raises before it cancels
\* anything.
ResetRaises ==
  /\ resetting # <<>> /\ scan = 0
  /\ resetting' = <<>>
  /\ mode' = "failed"
  /\ UNCHANGED <<ledgerVars, routerVars, sessionVars, scan, remaining>>

Next ==
  \/ \E s \in Sources, d \in Devices : \E x \in Slots[s] : Enqueue(s, x, d) \/ Transact(s, x, d)
  \/ \E d \in Devices : DrainOne(d) \/ DrainRefused(d)
  \/ TargetReturns
  \/ CallbackRaises
  \/ TargetRaises
  \/ \E s \in Sources : \E x \in Slots[s] : ConsumeResponse(s, x)
  \/ BeginQuiesce
  \/ BeginReset
  \/ CancelOne \/ KeepOne
  \/ \E s \in Sources : ResetLocal(s) \/ RestartRaises(s)
  \/ ResetRaises

TargetEnds == TargetReturns \/ CallbackRaises \/ TargetRaises
ResetMoves == CancelOne \/ KeepOne \/ (\E s \in Sources : ResetLocal(s) \/ RestartRaises(s)) \/ ResetRaises

\* A target call ends (commands have deadlines), a reset runs to its end, and the
\* runner keeps stepping every device and every source.
Fairness ==
  /\ WF_vars(TargetEnds)
  /\ WF_vars(ResetMoves)
  /\ \A d \in Devices : WF_vars(DrainOne(d) \/ DrainRefused(d))
  /\ \A s \in Sources : \A x \in Slots[s] : WF_vars(ConsumeResponse(s, x))

Spec == Init /\ [][Next]_vars /\ Fairness

-----------------------------------------------------------------------------

\* Between steps, the queue holds exactly the requests the ledgers have accepted
\* and not yet sent, each once: pop(index) never drops another request, and no
\* reset leaves a cancelled one behind or loses one of another source.
QueueIsPending ==
  AtRest =>
    /\ IsInjective(queued)
    /\ {queued[i].key : i \in DOMAIN queued} =
         {key \in Ledger!Keys : Ledger!Status[key] = "target_pending"}

\* A request at the front of its device may wait for an older one of its channel
\* at another device, and delay everyone behind it.  The oldest request of a session
\* never waits: as long as anything is queued, ready_targets is not empty, and
\* cancel_for_ledger, which goes through the queue from front to back, meets no
\* request that cancel_accepted refuses and so never stops half-way.
OldestIsReady ==
  call = NoCall /\ mode # "failed" => \A s \in Sources : \A i \in Uncancelled(s) :
    (\A j \in Uncancelled(s) : i <= j) => TargetReady(queued[i].key)

\* The count a session keeps of its queued beats is the number of its requests in
\* the queue, so reset_local's "queue accounting mismatch" cannot be raised.
QueueAccounting ==
  mode # "failed" => \A s \in Sources :
    Cardinality(QueuedSlots(s)) = Cardinality(OwnItems(s))

\* The queue, the ledgers and the counts of the sessions agree, and what is queued
\* can be drained or cancelled, whatever raised and wherever a reset stopped.
QueueIsSound == QueueIsPending /\ OldestIsReady /\ QueueAccounting

\* A slot that is answered was answered by the target of its own beat, in the
\* current epoch of its session: a reset leaves nothing that could complete a beat
\* of the CPU that was there before.
AnswersAreCurrent ==
  \A s \in Sources : \A x \in Slots[s] : slots[s][x] # Idle =>
    /\ slots[s][x].key[1] = <<s, epoch[s]>>
    /\ slots[s][x].state = "answered" => Ledger!Status[slots[s][x].key] = "complete"

\* deliveries tells what happened at the targets: a device has one row for every
\* request it completed, numbered in the order it saw them, except for a response
\* a confirming device could not hand over, and then the runner failed.  Only a
\* delivery whose source callback returned is confirmed, and never too many.
DeliveriesTellTheTruth ==
  \A d \in Devices :
    LET rows == deliveries[d]
        done == {key \in Ledger!Keys : Ledger!Status[key] = "complete" /\ entries[key].digest = d}
    IN /\ \A i \in DOMAIN rows : rows[i].target_delivery_order = i /\ rows[i].key \in done
       /\ deliveryCount[d] = Cardinality(done)
       /\ Len(rows) # Cardinality(done) => mode = "failed" /\ d \in Confirming
       /\ Cardinality(confirmations) <= MaxConfirmations
       /\ d \in Ordinary => confirmations \cap done =
            {rows[i].key : i \in {j \in DOMAIN rows : rows[j].key[1][1] \in Deferred}}

\* What the sessions are answered and what the router reports is what happened at the
\* targets in the epoch concerned.
AnswersAreTrue == AnswersAreCurrent /\ DeliveriesTellTheTruth

\* A queued beat is answered, unless its session is reset or the runner fails:
\* requests of several sources over several devices never block each other.
EveryBeatAnswered ==
  \A s \in Deferred : \A x \in Slots[s] :
    slots[s][x].state = "queued" ~> slots[s][x].state # "queued" \/ mode = "failed"

\* Once the runner quiesces, everything outstanding is drained and consumed, or
\* the runner fails.
QuiesceDrains ==
  mode = "quiescing" ~>
    mode = "failed" \/ (queued = <<>> /\ \A s \in Sources : \A x \in Slots[s] : slots[s][x] = Idle)

\* Nothing that is queued waits for ever, while the test runs or when it quiesces.
NothingWaits == EveryBeatAnswered /\ QuiesceDrains

=============================================================================
