------------------------- MODULE TransactionLedger -------------------------
(***************************************************************************)
(* The at-most-once transaction ledger of the scenario layer,              *)
(* src/myfuzz/scenario/ledger.py.                                          *)
(*                                                                         *)
(* A source (a CPU session) names every bus handshake by a key: the        *)
(* channel it used and its sequence number on that channel.  The ledger    *)
(* decides whether the target operation behind a key may run, remembers    *)
(* its receipt and answers repeated calls from memory.                     *)
(*                                                                         *)
(* A target operation is a callback: the ledger calls it half-way through  *)
(* complete_accepted or execute_once, and while it runs the code it calls  *)
(* may use the same ledger again.  So both calls are two actions here, the *)
(* part before the callback and the part after it, and the calls that have *)
(* not returned yet form a stack.  A frame holds what the Python frame     *)
(* holds: the key and the local variable "expected" read before the        *)
(* callback.                                                               *)
(*                                                                         *)
(* A call that raises before it changes anything is a stuttering step and  *)
(* has no action.                                                          *)
(***************************************************************************)
EXTENDS Integers, Sequences

CONSTANTS
  Channels,      \* (execution, testcase, source, epoch, channel) tuples
  MaxSequence,   \* bound: source sequences 1..MaxSequence per channel
  MaxDepth,      \* bound: nesting of target operations
  Payloads,      \* canonical payloads, told apart by their digest
  Receipts,      \* results a target operation can return
  NoEntry,       \* key not in the dictionary
  NoReceipt      \* entry.receipt before completion

VARIABLES
  entries,              \* _entries
  nextChannelSequence,  \* _next_channel_sequence, default 1
  nextTargetSequence,   \* _next_target_sequence, default 1
  stack,                \* calls waiting for their target operation
  effects,              \* history: how often the target of a key was started
  answers               \* history: <<key, receipt>> pairs returned to callers

vars == <<entries, nextChannelSequence, nextTargetSequence, stack, effects, answers>>

Keys == Channels \X (1..MaxSequence)
Channel(key) == key[1]
SourceSequence(key) == key[2]

Statuses == {"target_pending", "target_inflight", "uncertain_effect", "complete", "cancelled"}
Entry == [digest : Payloads, status : Statuses, receipt : Receipts \cup {NoReceipt}]
ASSUME LedgerConstants ==
  /\ MaxSequence \in Nat
  /\ MaxDepth \in Nat
  /\ NoEntry \notin Entry

Frame == [key : Keys, expected : 1..MaxSequence]

Status == [key \in Keys |-> IF entries[key] = NoEntry THEN "absent" ELSE entries[key].status]

Init ==
  /\ entries = [k \in Keys |-> NoEntry]
  /\ nextChannelSequence = [c \in Channels |-> 1]
  /\ nextTargetSequence = [c \in Channels |-> 1]
  /\ stack = <<>>
  /\ effects = [k \in Keys |-> 0]
  /\ answers = {}

SetStatus(key, status) == entries' = [entries EXCEPT ![key].status = status]

\* accept: a fresh handshake in channel order becomes a pending request.  A
\* known key returns False or raises, and changes nothing.
Accept(key, payload) ==
  /\ entries[key] = NoEntry
  /\ SourceSequence(key) = nextChannelSequence[Channel(key)]
  /\ entries' = [entries EXCEPT ![key] =
       [digest |-> payload, status |-> "target_pending", receipt |-> NoReceipt]]
  /\ nextChannelSequence' = [nextChannelSequence EXCEPT ![Channel(key)] = @ + 1]
  /\ UNCHANGED <<nextTargetSequence, stack, effects, answers>>

\* The target operation of a key starts; the call waits for it.
Call(key) ==
  /\ Len(stack) < MaxDepth
  /\ stack' = Append(stack, [key |-> key, expected |-> nextTargetSequence[Channel(key)]])
  /\ effects' = [effects EXCEPT ![key] = @ + 1]

\* Faulty form of CompleteAccepted: an uncertain request may be sent again.
CompleteAcceptedRetries(key, payload) ==
  /\ entries[key] # NoEntry
  /\ entries[key].digest = payload
  /\ entries[key].status \in {"target_pending", "uncertain_effect"}
  /\ SourceSequence(key) = nextTargetSequence[Channel(key)]
  /\ SetStatus(key, "target_inflight")
  /\ Call(key)
  /\ UNCHANGED <<nextChannelSequence, nextTargetSequence, answers>>

\* Faulty form of CompleteAccepted: no check against the target sequence.
CompleteAcceptedAnyOrder(key, payload) ==
  /\ entries[key] # NoEntry
  /\ entries[key].digest = payload
  /\ entries[key].status = "target_pending"
  /\ SetStatus(key, "target_inflight")
  /\ Call(key)
  /\ UNCHANGED <<nextChannelSequence, nextTargetSequence, answers>>

\* complete_accepted up to the call of the target operation.
CompleteAccepted(key, payload) ==
  /\ entries[key] # NoEntry
  /\ entries[key].digest = payload
  /\ entries[key].status = "target_pending"
  /\ SourceSequence(key) = nextTargetSequence[Channel(key)]
  /\ SetStatus(key, "target_inflight")
  /\ Call(key)
  /\ UNCHANGED <<nextChannelSequence, nextTargetSequence, answers>>

\* execute_once up to the call of the target operation, for a new key.
ExecuteOnce(key, payload) ==
  /\ entries[key] = NoEntry
  /\ SourceSequence(key) = nextChannelSequence[Channel(key)]
  /\ SourceSequence(key) = nextTargetSequence[Channel(key)]
  /\ entries' = [entries EXCEPT ![key] =
       [digest |-> payload, status |-> "target_inflight", receipt |-> NoReceipt]]
  /\ nextChannelSequence' = [nextChannelSequence EXCEPT ![Channel(key)] = @ + 1]
  /\ Call(key)
  /\ UNCHANGED <<nextTargetSequence, answers>>

\* complete_accepted and execute_once on a completed key: the frozen receipt is
\* returned and the target is not called.
ReturnCached(key, payload) ==
  /\ entries[key] # NoEntry
  /\ entries[key].digest = payload
  /\ entries[key].status = "complete"
  /\ answers' = answers \cup {<<key, entries[key].receipt>>}
  /\ UNCHANGED <<entries, nextChannelSequence, nextTargetSequence, stack, effects>>

Top == stack[Len(stack)]
Pop == stack' = SubSeq(stack, 1, Len(stack) - 1)

\* The innermost target operation returns: its receipt is frozen and the channel
\* moves past the value of "expected" read before the operation ran.
OperationReturns(receipt) ==
  /\ stack # <<>>
  /\ entries' = [entries EXCEPT ![Top.key].receipt = receipt, ![Top.key].status = "complete"]
  /\ nextTargetSequence' = [nextTargetSequence EXCEPT ![Channel(Top.key)] = Top.expected + 1]
  /\ answers' = answers \cup {<<Top.key, receipt>>}
  /\ Pop
  /\ UNCHANGED <<nextChannelSequence, effects>>

\* Faulty form of OperationRaises: the channel moves past the lost request.
OperationRaisesAdvances ==
  /\ stack # <<>>
  /\ SetStatus(Top.key, "uncertain_effect")
  /\ nextTargetSequence' = [nextTargetSequence EXCEPT ![Channel(Top.key)] = Top.expected + 1]
  /\ Pop
  /\ UNCHANGED <<nextChannelSequence, effects, answers>>

\* The innermost target operation raises: it may have acted, so its key is
\* uncertain for ever and its channel does not move.
OperationRaises ==
  /\ stack # <<>>
  /\ SetStatus(Top.key, "uncertain_effect")
  /\ Pop
  /\ UNCHANGED <<nextChannelSequence, nextTargetSequence, effects, answers>>

\* cancel_accepted: a request that was never sent is dropped, in channel order.
CancelAccepted(key, payload) ==
  /\ entries[key] # NoEntry
  /\ entries[key].digest = payload
  /\ entries[key].status = "target_pending"
  /\ SourceSequence(key) = nextTargetSequence[Channel(key)]
  /\ SetStatus(key, "cancelled")
  /\ nextTargetSequence' = [nextTargetSequence EXCEPT ![Channel(key)] = @ + 1]
  /\ UNCHANGED <<nextChannelSequence, stack, effects, answers>>

Next ==
  \/ \E key \in Keys, payload \in Payloads :
       \/ Accept(key, payload)
       \/ CompleteAccepted(key, payload)
       \/ ExecuteOnce(key, payload)
       \/ ReturnCached(key, payload)
       \/ CancelAccepted(key, payload)
  \/ \E receipt \in Receipts : OperationReturns(receipt)
  \/ OperationRaises

Spec == Init /\ [][Next]_vars

-----------------------------------------------------------------------------

\* Type invariant of the ledger's dictionaries, the call stack and the history.
TypeOK ==
  /\ entries \in [Keys -> Entry \cup {NoEntry}]
  /\ nextChannelSequence \in [Channels -> 1..(MaxSequence + 1)]
  /\ nextTargetSequence \in [Channels -> 1..(MaxSequence + 1)]
  /\ stack \in Seq(Frame)
  /\ effects \in [Keys -> Nat]
  /\ answers \subseteq Keys \X Receipts

\* Where a sequence lies between the two frontiers of its channel decides which
\* statuses it can have.
Position(s, target, issue, status) ==
  /\ s < target => status \in {"complete", "cancelled"}
  /\ s = target /\ s < issue =>
       status \in {"target_pending", "target_inflight", "uncertain_effect"}
  /\ target < s /\ s < issue => status = "target_pending"
  /\ issue <= s => status = "absent"

\* The shape every channel keeps under accept, complete_accepted, execute_once
\* and cancel_accepted, in any order and nested in each other: a resolved
\* prefix, at most one request at its target, a pending suffix, then sequences
\* never issued.  A request whose outcome was lost is never passed.
ChannelFrontier ==
  \A c \in Channels :
    /\ nextTargetSequence[c] <= nextChannelSequence[c]
    /\ \A s \in 1..MaxSequence :
         Position(s, nextTargetSequence[c], nextChannelSequence[c], Status[<<c, s>>])

\* A waiting call still holds its key in flight, with the "expected" of line 130
\* or 179 still equal to its sequence, however much the callback did; and no key
\* stays in flight once its call is gone.
CallsInFlight ==
  /\ \A i \in DOMAIN stack :
       /\ Status[stack[i].key] = "target_inflight"
       /\ stack[i].expected = SourceSequence(stack[i].key)
  /\ \A i, j \in DOMAIN stack : stack[i].key = stack[j].key => i = j
  /\ \A key \in Keys : Status[key] = "target_inflight" =>
       \E i \in DOMAIN stack : stack[i].key = key

\* "in-process at-most-once delivery" (ledger.py:1), and what uncertain_keys
\* and unresolved_keys certify: the target of a key was started once when the
\* key is in flight, uncertain or complete, and never when it is pending or
\* cancelled, so a cancelled request has touched nothing.
AtMostOnce ==
  \A key \in Keys : effects[key] =
    IF Status[key] \in {"target_inflight", "uncertain_effect", "complete"} THEN 1 ELSE 0

\* complete_accepted "freeze receipt": whatever a caller was ever answered for a
\* key, by the target or from the cache, is the receipt that key still holds, and
\* every completed key was answered.  So all answers for one key agree.
AnswersFrozen ==
  answers = {<<key, entries[key].receipt>> : key \in {k \in Keys : Status[k] = "complete"}}

-----------------------------------------------------------------------------

\* Each channel as OrderedDelivery sees it.
IssuedCount == [c \in Channels |-> nextChannelSequence[c] - 1]
SettledCount == [c \in Channels |-> nextTargetSequence[c] - 1]
HeadStatus ==
  [c \in Channels |-> IF nextTargetSequence[c] > MaxSequence THEN "absent"
                      ELSE Status[<<c, nextTargetSequence[c]>>]]
ChannelPhase ==
  [c \in Channels |-> IF HeadStatus[c] = "target_inflight" THEN "acting"
                      ELSE IF HeadStatus[c] = "uncertain_effect" THEN "stuck"
                      ELSE "idle"]

Delivery == INSTANCE OrderedDelivery WITH
  Limit <- MaxSequence, issued <- IssuedCount, settled <- SettledCount, phase <- ChannelPhase

\* The ledger delivers every channel in order and at most once: each of its
\* calls is a step of OrderedDelivery or leaves the channels as they were.
DeliversInOrder == Delivery!Spec
=============================================================================
