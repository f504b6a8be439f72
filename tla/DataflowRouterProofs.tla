------------------------ MODULE DataflowRouterProofs ------------------------
(***************************************************************************)
(* The queue of the router is sound and what it answers is true, for any   *)
(* sessions, devices, slots, beats and resets.                             *)
(*                                                                         *)
(* Books is all the router needs of its ledgers, and it is first proved    *)
(* what their calls do to the status of a key.  RInv says how the queue,   *)
(* the call in progress, the slots of the sessions and a reset that has    *)
(* come half-way stand towards the books; it has one lemma per action.     *)
(* Told, about the rows of deliveries, needs RInv and comes after it.      *)
(*                                                                         *)
(* That Books holds is taken from TransactionLedgerProofs: each step of    *)
(* the router leaves the ledgers alone or is one call of a ledger          *)
(* (LedgerCalled), so the invariant proved there is one of the router as   *)
(* well (AllInv).                                                          *)
(***************************************************************************)
EXTENDS DataflowRouter, TLAPS

\* What the router relies on of its ledgers.
Books ==
  /\ entries \in [Ledger!Keys -> Ledger!Entry \cup {NoEntry}]
  /\ stack \in Seq(Ledger!Frame)
  /\ \A i \in DOMAIN stack : Ledger!Status[stack[i].key] = "target_inflight"
  /\ \A key \in Ledger!Keys : Ledger!Status[key] = "target_inflight" =>
       \E i \in DOMAIN stack : stack[i].key = key
  /\ \A key \in Ledger!Keys : Ledger!Status[key] # "absent" => key[2] < nextChannelSequence[key[1]]
  /\ \A key \in Ledger!Keys :
       Ledger!Status[key] = "target_pending" /\ key[2] # nextTargetSequence[key[1]] =>
         LET n == nextTargetSequence[key[1]] IN
         /\ n \in 1..MaxSequence /\ n < key[2] /\ <<key[1], n>> \in Ledger!Keys
         /\ Ledger!Status[<<key[1], n>>] \in {"target_pending", "target_inflight", "uncertain_effect"}

SlotValue == [state : {"idle", "queued", "answered"}, key : Ledger!Keys \cup {NoKey}]
Row == [key : Ledger!Keys, target_delivery_order : Nat]

Types ==
  /\ queued \in Seq(Item)
  /\ call \in CallRecord \cup {NoCall}
  /\ deliveries \in [Devices -> Seq(Row)]
  /\ deliveryCount \in [Devices -> Nat]
  /\ confirmations \subseteq Ledger!Keys
  /\ DOMAIN slots = Sources /\ \A s \in Sources : slots[s] \in [Slots[s] -> SlotValue]
  /\ sequence \in [Sources -> Nat]
  /\ epoch \in [Sources -> 0..MaxEpoch]
  /\ mode \in {"running", "quiescing", "failed"}
  /\ resetting \in Seq(Sources)
  /\ remaining \in Seq(Item)

Own(item) ==
  /\ item.slot \in Slots[item.source]
  /\ item.key[1] = <<item.source, epoch[item.source]>>
  /\ entries[item.key] # NoEntry /\ entries[item.key].digest = item.device

Frames ==
  /\ call = NoCall => stack = <<>>
  /\ call # NoCall =>
       /\ resetting = <<>> /\ mode # "failed"
       /\ Len(stack) = 1 /\ stack[1].key = call.item.key
       /\ Own(call.item)
       /\ call.index = 0 => call.item.source \notin Deferred /\ slots[call.item.source][call.item.slot] = Idle
       /\ call.index # 0 => /\ call.index \in DOMAIN queued /\ queued[call.index] = call.item
                            /\ ~Full(call.item.device)
Visits ==
  resetting # <<>> =>
    /\ mode = "running"
    /\ IsInjective(resetting)
    /\ \A i \in DOMAIN resetting : epoch[resetting[i]] < MaxEpoch

Expected(i) ==
  IF call # NoCall /\ i = call.index THEN "target_inflight"
  ELSE IF resetting # <<>> /\ queued[i].source = Head(resetting) /\ i <= scan
       THEN "cancelled" ELSE "target_pending"
Ordered(q) ==
  \A i, j \in DOMAIN q : i < j /\ q[i].source = q[j].source => q[i].key[2] < q[j].key[2]
Line ==
  /\ \A i \in DOMAIN queued :
       /\ Own(queued[i]) /\ queued[i].source \in Deferred
       /\ Ledger!Status[queued[i].key] = Expected(i)
  /\ Ordered(queued)
Kept ==
  /\ scan \in 0..Len(queued)
  /\ resetting = <<>> => scan = 0
  /\ scan = 0 => remaining = <<>>
  /\ Ordered(remaining)
  /\ \A j \in DOMAIN remaining :
       \E i \in 1..scan : remaining[j] = queued[i] /\ queued[i].source # Head(resetting)
  /\ \A i \in 1..scan : queued[i].source # Head(resetting) =>
       \E j \in DOMAIN remaining : remaining[j] = queued[i]
Waiting ==
  \A key \in Ledger!Keys : Ledger!Status[key] = "target_pending" => \E i \in DOMAIN queued : queued[i].key = key
Lost == \A key \in Ledger!Keys : Ledger!Status[key] = "uncertain_effect" => mode = "failed"
Known ==
  mode # "failed" =>
    /\ \A i \in DOMAIN queued :
         slots[queued[i].source][queued[i].slot] = [state |-> "queued", key |-> queued[i].key]
    /\ \A s \in Sources : \A x \in QueuedSlots(s) :
         \E i \in DOMAIN queued : queued[i].source = s /\ queued[i].slot = x
Current ==
  \A s \in Sources : \A x \in Slots[s] : slots[s][x] # Idle =>
    /\ slots[s][x].state # "idle" /\ slots[s][x].key \in Ledger!Keys
    /\ slots[s][x].key[1] = <<s, epoch[s]>>
    /\ slots[s][x].state = "answered" => Ledger!Status[slots[s][x].key] = "complete"
Confirmed == \A key \in confirmations : Ledger!Status[key] = "complete"
RInv ==
  /\ Books /\ Types /\ Frames /\ Visits /\ Line /\ Waiting /\ Lost /\ Known /\ Current
  /\ Confirmed /\ Kept

-----------------------------------------------------------------------------
(* The ledger, as the router uses it. *)

\* Only the status of key changes, to st; a payload that is known stays.
Turned(key, st) ==
  /\ \A k \in Ledger!Keys : Ledger!Status'[k] = IF k = key THEN st ELSE Ledger!Status[k]
  /\ \A k \in Ledger!Keys : entries[k] # NoEntry =>
       entries'[k] # NoEntry /\ entries'[k].digest = entries[k].digest

LEMMA KeyShape ==
  /\ \A key \in Ledger!Keys : /\ key = <<key[1], key[2]>> /\ key[2] \in 1..MaxSequence
                              /\ key[1] \in Sources \X (0..MaxEpoch)
                              /\ key[1][1] \in Sources /\ key[1][2] \in 0..MaxEpoch
  /\ \A s \in Sources, e \in 0..MaxEpoch, n \in 1..MaxSequence :
       /\ <<<<s, e>>, n>> \in Ledger!Keys
       /\ <<<<s, e>>, n>>[1] = <<s, e>> /\ <<<<s, e>>, n>>[2] = n /\ <<s, e>>[1] = s /\ <<s, e>>[2] = e
BY DEF Ledger!Keys

\* The statuses that the books allow.
LEMMA BooksShow ==
  ASSUME Books
  PROVE  /\ entries \in [Ledger!Keys -> Ledger!Entry \cup {NoEntry}]
         /\ stack \in Seq(Ledger!Frame)
         /\ \A key \in Ledger!Keys : /\ Ledger!Status[key] = "absent" <=> entries[key] = NoEntry
                                     /\ entries[key] # NoEntry => Ledger!Status[key] = entries[key].status
         /\ \A key \in Ledger!Keys : Ledger!Status[key] = "target_inflight" =>
              \E i \in DOMAIN stack : stack[i].key = key
<1>1. entries \in [Ledger!Keys -> Ledger!Entry \cup {NoEntry}] /\ stack \in Seq(Ledger!Frame)
  BY Zenon DEF Books
<1>2. \A key \in Ledger!Keys : Ledger!Status[key] = IF entries[key] = NoEntry THEN "absent" ELSE entries[key].status
  BY Zenon DEF Ledger!Status
<1>3. \A e \in Ledger!Entry : e.status # "absent"
  BY Zenon DEF Ledger!Entry, Ledger!Statuses
<1>4. \A key \in Ledger!Keys : Ledger!Status[key] = "target_inflight" =>
              \E i \in DOMAIN stack : stack[i].key = key
  BY Zenon DEF Books
<1> QED BY Zenon, <1>1, <1>2, <1>3, <1>4

\* A request that waits is the next one of its channel, or that one is not settled.
LEMMA PendingKey ==
  ASSUME Books, NEW key \in Ledger!Keys, Ledger!Status[key] = "target_pending",
         key[2] # nextTargetSequence[key[1]]
  PROVE  LET n == nextTargetSequence[key[1]] IN
         /\ n \in 1..MaxSequence /\ n < key[2] /\ <<key[1], n>> \in Ledger!Keys
         /\ Ledger!Status[<<key[1], n>>] \in {"target_pending", "target_inflight", "uncertain_effect"}
BY Zenon DEF Books

\* An entry is made for a key that has none.
LEMMA EntryMade ==
  ASSUME Books, NEW key \in Ledger!Keys, entries[key] = NoEntry, NEW d \in Devices,
         NEW st \in {"target_pending", "target_inflight"},
         entries' = [entries EXCEPT ![key] = [digest |-> d, status |-> st, receipt |-> NoReceipt]]
  PROVE  /\ Ledger!Status[key] = "absent" /\ Turned(key, st)
         /\ entries'[key] # NoEntry /\ entries'[key].digest = d
<1>1. entries \in [Ledger!Keys -> Ledger!Entry \cup {NoEntry}]
  BY Zenon, BooksShow
<1>2. [digest |-> d, status |-> st, receipt |-> NoReceipt] \in Ledger!Entry
  BY Zenon DEF Ledger!Entry, Ledger!Statuses
<1>3. [digest |-> d, status |-> st, receipt |-> NoReceipt] # NoEntry
  BY Zenon, <1>2, RouterConstants
<1> QED BY Zenon, <1>1, <1>3 DEF Turned, Ledger!Status

\* An entry moves to another status.
LEMMA EntryMoved ==
  ASSUME Books, NEW key \in Ledger!Keys, entries[key] # NoEntry, NEW st,
         st \in {"target_inflight", "uncertain_effect", "complete", "cancelled"},
         \/ entries' = [entries EXCEPT ![key].status = st]
         \/ entries' = [entries EXCEPT ![key].receipt = "response", ![key].status = st]
  PROVE  Turned(key, st)
<1>1. entries \in [Ledger!Keys -> Ledger!Entry \cup {NoEntry}] /\ entries[key] \in Ledger!Entry
  BY Zenon, BooksShow
<1>2. PICK e \in Ledger!Entry : e = entries[key]
  BY Zenon, <1>1
<1>3. PICK f \in Ledger!Entry : /\ f.digest = e.digest /\ f.status = st
                                /\ entries' = [entries EXCEPT ![key] = f]
  <2>1. CASE entries' = [entries EXCEPT ![key].status = st]
    <3>1. [e EXCEPT !.status = st] \in Ledger!Entry
      BY Zenon, <1>2 DEF Ledger!Entry, Ledger!Statuses
    <3>2. /\ [e EXCEPT !.status = st].digest = e.digest /\ [e EXCEPT !.status = st].status = st
      BY Zenon, <1>2 DEF Ledger!Entry
    <3> QED BY Zenon, <2>1, <3>1, <3>2, <1>2
  <2>2. CASE entries' = [entries EXCEPT ![key].receipt = "response", ![key].status = st]
    <3> DEFINE g == [[e EXCEPT !.receipt = "response"] EXCEPT !.status = st]
    <3>1. g \in Ledger!Entry /\ g.digest = e.digest /\ g.status = st
      BY Zenon, <1>2 DEF Ledger!Entry, Ledger!Statuses
    <3>2. entries' = [entries EXCEPT ![key] = g]
      BY Zenon, <2>2, <1>1, <1>2
    <3> HIDE DEF g
    <3> QED BY Zenon, <3>1, <3>2
  <2> QED BY Zenon, <2>1, <2>2
<1>4. f # NoEntry
  BY Zenon, <1>3, RouterConstants
<1> QED BY Zenon, <1>1, <1>2, <1>3, <1>4 DEF Turned, Ledger!Status

LEMMA Accepts ==
  ASSUME Books, NEW key \in Ledger!Keys, NEW d \in Devices, Ledger!Accept(key, d)
  PROVE  /\ stack' = stack
         /\ Ledger!Status[key] = "absent" /\ Turned(key, "target_pending")
         /\ entries'[key] # NoEntry /\ entries'[key].digest = d
         /\ \A k \in Ledger!Keys : k[1] = key[1] /\ Ledger!Status[k] # "absent" => k[2] < key[2]
<1>1. /\ entries[key] = NoEntry /\ key[2] = nextChannelSequence[key[1]] /\ stack' = stack
      /\ entries' = [entries EXCEPT ![key] = [digest |-> d, status |-> "target_pending", receipt |-> NoReceipt]]
  BY Zenon DEF Ledger!Accept, Ledger!SourceSequence, Ledger!Channel
<1>3. /\ Ledger!Status[key] = "absent" /\ Turned(key, "target_pending")
      /\ entries'[key] # NoEntry /\ entries'[key].digest = d
  BY Zenon, <1>1, EntryMade
<1>4. ASSUME NEW k \in Ledger!Keys, k[1] = key[1], Ledger!Status[k] # "absent" PROVE k[2] < key[2]
  BY <1>1, <1>4 DEF Books
<1> QED BY Zenon, <1>1, <1>3, <1>4

LEMMA Calls ==
  ASSUME Books, NEW key \in Ledger!Keys, stack = <<>>, Ledger!Call(key)
  PROVE  Len(stack') = 1 /\ stack'[1].key = key
BY DEF Ledger!Call

LEMMA Sends ==
  ASSUME Books, NEW key \in Ledger!Keys, NEW d \in Devices, Ledger!CompleteAccepted(key, d), stack = <<>>
  PROVE  /\ Len(stack') = 1 /\ stack'[1].key = key
         /\ Ledger!Status[key] = "target_pending" /\ Turned(key, "target_inflight")
<1>1. /\ entries[key] # NoEntry /\ entries[key].status = "target_pending" /\ Ledger!Call(key)
      /\ entries' = [entries EXCEPT ![key].status = "target_inflight"]
  BY Zenon DEF Ledger!CompleteAccepted, Ledger!SetStatus
<1>3. Turned(key, "target_inflight")
  BY Zenon, <1>1, EntryMoved
<1>4. Ledger!Status[key] = "target_pending"
  BY Zenon, <1>1, BooksShow
<1> QED BY Zenon, <1>1, <1>3, <1>4, Calls

LEMMA Executes ==
  ASSUME Books, NEW key \in Ledger!Keys, NEW d \in Devices, Ledger!ExecuteOnce(key, d), stack = <<>>
  PROVE  /\ Len(stack') = 1 /\ stack'[1].key = key
         /\ Ledger!Status[key] = "absent" /\ Turned(key, "target_inflight")
         /\ entries'[key] # NoEntry /\ entries'[key].digest = d
<1>1. /\ entries[key] = NoEntry /\ Ledger!Call(key)
      /\ entries' = [entries EXCEPT ![key] = [digest |-> d, status |-> "target_inflight", receipt |-> NoReceipt]]
  BY Zenon DEF Ledger!ExecuteOnce
<1>3. /\ Ledger!Status[key] = "absent" /\ Turned(key, "target_inflight")
      /\ entries'[key] # NoEntry /\ entries'[key].digest = d
  BY Zenon, <1>1, EntryMade
<1> QED BY Zenon, <1>1, <1>3, Calls

\* The call that waits, when there is one.
LEMMA TheCall ==
  ASSUME Books, Len(stack) = 1
  PROVE  /\ Ledger!Top = stack[1] /\ stack[1].key \in Ledger!Keys
         /\ entries[stack[1].key] # NoEntry /\ Ledger!Status[stack[1].key] = "target_inflight"
         /\ Ledger!Pop => stack' = <<>>
<1>1. stack \in Seq(Ledger!Frame) /\ \A i \in DOMAIN stack : Ledger!Status[stack[i].key] = "target_inflight"
  BY Zenon DEF Books
<1>2. 1 \in DOMAIN stack /\ stack[1] \in Ledger!Frame /\ Ledger!Top = stack[1]
  BY <1>1 DEF Ledger!Top
<1>3. stack[1].key \in Ledger!Keys
  BY Zenon, <1>2 DEF Ledger!Frame
<1>4. Ledger!Status[stack[1].key] = "target_inflight"
  BY Zenon, <1>1, <1>2
<1>5. entries[stack[1].key] # NoEntry
  BY Zenon, <1>3, <1>4, BooksShow
<1>6. Ledger!Pop => stack' = <<>>
  BY <1>1 DEF Ledger!Pop
<1> QED BY Zenon, <1>2, <1>3, <1>4, <1>5, <1>6

LEMMA Returns ==
  ASSUME Books, Len(stack) = 1, NEW key, key = stack[1].key, Ledger!OperationReturns("response")
  PROVE  /\ stack' = <<>> /\ key \in Ledger!Keys
         /\ Ledger!Status[key] = "target_inflight" /\ Turned(key, "complete")
<1>1. /\ Ledger!Pop
      /\ entries' = [entries EXCEPT ![key].receipt = "response", ![key].status = "complete"]
  BY Zenon, TheCall DEF Ledger!OperationReturns
<1>3. Turned(key, "complete")
  BY Zenon, <1>1, EntryMoved, TheCall
<1> QED BY Zenon, <1>1, <1>3, TheCall

LEMMA Raises ==
  ASSUME Books, Len(stack) = 1, NEW key, key = stack[1].key, Ledger!OperationRaises
  PROVE  /\ stack' = <<>> /\ key \in Ledger!Keys
         /\ Ledger!Status[key] = "target_inflight" /\ Turned(key, "uncertain_effect")
<1>1. /\ Ledger!Pop
      /\ entries' = [entries EXCEPT ![key].status = "uncertain_effect"]
  BY Zenon, TheCall DEF Ledger!OperationRaises, Ledger!SetStatus
<1>3. Turned(key, "uncertain_effect")
  BY Zenon, <1>1, EntryMoved, TheCall
<1> QED BY Zenon, <1>1, <1>3, TheCall

LEMMA Cancels ==
  ASSUME Books, NEW key \in Ledger!Keys, NEW d \in Devices, Ledger!CancelAccepted(key, d)
  PROVE  /\ stack' = stack
         /\ Ledger!Status[key] = "target_pending" /\ Turned(key, "cancelled")
<1>1. /\ entries[key] # NoEntry /\ entries[key].status = "target_pending" /\ stack' = stack
      /\ entries' = [entries EXCEPT ![key].status = "cancelled"]
  BY Zenon DEF Ledger!CancelAccepted, Ledger!SetStatus
<1>3. Turned(key, "cancelled")
  BY Zenon, <1>1, EntryMoved
<1> QED BY Zenon, <1>1, <1>3, BooksShow

-----------------------------------------------------------------------------
(* The queue and the slots. *)

LEMMA ItemParts ==
  ASSUME NEW item \in Item
  PROVE  item.source \in Sources /\ item.key \in Ledger!Keys /\ item.device \in Devices
BY Zenon DEF Item

LEMMA Queue ==
  ASSUME Types
  PROVE  /\ Len(queued) \in Nat /\ DOMAIN queued = 1..Len(queued)
         /\ \A i \in DOMAIN queued :
              /\ queued[i] \in Item /\ queued[i].source \in Sources
              /\ queued[i].key \in Ledger!Keys /\ queued[i].device \in Devices
              /\ queued[i].key[2] \in Int
<1>1. queued \in Seq(Item)
  BY Zenon DEF Types
<1>2. Len(queued) \in Nat /\ DOMAIN queued = 1..Len(queued) /\ \A i \in DOMAIN queued : queued[i] \in Item
  BY <1>1
<1> QED BY <1>2, ItemParts, KeyShape

\* No two requests in the queue have the same key.
LEMMA KeysDiffer ==
  ASSUME Types, Line, NEW i \in DOMAIN queued, NEW j \in DOMAIN queued, queued[i].key = queued[j].key
  PROVE  i = j
<1>1. queued[i].source = queued[j].source
  <2>1. /\ queued[i].key[1] = <<queued[i].source, epoch[queued[i].source]>>
        /\ queued[j].key[1] = <<queued[j].source, epoch[queued[j].source]>>
    BY Zenon DEF Line, Own
  <2> QED BY <2>1
<1>2. i \in Int /\ j \in Int /\ queued[i].key[2] \in Int
  BY Queue
<1>3. ~(i < j) /\ ~(j < i)
  BY <1>1, <1>2 DEF Line, Ordered
<1> QED BY <1>2, <1>3

LEMMA SlotSet ==
  ASSUME Types, NEW s \in Sources, NEW x \in Slots[s], NEW v \in SlotValue,
         slots' = [slots EXCEPT ![s][x] = v]
  PROVE  /\ DOMAIN slots' = Sources
         /\ \A t \in Sources : slots'[t] \in [Slots[t] -> SlotValue]
         /\ \A t \in Sources : \A y \in Slots[t] :
              slots'[t][y] = IF t = s /\ y = x THEN v ELSE slots[t][y]
<1>1. DOMAIN slots = Sources /\ \A t \in Sources : slots[t] \in [Slots[t] -> SlotValue]
  BY Zenon DEF Types
<1>2. slots' = [t \in Sources |-> IF t = s THEN [slots[s] EXCEPT ![x] = v] ELSE slots[t]]
  BY Zenon, <1>1
<1>3. /\ [slots[s] EXCEPT ![x] = v] \in [Slots[s] -> SlotValue]
      /\ \A y \in Slots[s] : [slots[s] EXCEPT ![x] = v][y] = IF y = x THEN v ELSE slots[s][y]
  BY Zenon, <1>1
<1> QED BY Zenon, <1>1, <1>2, <1>3

LEMMA SlotsForgotten ==
  ASSUME Types, NEW s \in Sources, slots' = [slots EXCEPT ![s] = [x \in Slots[s] |-> Idle]]
  PROVE  /\ DOMAIN slots' = Sources
         /\ \A t \in Sources : slots'[t] \in [Slots[t] -> SlotValue]
         /\ \A t \in Sources : \A y \in Slots[t] : slots'[t][y] = IF t = s THEN Idle ELSE slots[t][y]
<1>1. DOMAIN slots = Sources /\ \A t \in Sources : slots[t] \in [Slots[t] -> SlotValue]
  BY Zenon DEF Types
<1>2. Idle \in SlotValue
  BY Zenon DEF Idle, SlotValue
<1>3. slots' = [t \in Sources |-> IF t = s THEN [x \in Slots[s] |-> Idle] ELSE slots[t]]
  BY Zenon, <1>1
<1>4. [x \in Slots[s] |-> Idle] \in [Slots[s] -> SlotValue] /\ \A y \in Slots[s] : [x \in Slots[s] |-> Idle][y] = Idle
  BY Zenon, <1>2
<1>5. slots'[s] = [x \in Slots[s] |-> Idle] /\ \A t \in Sources : t # s => slots'[t] = slots[t]
  BY Zenon, <1>3
<1>6. DOMAIN slots' = Sources
  BY Zenon, <1>3
<1> QED BY Zenon, <1>1, <1>4, <1>5, <1>6

\* _queued.pop(index).
Without(q, i) == SubSeq(q, 1, i - 1) \o SubSeq(q, i + 1, Len(q))
LEMMA Joined ==
  ASSUME NEW S, NEW u \in Seq(S), NEW v \in Seq(S)
  PROVE  /\ u \o v \in Seq(S) /\ Len(u \o v) = Len(u) + Len(v) /\ DOMAIN (u \o v) = 1..(Len(u) + Len(v))
         /\ \A j \in 1..(Len(u) + Len(v)) : (u \o v)[j] = IF j <= Len(u) THEN u[j] ELSE v[j - Len(u)]
OBVIOUS

LEMMA Popped ==
  ASSUME NEW S, NEW q \in Seq(S), NEW i \in 1..Len(q)
  PROVE  /\ Without(q, i) \in Seq(S) /\ Len(Without(q, i)) = Len(q) - 1
         /\ DOMAIN Without(q, i) = 1..(Len(q) - 1)
         /\ \A j \in 1..(Len(q) - 1) : Without(q, i)[j] = IF j < i THEN q[j] ELSE q[j + 1]
<1> DEFINE u == SubSeq(q, 1, i - 1) v == SubSeq(q, i + 1, Len(q))
<1>1. Len(q) \in Nat /\ i \in Nat /\ i >= 1 /\ i <= Len(q)
  OBVIOUS
<1>2. u \in Seq(S) /\ Len(u) = i - 1 /\ \A j \in 1..(i - 1) : u[j] = q[j]
  BY <1>1
<1>3. v \in Seq(S) /\ Len(v) = Len(q) - i /\ \A j \in 1..(Len(q) - i) : v[j] = q[j + i]
  BY <1>1
<1>4. Without(q, i) = u \o v
  BY Zenon DEF Without
<1> HIDE DEF u, v
<1>5. /\ u \o v \in Seq(S) /\ Len(u \o v) = Len(u) + Len(v) /\ DOMAIN (u \o v) = 1..(Len(u) + Len(v))
      /\ \A j \in 1..(Len(u) + Len(v)) : (u \o v)[j] = IF j <= Len(u) THEN u[j] ELSE v[j - Len(u)]
  BY Zenon, <1>2, <1>3, Joined
<1>6. PICK w : w = u \o v
  BY Zenon
<1>7. Len(u) + Len(v) = Len(q) - 1
  BY <1>1, <1>2, <1>3
<1>8. ASSUME NEW j \in 1..(Len(q) - 1) PROVE w[j] = IF j < i THEN q[j] ELSE q[j + 1]
  <2>1. w[j] = IF j <= i - 1 THEN u[j] ELSE v[j - (i - 1)]
    BY Zenon, <1>2, <1>5, <1>6, <1>7
  <2>2. CASE j < i
    BY <1>1, <1>2, <2>1, <2>2
  <2>3. CASE ~(j < i)
    <3>1. j - (i - 1) \in 1..(Len(q) - i) /\ j - (i - 1) + i = j + 1
      BY <1>1, <2>3
    <3>2. w[j] = v[j - (i - 1)]
      BY <1>1, <2>1, <2>3
    <3> QED BY Zenon, <1>3, <2>3, <3>1, <3>2
  <2> QED BY Zenon, <2>2, <2>3
<1> QED BY Zenon, <1>4, <1>5, <1>6, <1>7, <1>8

\* What Types says of the sequences a step may extend.
LEMMA Pushed ==
  ASSUME NEW S, NEW q \in Seq(S), NEW e \in S
  PROVE  /\ Append(q, e) \in Seq(S) /\ Len(q) \in Nat /\ Len(Append(q, e)) = Len(q) + 1
         /\ DOMAIN q = 1..Len(q) /\ DOMAIN Append(q, e) = 1..(Len(q) + 1)
         /\ \A i \in 1..Len(q) : Append(q, e)[i] = q[i]
         /\ Append(q, e)[Len(q) + 1] = e
OBVIOUS

\* A request put at the end of an ordered queue, behind the older ones of its source.
LEMMA OrderKept ==
  ASSUME NEW q \in Seq(Item), NEW e \in Item, Ordered(q),
         \A i \in DOMAIN q : q[i].source = e.source => q[i].key[2] < e.key[2]
  PROVE  Ordered(Append(q, e))
<1>1. PICK r : r = Append(q, e)
  BY Zenon
<1>2. PICK n \in Nat : n = Len(q)
  BY Zenon, Pushed
<1>3. DOMAIN q = 1..n /\ DOMAIN r = 1..(n + 1) /\ r[n + 1] = e /\ \A i \in 1..n : r[i] = q[i]
  BY <1>1, <1>2, Pushed
<1>4. ASSUME NEW i \in DOMAIN r, NEW j \in DOMAIN r, i < j, r[i].source = r[j].source
      PROVE  r[i].key[2] < r[j].key[2]
  <2>1. i \in 1..n /\ (j \in 1..n \/ j = n + 1)
    BY <1>2, <1>3, <1>4
  <2>2. CASE j \in 1..n
    BY Zenon, <1>3, <1>4, <2>1, <2>2 DEF Ordered
  <2>3. CASE j = n + 1
    BY Zenon, <1>3, <1>4, <2>1, <2>3
  <2> QED BY Zenon, <2>1, <2>2, <2>3
<1> QED BY Zenon, <1>1, <1>4 DEF Ordered

LEMMA NextKeyParts ==
  ASSUME Types, NEW s \in Sources, sequence[s] < MaxSequence
  PROVE  /\ NextKey(s) \in Ledger!Keys /\ NextKey(s)[1] = <<s, epoch[s]>>
         /\ NextKey(s)[2] \in Int
<1>1. sequence[s] + 1 \in 1..MaxSequence /\ epoch[s] \in 0..MaxEpoch /\ sequence[s] + 1 \in Int
  BY RouterConstants DEF Types
<1> QED BY Zenon, <1>1, KeyShape DEF NextKey

-----------------------------------------------------------------------------
(* What a step keeps. *)

\* Own of the next state, for a request of this one.
OwnNext(item) ==
  /\ item.slot \in Slots[item.source]
  /\ item.key[1] = <<item.source, epoch'[item.source]>>
  /\ entries'[item.key] # NoEntry /\ entries'[item.key].digest = item.device
\* A payload that is known stays.
Payloads == \A k \in Ledger!Keys : entries[k] # NoEntry =>
              entries'[k] # NoEntry /\ entries'[k].digest = entries[k].digest
\* What is complete stays complete.
Settled == \A k \in Ledger!Keys : Ledger!Status[k] = "complete" => Ledger!Status'[k] = "complete"

LEMMA TurnedParts ==
  ASSUME NEW key \in Ledger!Keys, NEW st, Turned(key, st)
  PROVE  /\ Payloads /\ Ledger!Status'[key] = st
         /\ \A k \in Ledger!Keys : k # key => Ledger!Status'[k] = Ledger!Status[k]
         /\ Ledger!Status[key] # "complete" => Settled
BY Zenon DEF Turned, Payloads, Settled

LEMMA LedgerRests ==
  ASSUME Books, UNCHANGED ledgerVars
  PROVE  Payloads /\ Settled /\ stack' = stack /\ Ledger!Status' = Ledger!Status
<1>1. entries' = entries /\ stack' = stack
  BY Zenon DEF ledgerVars
<1>2. Ledger!Status' = Ledger!Status
  BY Zenon, <1>1 DEF Ledger!Status
<1>3. Payloads
  BY Zenon, <1>1 DEF Payloads
<1>4. Settled
  BY Zenon, <1>2 DEF Settled
<1> QED BY Zenon, <1>1, <1>2, <1>3, <1>4

LEMMA OwnKept ==
  ASSUME Payloads, NEW item \in Item, Own(item), epoch'[item.source] = epoch[item.source]
  PROVE  OwnNext(item)
BY Zenon, ItemParts DEF Own, OwnNext, Payloads

\* The queue and its requests are as they were, and their statuses as expected.
LEMMA LineKept ==
  ASSUME Types, Line, Payloads, queued' = queued, epoch' = epoch,
         \A i \in DOMAIN queued : Ledger!Status'[queued[i].key] = Expected(i)'
  PROVE  Line'
<1>1. ASSUME NEW i \in DOMAIN queued PROVE OwnNext(queued[i]) /\ queued[i].source \in Deferred
  <2>1. Own(queued[i]) /\ queued[i].source \in Deferred
    BY Zenon DEF Line
  <2>2. queued[i] \in Item
    BY Zenon, Queue
  <2> QED BY Zenon, <2>1, <2>2, OwnKept
<1>2. Ordered(queued)
  BY Zenon DEF Line
<1>3. Ordered(queued)'
  BY Zenon, <1>2 DEF Ordered
<1> QED BY Zenon, <1>1, <1>3 DEF Line, OwnNext, Own

LEMMA LostKept ==
  ASSUME Lost, NEW key \in Ledger!Keys, NEW st, Turned(key, st),
         st # "uncertain_effect" \/ mode' = "failed", mode = "failed" => mode' = "failed"
  PROVE  Lost'
<1> SUFFICES ASSUME NEW k \in Ledger!Keys, Ledger!Status'[k] = "uncertain_effect" PROVE mode' = "failed"
  BY Zenon DEF Lost
<1>1. CASE k = key
  BY Zenon, <1>1, TurnedParts
<1>2. CASE k # key
  <2>1. Ledger!Status[k] = "uncertain_effect"
    BY Zenon, <1>2, TurnedParts
  <2> QED BY Zenon, <2>1 DEF Lost
<1> QED BY Zenon, <1>1, <1>2

LEMMA ConfirmedKept ==
  ASSUME Types, Confirmed, Settled, confirmations' = confirmations
  PROVE  Confirmed'
<1>1. confirmations \subseteq Ledger!Keys
  BY Zenon DEF Types
<1> QED BY Zenon, <1>1 DEF Confirmed, Settled

LEMMA KnownKept ==
  ASSUME Known, mode = "failed" => mode' = "failed", queued' = queued, slots' = slots
  PROVE  Known'
<1>1. \A s \in Sources : QueuedSlots(s)' = QueuedSlots(s)
  BY Zenon DEF QueuedSlots
<1> QED BY <1>1 DEF Known

\* A slot holds a beat of its session, answered if the ledger has the response.
Good(t, v) ==
  /\ v.state # "idle" /\ v.key \in Ledger!Keys /\ v.key[1] = <<t, epoch'[t]>>
  /\ v.state = "answered" => Ledger!Status'[v.key] = "complete"

LEMMA CurrentKept ==
  ASSUME Current, Settled,
         \A t \in Sources : \A y \in Slots[t] :
           \/ slots'[t][y] = Idle
           \/ slots'[t][y] = slots[t][y] /\ epoch'[t] = epoch[t]
           \/ Good(t, slots'[t][y])
  PROVE  Current'
<1> SUFFICES ASSUME NEW t \in Sources, NEW y \in Slots[t], slots'[t][y] # Idle PROVE Good(t, slots'[t][y])
  BY Zenon DEF Current, Good
<1>1. CASE slots'[t][y] = slots[t][y] /\ epoch'[t] = epoch[t]
  BY Zenon, <1>1 DEF Current, Settled, Good
<1> QED BY Zenon, <1>1

LEMMA KeptEmpty ==
  ASSUME scan' = 0, remaining' = <<>>, Len(queued') \in Nat
  PROVE  Kept'
<1>1. Ordered(remaining)'
  BY DEF Ordered
<1> QED BY <1>1 DEF Kept

LEMMA KeptIdle ==
  ASSUME Kept, resetting = <<>> \/ scan = 0, scan' = scan, remaining' = remaining, Len(queued') \in Nat
  PROVE  Kept'
<1>1. scan = 0 /\ remaining = <<>>
  BY Zenon DEF Kept
<1> QED BY Zenon, <1>1, KeptEmpty

\* What is known when nobody is reset.
LEMMA AtRestLine ==
  ASSUME Types, Line, call = NoCall, resetting = <<>>, NEW i \in DOMAIN queued
  PROVE  /\ queued[i] \in Item /\ Own(queued[i]) /\ queued[i].source \in Sources /\ queued[i].source \in Deferred
         /\ queued[i].key \in Ledger!Keys /\ Ledger!Status[queued[i].key] = "target_pending"
<1>1. Expected(i) = "target_pending"
  BY Zenon DEF Expected
<1> QED BY Zenon, <1>1, Queue DEF Line

LEMMA EnqueueKeeps ==
  ASSUME RInv, Books', NEW s \in Sources, NEW x \in Slots[s], NEW d \in Devices, Enqueue(s, x, d)
  PROVE  RInv'
<1> DEFINE key == NextKey(s)
           item == [source |-> s, slot |-> x, key |-> key, device |-> d]
<1>b. Books /\ Types
  BY Zenon DEF RInv
<1>l. Line /\ Waiting
  BY Zenon DEF RInv
<1>k. Known /\ Current
  BY Zenon DEF RInv
<1>1. /\ s \in Deferred /\ call = NoCall /\ resetting = <<>> /\ mode = "running" /\ slots[s][x] = Idle
      /\ sequence[s] < MaxSequence /\ Ledger!Accept(key, d) /\ queued' = Append(queued, item)
      /\ slots' = [slots EXCEPT ![s][x] = [state |-> "queued", key |-> key]]
      /\ sequence' = [sequence EXCEPT ![s] = @ + 1]
  BY Zenon DEF Enqueue, Ready, AtRest
<1>u. /\ call' = call /\ deliveries' = deliveries /\ deliveryCount' = deliveryCount
      /\ confirmations' = confirmations /\ epoch' = epoch /\ mode' = mode
      /\ resetting' = resetting /\ scan' = scan /\ remaining' = remaining
  BY Zenon DEF Enqueue, resetVars
<1>2. key \in Ledger!Keys /\ key[1] = <<s, epoch[s]>> /\ key[2] \in Int
  BY Zenon, <1>b, <1>1, NextKeyParts
<1> HIDE DEF key
<1>3. /\ stack' = stack
      /\ Ledger!Status[key] = "absent" /\ Turned(key, "target_pending")
      /\ entries'[key] # NoEntry /\ entries'[key].digest = d
      /\ \A k \in Ledger!Keys : k[1] = key[1] /\ Ledger!Status[k] # "absent" => k[2] < key[2]
  BY Zenon, <1>b, <1>1, <1>2, Accepts
<1>t. /\ Payloads /\ Settled /\ Ledger!Status'[key] = "target_pending"
      /\ \A k \in Ledger!Keys : k # key => Ledger!Status'[k] = Ledger!Status[k]
  BY Zenon, <1>2, <1>3, TurnedParts
<1>4. /\ item \in Item /\ item.source = s /\ item.slot = x /\ item.key = key /\ item.device = d
  BY Zenon, <1>2 DEF Item
<1> HIDE DEF item
<1>5. PICK n \in Nat : n = Len(queued)
  BY Zenon, <1>b, Queue
<1>6. /\ queued' \in Seq(Item) /\ Len(queued') = n + 1 /\ DOMAIN queued = 1..n /\ DOMAIN queued' = 1..(n + 1)
      /\ queued'[n + 1] = item /\ \A i \in 1..n : queued'[i] = queued[i]
  BY <1>b, <1>1, <1>4, <1>5, Pushed DEF Types
<1>7. PICK v \in SlotValue : v = [state |-> "queued", key |-> key]
  BY Zenon, <1>2 DEF SlotValue
<1>v. v.state = "queued" /\ v.key = key /\ v # Idle
  BY Zenon, <1>7 DEF Idle
<1>8. /\ DOMAIN slots' = Sources
      /\ \A t \in Sources : slots'[t] \in [Slots[t] -> SlotValue]
      /\ \A t \in Sources : \A y \in Slots[t] : slots'[t][y] = IF t = s /\ y = x THEN v ELSE slots[t][y]
  BY ZenonT(60), <1>b, <1>1, <1>7, SlotSet
<1>9. ASSUME NEW i \in 1..n
      PROVE  /\ queued[i] \in Item /\ queued[i].key \in Ledger!Keys /\ Own(queued[i])
             /\ queued[i].source \in Sources /\ queued[i].source \in Deferred /\ queued[i].key # key
             /\ Ledger!Status[queued[i].key] = "target_pending" /\ queued'[i] = queued[i]
  <2>1. i \in DOMAIN queued /\ queued'[i] = queued[i]
    BY Zenon, <1>6
  <2>2. /\ queued[i] \in Item /\ Own(queued[i]) /\ queued[i].source \in Sources /\ queued[i].source \in Deferred
        /\ queued[i].key \in Ledger!Keys /\ Ledger!Status[queued[i].key] = "target_pending"
    BY Zenon, <1>b, <1>l, <1>1, <2>1, AtRestLine
  <2>3. queued[i].key # key
    BY Zenon, <1>3, <2>2
  <2> QED BY Zenon, <2>1, <2>2, <2>3
<1>10. Types'
  <2>1. sequence' \in [Sources -> Nat]
    BY <1>b, <1>1 DEF Types
  <2> QED BY Zenon, <1>b, <1>u, <1>6, <1>8, <2>1 DEF Types
<1>11. Frames' /\ Visits'
  <2>1. stack = <<>>
    BY Zenon, <1>1 DEF RInv, Frames
  <2> QED BY Zenon, <1>1, <1>u, <1>3, <2>1 DEF Frames, Visits
<1>12. Line'
  <2>1. ASSUME NEW i \in 1..n
        PROVE  /\ OwnNext(queued'[i]) /\ queued'[i].source \in Deferred
               /\ Ledger!Status'[queued'[i].key] = "target_pending"
    <3>1. OwnNext(queued[i])
      BY Zenon, <1>u, <1>t, <1>9, OwnKept
    <3> QED BY Zenon, <1>t, <1>9, <3>1
  <2>2. /\ OwnNext(queued'[n + 1]) /\ queued'[n + 1].source \in Deferred
        /\ Ledger!Status'[queued'[n + 1].key] = "target_pending"
    <3>1. OwnNext(item)
      BY Zenon, <1>1, <1>u, <1>2, <1>3, <1>4 DEF OwnNext
    <3> QED BY Zenon, <1>1, <1>t, <1>4, <1>6, <3>1
  <2>3. \A i \in 1..(n + 1) : Expected(i)' = "target_pending"
    BY Zenon, <1>1, <1>u DEF Expected
  <2>4. \A i \in 1..(n + 1) : i \in 1..n \/ i = n + 1
    BY <1>5
  <2>5. Ordered(queued')
    <3>1. ASSUME NEW i \in DOMAIN queued, queued[i].source = item.source PROVE queued[i].key[2] < item.key[2]
      <4>1. i \in 1..n
        BY Zenon, <1>6
      <4>2. queued[i].key[1] = key[1] /\ queued[i].key \in Ledger!Keys /\ Ledger!Status[queued[i].key] # "absent"
        BY Zenon, <1>2, <1>4, <1>9, <3>1, <4>1 DEF Own
      <4> QED BY Zenon, <1>3, <1>4, <4>2
    <3>2. queued \in Seq(Item) /\ Ordered(queued)
      BY Zenon, <1>b, <1>l DEF Types, Line
    <3> QED BY Zenon, <1>1, <1>4, <3>1, <3>2, OrderKept
  <2>6. Ordered(queued)'
    BY Zenon, <2>5 DEF Ordered
  <2>7. \A i \in DOMAIN queued' : OwnNext(queued'[i]) /\ queued'[i].source \in Deferred
                                  /\ Ledger!Status'[queued'[i].key] = Expected(i)'
    BY Zenon, <1>6, <2>1, <2>2, <2>3, <2>4
  <2> QED BY Zenon, <2>6, <2>7 DEF Line, Own, OwnNext
<1>13. Waiting'
  <2> SUFFICES ASSUME NEW k \in Ledger!Keys, Ledger!Status'[k] = "target_pending"
               PROVE  \E i \in DOMAIN queued' : queued'[i].key = k
    BY Zenon DEF Waiting
  <2>1. CASE k = key
    <3>1. n + 1 \in DOMAIN queued'
      BY <1>5, <1>6
    <3> QED BY Zenon, <1>4, <1>6, <2>1, <3>1
  <2>2. CASE k # key
    <3>1. Ledger!Status[k] = "target_pending"
      BY Zenon, <1>t, <2>2
    <3>2. PICK i \in DOMAIN queued : queued[i].key = k
      BY Zenon, <1>l, <3>1 DEF Waiting
    <3>3. i \in DOMAIN queued' /\ queued'[i] = queued[i]
      BY <1>5, <1>6, <3>2
    <3> QED BY Zenon, <3>2, <3>3
  <2> QED BY Zenon, <2>1, <2>2
<1>14. Lost' /\ Confirmed'
  <2>1. Lost /\ Confirmed
    BY Zenon DEF RInv
  <2>2. Lost'
    BY Zenon, <1>u, <1>2, <1>3, <2>1, LostKept
  <2> QED BY Zenon, <1>b, <1>u, <1>t, <2>1, <2>2, ConfirmedKept
<1>15. Known'
  <2>1. ASSUME NEW i \in DOMAIN queued'
        PROVE  slots'[queued'[i].source][queued'[i].slot] = [state |-> "queued", key |-> queued'[i].key]
    <3>1. CASE i \in 1..n
      <4>1. slots[queued[i].source][queued[i].slot] = [state |-> "queued", key |-> queued[i].key]
        BY Zenon, <1>k, <1>1, <1>6, <3>1 DEF Known
      <4>2. ~(queued[i].source = s /\ queued[i].slot = x)
        <5>1. [state |-> "queued", key |-> queued[i].key] # Idle
          BY Zenon DEF Idle
        <5> QED BY Zenon, <1>1, <4>1, <5>1
      <4>3. PICK e \in Item : e = queued[i]
        BY Zenon, <1>9, <3>1
      <4>4. e.slot \in Slots[e.source] /\ e.source \in Sources /\ queued'[i] = e
        BY Zenon, <1>9, <3>1, <4>3 DEF Own
      <4>5. slots'[e.source][e.slot] = slots[e.source][e.slot]
        <5>1. slots'[e.source][e.slot] =
                IF e.source = s /\ e.slot = x THEN v ELSE slots[e.source][e.slot]
          BY Zenon, <1>8, <4>4
        <5>2. ~(e.source = s /\ e.slot = x)
          BY Zenon, <4>2, <4>3
        <5> QED BY Zenon, <5>1, <5>2
      <4> QED BY Zenon, <4>1, <4>3, <4>4, <4>5
    <3>2. CASE i = n + 1
      BY Zenon, <1>4, <1>6, <1>7, <1>8, <3>2
    <3> QED BY <1>5, <1>6, <3>1, <3>2
  <2>2. ASSUME NEW t \in Sources, NEW y \in QueuedSlots(t)'
        PROVE  \E i \in DOMAIN queued' : queued'[i].source = t /\ queued'[i].slot = y
    <3>1. y \in Slots[t] /\ slots'[t][y].state = "queued"
      BY Zenon, <2>2 DEF QueuedSlots
    <3>2. CASE t = s /\ y = x
      <4>1. n + 1 \in DOMAIN queued'
        BY <1>5, <1>6
      <4> QED BY Zenon, <1>4, <1>6, <3>2, <4>1
    <3>3. CASE ~(t = s /\ y = x)
      <4>1. y \in QueuedSlots(t)
        BY Zenon, <1>8, <3>1, <3>3 DEF QueuedSlots
      <4>2. PICK i \in DOMAIN queued : queued[i].source = t /\ queued[i].slot = y
        BY <1>k, <1>1, <4>1 DEF Known
      <4>3. i \in DOMAIN queued' /\ queued'[i] = queued[i]
        BY <1>5, <1>6, <4>2
      <4> QED BY Zenon, <4>2, <4>3
    <3> QED BY Zenon, <3>2, <3>3
  <2> QED BY Zenon, <2>1, <2>2 DEF Known
<1>16. Current'
  <2>1. Good(s, v)
    BY Zenon, <1>u, <1>2, <1>v DEF Good
  <2>2. \A t \in Sources : \A y \in Slots[t] :
          (slots'[t][y] = slots[t][y] /\ epoch'[t] = epoch[t]) \/ Good(t, slots'[t][y])
    BY Zenon, <1>u, <1>8, <2>1
  <2> QED BY Zenon, <1>k, <1>t, <2>2, CurrentKept
<1>17. Kept'
  <2>1. Kept /\ Len(queued') \in Nat
    BY <1>5, <1>6 DEF RInv
  <2> QED BY Zenon, <1>1, <1>u, <2>1, KeptIdle
<1> QED BY Zenon, <1>3, <1>10, <1>11, <1>12, <1>13, <1>14, <1>15, <1>16, <1>17 DEF RInv


\* A session that does not queue calls its target.
LEMMA TransactKeeps ==
  ASSUME RInv, Books', NEW s \in Sources, NEW x \in Slots[s], NEW d \in Devices, Transact(s, x, d)
  PROVE  RInv'
<1> DEFINE key == NextKey(s)
           item == [source |-> s, slot |-> x, key |-> key, device |-> d]
<1>b. Books /\ Types
  BY Zenon DEF RInv
<1>l. Line /\ Waiting
  BY Zenon DEF RInv
<1>1. /\ s \notin Deferred /\ call = NoCall /\ resetting = <<>> /\ mode = "running" /\ slots[s][x] = Idle
      /\ sequence[s] < MaxSequence /\ Ledger!ExecuteOnce(key, d) /\ call' = [item |-> item, index |-> 0]
      /\ sequence' = [sequence EXCEPT ![s] = @ + 1]
  BY Zenon DEF Transact, Ready, AtRest
<1>u. /\ queued' = queued /\ deliveries' = deliveries /\ deliveryCount' = deliveryCount /\ slots' = slots
      /\ confirmations' = confirmations /\ epoch' = epoch /\ mode' = mode
      /\ resetting' = resetting /\ scan' = scan /\ remaining' = remaining
  BY Zenon DEF Transact, resetVars
<1>2. key \in Ledger!Keys /\ key[1] = <<s, epoch[s]>>
  BY Zenon, <1>b, <1>1, NextKeyParts
<1> HIDE DEF key
<1>s. stack = <<>>
  BY Zenon, <1>1 DEF RInv, Frames
<1>3. /\ Len(stack') = 1 /\ stack'[1].key = key
      /\ Ledger!Status[key] = "absent" /\ Turned(key, "target_inflight")
      /\ entries'[key] # NoEntry /\ entries'[key].digest = d
  BY Zenon, <1>b, <1>1, <1>2, <1>s, Executes
<1>t. /\ Payloads /\ Settled /\ Ledger!Status'[key] = "target_inflight"
      /\ \A k \in Ledger!Keys : k # key => Ledger!Status'[k] = Ledger!Status[k]
  BY Zenon, <1>2, <1>3, TurnedParts
<1>4. /\ item \in Item /\ item.source = s /\ item.slot = x /\ item.key = key /\ item.device = d
  BY Zenon, <1>2 DEF Item
<1> HIDE DEF item
<1>5. call' \in CallRecord /\ call' # NoCall /\ call'.item = item /\ call'.index = 0
  <2>1. call' \in CallRecord /\ call'.item = item /\ call'.index = 0
    BY Zenon, <1>1, <1>4 DEF CallRecord
  <2> QED BY Zenon, <2>1, RouterConstants
<1>10. Types'
  <2>1. sequence' \in [Sources -> Nat]
    BY <1>b, <1>1 DEF Types
  <2> QED BY Zenon, <1>b, <1>u, <1>5, <2>1 DEF Types
<1>11. Frames' /\ Visits'
  <2>1. OwnNext(item)
    BY Zenon, <1>u, <1>2, <1>3, <1>4 DEF OwnNext
  <2>2. Own(call.item)'
    BY Zenon, <1>5, <2>1 DEF Own, OwnNext
  <2>3. call'.item.source \notin Deferred /\ slots'[call'.item.source][call'.item.slot] = Idle
    BY Zenon, <1>1, <1>u, <1>4, <1>5
  <2> QED BY Zenon, <1>1, <1>u, <1>3, <1>4, <1>5, <2>2, <2>3 DEF Frames, Visits
<1>12. Line'
  <2>1. ASSUME NEW i \in DOMAIN queued PROVE Ledger!Status'[queued[i].key] = Expected(i)'
    <3>1. queued[i].key \in Ledger!Keys /\ Ledger!Status[queued[i].key] = "target_pending"
      BY Zenon, <1>b, <1>l, <1>1, AtRestLine
    <3>2. i # 0
      BY <1>b, Queue
    <3>3. Expected(i)' = "target_pending"
      BY Zenon, <1>1, <1>u, <1>5, <3>2 DEF Expected
    <3>4. queued[i].key # key
      BY Zenon, <1>3, <3>1
    <3> QED BY Zenon, <1>t, <3>1, <3>3, <3>4
  <2> QED BY Zenon, <1>b, <1>l, <1>u, <1>t, <2>1, LineKept
<1>13. Waiting'
  <2>1. \A k \in Ledger!Keys : Ledger!Status'[k] = "target_pending" => Ledger!Status[k] = "target_pending"
    BY Zenon, <1>t
  <2> QED BY Zenon, <1>l, <1>u, <2>1 DEF Waiting
<1>14. Lost' /\ Confirmed'
  <2>1. Lost /\ Confirmed
    BY Zenon DEF RInv
  <2>2. Lost'
    BY Zenon, <1>u, <1>2, <1>3, <2>1, LostKept
  <2> QED BY Zenon, <1>b, <1>u, <1>t, <2>1, <2>2, ConfirmedKept
<1>15. Known' /\ Current'
  <2>1. Known /\ Current
    BY Zenon DEF RInv
  <2>2. Known'
    BY Zenon, <1>u, <2>1, KnownKept
  <2> QED BY Zenon, <1>u, <1>t, <2>1, <2>2, CurrentKept
<1>17. Kept'
  <2>1. Kept /\ Len(queued') \in Nat
    BY Zenon, <1>b, <1>u, Queue DEF RInv
  <2> QED BY Zenon, <1>1, <1>u, <2>1, KeptIdle
<1> QED BY Zenon, <1>3, <1>10, <1>11, <1>12, <1>13, <1>14, <1>15, <1>17 DEF RInv

\* The oldest request of a device is sent.
LEMMA DrainKeeps ==
  ASSUME RInv, Books', NEW d \in Devices, DrainOne(d), Oldest(d) \in QueuedFor(d)
  PROVE  RInv'
<1> DEFINE i == Oldest(d) item == queued[Oldest(d)] key == item.key
<1>b. Books /\ Types
  BY Zenon DEF RInv
<1>l. Line /\ Waiting
  BY Zenon DEF RInv
<1>1. /\ call = NoCall /\ resetting = <<>> /\ mode # "failed" /\ QueuedFor(d) # {} /\ ~Full(d)
      /\ Ledger!CompleteAccepted(key, d) /\ call' = [item |-> item, index |-> i]
  BY Zenon DEF DrainOne, AtRest
<1>u. /\ queued' = queued /\ deliveries' = deliveries /\ deliveryCount' = deliveryCount /\ slots' = slots
      /\ confirmations' = confirmations /\ epoch' = epoch /\ mode' = mode /\ sequence' = sequence
      /\ resetting' = resetting /\ scan' = scan /\ remaining' = remaining
  BY Zenon DEF DrainOne, resetVars, sessionVars
<1>2. i \in DOMAIN queued /\ item.device = d
  BY Zenon DEF QueuedFor
<1>4. PICK c : c = item
  BY Zenon
<1>5. PICK n : n = i
  BY Zenon
<1>6. PICK k \in Ledger!Keys : k = c.key
  BY Zenon, <1>b, <1>2, <1>4, Queue
<1> HIDE DEF i, item, key
<1>7. n \in DOMAIN queued /\ queued[n] = c /\ c.device = d
  BY Zenon, <1>2, <1>4, <1>5 DEF i, item
<1>s. stack = <<>>
  BY Zenon, <1>1 DEF RInv, Frames
<1>3. /\ Len(stack') = 1 /\ stack'[1].key = k
      /\ Ledger!Status[k] = "target_pending" /\ Turned(k, "target_inflight")
  <2>1. Ledger!CompleteAccepted(k, d)
    BY Zenon, <1>1, <1>4, <1>6 DEF key
  <2> QED BY Zenon, <1>b, <1>s, <2>1, Sends
<1>t. /\ Payloads /\ Settled /\ Ledger!Status'[k] = "target_inflight"
      /\ \A j \in Ledger!Keys : j # k => Ledger!Status'[j] = Ledger!Status[j]
  BY Zenon, <1>3, TurnedParts
<1>8. c \in Item /\ n \in Nat /\ n # 0 /\ Own(c)
  BY <1>b, <1>l, <1>7, Queue DEF Line
<1>9. call' \in CallRecord /\ call' # NoCall /\ call'.item = c /\ call'.index = n
  <2>1. call' = [item |-> c, index |-> n]
    BY Zenon, <1>1, <1>4, <1>5
  <2>2. call' \in CallRecord /\ call'.item = c /\ call'.index = n
    BY Zenon, <1>8, <2>1 DEF CallRecord
  <2> QED BY Zenon, <2>2, RouterConstants
<1>10. Types'
  BY Zenon, <1>b, <1>u, <1>9 DEF Types
<1>11. Frames' /\ Visits'
  <2>1. OwnNext(c)
    BY Zenon, <1>u, <1>t, <1>8, OwnKept
  <2>2. Own(call.item)'
    BY Zenon, <1>9, <2>1 DEF Own, OwnNext
  <2>3. call'.index \in DOMAIN queued' /\ queued'[call'.index] = call'.item
    BY Zenon, <1>u, <1>7, <1>9
  <2>4. ~Full(call.item.device)'
    BY Zenon, <1>1, <1>u, <1>7, <1>9 DEF Full
  <2> QED BY Zenon, <1>1, <1>u, <1>3, <1>6, <1>8, <1>9, <2>2, <2>3, <2>4 DEF Frames, Visits
<1>12. Line'
  <2>1. ASSUME NEW j \in DOMAIN queued PROVE Ledger!Status'[queued[j].key] = Expected(j)'
    <3>1. CASE j = n
      <4>1. Expected(j)' = "target_inflight"
        BY Zenon, <1>9, <3>1 DEF Expected
      <4> QED BY Zenon, <1>t, <1>6, <1>7, <3>1, <4>1
    <3>2. CASE j # n
      <4>1. queued[j].key \in Ledger!Keys /\ Ledger!Status[queued[j].key] = "target_pending"
        BY Zenon, <1>b, <1>l, <1>1, AtRestLine
      <4>2. Expected(j)' = "target_pending"
        BY Zenon, <1>1, <1>u, <1>9, <3>2 DEF Expected
      <4>3. queued[j].key # k
        BY Zenon, <1>b, <1>l, <1>6, <1>7, <3>2, KeysDiffer
      <4> QED BY Zenon, <1>t, <4>1, <4>2, <4>3
    <3> QED BY Zenon, <3>1, <3>2
  <2> QED BY Zenon, <1>b, <1>l, <1>u, <1>t, <2>1, LineKept
<1>13. Waiting'
  <2>1. \A j \in Ledger!Keys : Ledger!Status'[j] = "target_pending" => Ledger!Status[j] = "target_pending"
    BY Zenon, <1>t
  <2> QED BY Zenon, <1>l, <1>u, <2>1 DEF Waiting
<1>14. Lost' /\ Confirmed'
  <2>1. Lost /\ Confirmed
    BY Zenon DEF RInv
  <2>2. Lost'
    BY Zenon, <1>u, <1>3, <2>1, LostKept
  <2> QED BY Zenon, <1>b, <1>u, <1>t, <2>1, <2>2, ConfirmedKept
<1>15. Known' /\ Current'
  <2>1. Known /\ Current
    BY Zenon DEF RInv
  <2>2. Known'
    BY Zenon, <1>u, <2>1, KnownKept
  <2> QED BY Zenon, <1>u, <1>t, <2>1, <2>2, CurrentKept
<1>17. Kept'
  <2>1. Kept /\ Len(queued') \in Nat
    BY Zenon, <1>b, <1>u, Queue DEF RInv
  <2> QED BY Zenon, <1>1, <1>u, <2>1, KeptIdle
<1> QED BY Zenon, <1>3, <1>10, <1>11, <1>12, <1>13, <1>14, <1>15, <1>17 DEF RInv


\* A step that leaves the ledgers, the queue and the epochs alone.
LEMMA RestKeeps ==
  ASSUME RInv, call = NoCall, UNCHANGED ledgerVars, UNCHANGED routerVars, epoch' = epoch,
         mode = "failed" => mode' = "failed",
         \A i \in DOMAIN queued : Expected(i)' = Expected(i)
  PROVE  Settled /\ Frames' /\ Line' /\ Waiting' /\ Lost' /\ Confirmed'
<1>b. Books /\ Types
  BY Zenon DEF RInv
<1>l. Line /\ Waiting
  BY Zenon DEF RInv
<1>c. Lost /\ Confirmed /\ Frames
  BY Zenon DEF RInv
<1>u. queued' = queued /\ call' = call /\ confirmations' = confirmations
  BY Zenon DEF routerVars
<1>1. Payloads /\ Settled /\ stack' = stack /\ Ledger!Status' = Ledger!Status
  BY Zenon, <1>b, LedgerRests
<1>2. Frames'
  BY Zenon, <1>c, <1>u, <1>1 DEF Frames
<1>3. Line'
  <2>1. \A i \in DOMAIN queued : Ledger!Status'[queued[i].key] = Expected(i)'
    BY Zenon, <1>l, <1>1 DEF Line
  <2> QED BY Zenon, <1>b, <1>l, <1>u, <1>1, <2>1, LineKept
<1>4. Waiting'
  BY Zenon, <1>l, <1>u, <1>1 DEF Waiting
<1>5. Lost'
  BY Zenon, <1>c, <1>1 DEF Lost
<1>6. Confirmed'
  BY Zenon, <1>b, <1>c, <1>u, <1>1, ConfirmedKept
<1> QED BY Zenon, <1>1, <1>2, <1>3, <1>4, <1>5, <1>6

\* The CPU takes a response.
LEMMA ConsumeKeeps ==
  ASSUME RInv, Books', NEW s \in Sources, NEW x \in Slots[s], ConsumeResponse(s, x)
  PROVE  RInv'
<1>b. Books /\ Types
  BY Zenon DEF RInv
<1>k. Known /\ Current
  BY Zenon DEF RInv
<1>1. /\ call = NoCall /\ resetting = <<>> /\ mode # "failed" /\ slots[s][x].state = "answered"
      /\ slots' = [slots EXCEPT ![s][x] = Idle] /\ UNCHANGED ledgerVars /\ UNCHANGED routerVars
  BY Zenon DEF ConsumeResponse, AtRest
<1>u. /\ sequence' = sequence /\ epoch' = epoch /\ mode' = mode
      /\ resetting' = resetting /\ scan' = scan /\ remaining' = remaining
  BY Zenon DEF ConsumeResponse, resetVars
<1>q. queued' = queued /\ call' = call /\ confirmations' = confirmations
      /\ deliveries' = deliveries /\ deliveryCount' = deliveryCount
  BY Zenon, <1>1 DEF routerVars
<1>2. \A i \in DOMAIN queued : Expected(i)' = Expected(i)
  BY Zenon, <1>u, <1>q DEF Expected
<1>3. Settled /\ Frames' /\ Line' /\ Waiting' /\ Lost' /\ Confirmed'
  BY Zenon, <1>1, <1>u, <1>2, RestKeeps
<1>4. Idle \in SlotValue /\ Idle.state = "idle"
  BY Zenon DEF Idle, SlotValue
<1>5. /\ DOMAIN slots' = Sources
      /\ \A t \in Sources : slots'[t] \in [Slots[t] -> SlotValue]
      /\ \A t \in Sources : \A y \in Slots[t] : slots'[t][y] = IF t = s /\ y = x THEN Idle ELSE slots[t][y]
  BY ZenonT(60), <1>b, <1>1, <1>4, SlotSet
<1>6. Types'
  BY Zenon, <1>b, <1>u, <1>q, <1>5 DEF Types
<1>7. Visits'
  BY Zenon, <1>1, <1>u DEF Visits
<1>8. Known'
  <2>1. ASSUME NEW i \in DOMAIN queued
        PROVE  slots'[queued[i].source][queued[i].slot] = [state |-> "queued", key |-> queued[i].key]
    <3>1. PICK e \in Item : e = queued[i]
      BY Zenon, <1>b, Queue
    <3>2. slots[e.source][e.slot] = [state |-> "queued", key |-> e.key]
      BY Zenon, <1>k, <1>1, <3>1 DEF Known
    <3>3. e.slot \in Slots[e.source] /\ e.source \in Sources
      BY Zenon, <3>1, ItemParts DEF RInv, Line, Own
    <3>4. ~(e.source = s /\ e.slot = x)
      BY <1>1, <3>2
    <3>5. slots'[e.source][e.slot] = IF e.source = s /\ e.slot = x THEN Idle ELSE slots[e.source][e.slot]
      BY Zenon, <1>5, <3>3
    <3> QED BY Zenon, <3>1, <3>2, <3>4, <3>5
  <2>2. ASSUME NEW t \in Sources, NEW y \in QueuedSlots(t)' PROVE y \in QueuedSlots(t)
    <3>1. y \in Slots[t] /\ slots'[t][y].state = "queued"
      BY Zenon DEF QueuedSlots
    <3>2. ~(t = s /\ y = x)
      BY Zenon, <1>4, <1>5, <3>1
    <3> QED BY Zenon, <1>5, <3>1, <3>2 DEF QueuedSlots
  <2>3. ASSUME NEW t \in Sources, NEW y \in QueuedSlots(t)'
        PROVE  \E i \in DOMAIN queued : queued[i].source = t /\ queued[i].slot = y
    <3>1. y \in QueuedSlots(t)
      BY Zenon, <2>2
    <3> QED BY <1>k, <1>1, <3>1 DEF Known
  <2>4. DOMAIN queued' = DOMAIN queued /\ \A i \in DOMAIN queued : queued'[i] = queued[i]
    BY Zenon, <1>q
  <2>5. \A i \in DOMAIN queued' :
          slots'[queued'[i].source][queued'[i].slot] = [state |-> "queued", key |-> queued'[i].key]
    BY Zenon, <2>1, <2>4
  <2>6. \A t \in Sources : \A y \in QueuedSlots(t)' :
          \E i \in DOMAIN queued' : queued'[i].source = t /\ queued'[i].slot = y
    <3> SUFFICES ASSUME NEW t \in Sources, NEW y \in QueuedSlots(t)'
                 PROVE  \E i \in DOMAIN queued' : queued'[i].source = t /\ queued'[i].slot = y
      BY Zenon
    <3>1. PICK i \in DOMAIN queued : queued[i].source = t /\ queued[i].slot = y
      BY Zenon, <2>3
    <3> QED BY Zenon, <2>4, <3>1
  <2> QED BY Zenon, <2>5, <2>6 DEF Known
<1>9. Current'
  <2>1. \A t \in Sources : \A y \in Slots[t] :
          slots'[t][y] = Idle \/ (slots'[t][y] = slots[t][y] /\ epoch'[t] = epoch[t])
    BY Zenon, <1>u, <1>5
  <2> QED BY Zenon, <1>k, <1>3, <2>1, CurrentKept
<1>10. Kept'
  <2>1. Kept /\ Len(queued') \in Nat
    BY Zenon, <1>b, <1>q, Queue DEF RInv
  <2> QED BY Zenon, <1>1, <1>u, <2>1, KeptIdle
<1> QED BY Zenon, <1>3, <1>6, <1>7, <1>8, <1>9, <1>10 DEF RInv

\* The runner quiesces, fails or begins a reset before anything is scanned.
LEMMA TurnKeeps ==
  ASSUME RInv, Books', call = NoCall, UNCHANGED ledgerVars, UNCHANGED routerVars, UNCHANGED sessionVars,
         scan = 0, scan' = scan, remaining' = remaining,
         mode' \in {"running", "quiescing", "failed"}, mode = "failed" => mode' = "failed",
         resetting' \in Seq(Sources), Visits'
  PROVE  RInv'
<1>b. Books /\ Types
  BY Zenon DEF RInv
<1>k. Known /\ Current
  BY Zenon DEF RInv
<1>u. slots' = slots /\ sequence' = sequence /\ epoch' = epoch
  BY Zenon DEF sessionVars
<1>q. queued' = queued /\ call' = call /\ confirmations' = confirmations
      /\ deliveries' = deliveries /\ deliveryCount' = deliveryCount
  BY Zenon DEF routerVars
<1>2. ASSUME NEW i \in DOMAIN queued PROVE Expected(i)' = Expected(i)
  <2>1. ~(i <= 0)
    BY <1>b, Queue
  <2> QED BY Zenon, <1>q, <2>1 DEF Expected
<1>3. Settled /\ Frames' /\ Line' /\ Waiting' /\ Lost' /\ Confirmed'
  BY Zenon, <1>u, <1>2, RestKeeps
<1>6. Types'
  BY Zenon, <1>b, <1>u, <1>q DEF Types
<1>8. Known'
  BY Zenon, <1>k, <1>u, <1>q, KnownKept
<1>9. Current'
  BY Zenon, <1>k, <1>u, <1>3, CurrentKept
<1>10. Kept'
  <2>1. Kept /\ Len(queued') \in Nat
    BY Zenon, <1>b, <1>q, Queue DEF RInv
  <2> QED BY Zenon, <2>1, KeptIdle
<1> QED BY Zenon, <1>3, <1>6, <1>8, <1>9, <1>10 DEF RInv

LEMMA ModeKeeps ==
  ASSUME RInv, Books', BeginQuiesce \/ BeginReset \/ ResetRaises \/ \E d \in Devices : DrainRefused(d)
  PROVE  RInv'
<1>b. Types /\ Frames /\ Kept
  BY Zenon DEF RInv
<1>0. resetting \in Seq(Sources) /\ mode \in {"running", "quiescing", "failed"} /\ <<>> \in Seq(Sources)
  BY <1>b DEF Types
<1>r. resetting = <<>> => scan = 0
  BY Zenon, <1>b DEF Kept
<1>1. CASE BeginQuiesce \/ \E d \in Devices : DrainRefused(d)
  <2>1. /\ call = NoCall /\ resetting = <<>> /\ mode' \in {"quiescing", "failed"} /\ mode # "failed"
        /\ UNCHANGED ledgerVars /\ UNCHANGED routerVars /\ UNCHANGED sessionVars
        /\ resetting' = resetting /\ scan' = scan /\ remaining' = remaining
    BY Zenon, <1>1 DEF BeginQuiesce, DrainRefused, AtRest, resetVars
  <2>2. Visits'
    BY Zenon, <2>1 DEF Visits
  <2> QED BY Zenon, <1>0, <1>r, <2>1, <2>2, TurnKeeps
<1>2. CASE BeginReset
  <2>1. /\ call = NoCall /\ resetting = <<>> /\ mode = "running" /\ mode' = mode /\ resetting' = SourceOrder
        /\ UNCHANGED ledgerVars /\ UNCHANGED routerVars /\ UNCHANGED sessionVars
        /\ scan' = scan /\ remaining' = remaining /\ \A s \in Sources : epoch[s] < MaxEpoch
    BY Zenon, <1>2 DEF BeginReset, AtRest
  <2>2. SourceOrder \in Seq(Sources) /\ IsInjective(SourceOrder)
    BY Zenon, RouterConstants
  <2>3. Visits'
    <3>1. \A i \in DOMAIN SourceOrder : SourceOrder[i] \in Sources
      BY <2>2
    <3>2. epoch' = epoch
      BY Zenon, <2>1 DEF sessionVars
    <3> QED BY Zenon, <2>1, <2>2, <3>1, <3>2 DEF Visits, IsInjective
  <2> QED BY Zenon, <1>0, <1>r, <2>1, <2>2, <2>3, TurnKeeps
<1>3. CASE ResetRaises
  <2>1. /\ resetting # <<>> /\ scan = 0 /\ mode' = "failed" /\ resetting' = <<>>
        /\ UNCHANGED ledgerVars /\ UNCHANGED routerVars /\ UNCHANGED sessionVars
        /\ scan' = scan /\ remaining' = remaining
    BY Zenon, <1>3 DEF ResetRaises
  <2>2. call = NoCall
    BY Zenon, <1>b, <2>1 DEF Frames
  <2>3. Visits'
    BY Zenon, <2>1 DEF Visits
  <2> QED BY Zenon, <1>0, <2>1, <2>2, <2>3, TurnKeeps
<1> QED BY Zenon, <1>1, <1>2, <1>3


\* While a session is reset: who is at the head, and what the scan has found.
LEMMA Scanning ==
  ASSUME RInv, resetting # <<>>
  PROVE  /\ Head(resetting) \in Sources /\ call = NoCall /\ scan \in 0..Len(queued) /\ Len(queued) \in Nat
         /\ DOMAIN queued = 1..Len(queued)
         /\ \A i \in DOMAIN queued :
              Ledger!Status[queued[i].key] =
                IF queued[i].source = Head(resetting) /\ i <= scan THEN "cancelled" ELSE "target_pending"
<1>1. Types /\ Frames
  BY Zenon DEF RInv
<1>2. Line /\ Kept
  BY Zenon DEF RInv
<1>3. Head(resetting) \in Sources
  BY <1>1 DEF Types
<1>4. call = NoCall
  BY Zenon, <1>1 DEF Frames
<1>5. Len(queued) \in Nat /\ DOMAIN queued = 1..Len(queued)
  BY Zenon, <1>1, Queue
<1>6. \A i \in DOMAIN queued : Expected(i) =
        IF queued[i].source = Head(resetting) /\ i <= scan THEN "cancelled" ELSE "target_pending"
  BY Zenon, <1>4 DEF Expected
<1>7. \A i \in DOMAIN queued : Ledger!Status[queued[i].key] = Expected(i)
  BY Zenon, <1>2 DEF Line
<1> QED BY Zenon, <1>2, <1>3, <1>4, <1>5, <1>6, <1>7 DEF Kept

\* A request is cancelled.
LEMMA CancelKeeps ==
  ASSUME RInv, Books', CancelOne
  PROVE  RInv'
<1>b. Books /\ Types
  BY Zenon DEF RInv
<1>l. Line /\ Waiting
  BY Zenon DEF RInv
<1>1. /\ resetting # <<>> /\ scan < Len(queued) /\ queued[scan + 1].source = Head(resetting)
      /\ Ledger!CancelAccepted(queued[scan + 1].key, queued[scan + 1].device) /\ scan' = scan + 1
      /\ UNCHANGED routerVars /\ UNCHANGED sessionVars
      /\ mode' = mode /\ resetting' = resetting /\ remaining' = remaining
  BY Zenon DEF CancelOne
<1>u. slots' = slots /\ sequence' = sequence /\ epoch' = epoch
  BY Zenon, <1>1 DEF sessionVars
<1>q. queued' = queued /\ call' = call /\ confirmations' = confirmations
      /\ deliveries' = deliveries /\ deliveryCount' = deliveryCount
  BY Zenon, <1>1 DEF routerVars
<1>2. /\ Head(resetting) \in Sources /\ call = NoCall /\ scan \in 0..Len(queued) /\ Len(queued) \in Nat
      /\ DOMAIN queued = 1..Len(queued)
      /\ \A i \in DOMAIN queued :
           Ledger!Status[queued[i].key] =
             IF queued[i].source = Head(resetting) /\ i <= scan THEN "cancelled" ELSE "target_pending"
  BY Zenon, <1>1, Scanning
<1>n. PICK n \in DOMAIN queued : n = scan + 1
  BY <1>1, <1>2
<1>4. PICK k \in Ledger!Keys : k = queued[n].key
  BY Zenon, <1>b, Queue
<1>3. /\ stack' = stack /\ Turned(k, "cancelled") /\ Ledger!Status[k] = "target_pending"
  <2>1. Ledger!CancelAccepted(k, queued[n].device) /\ queued[n].device \in Devices
    BY Zenon, <1>b, <1>1, <1>n, <1>4, Queue
  <2> QED BY Zenon, <1>b, <2>1, Cancels
<1>t. /\ Payloads /\ Settled /\ Ledger!Status'[k] = "cancelled"
      /\ \A j \in Ledger!Keys : j # k => Ledger!Status'[j] = Ledger!Status[j]
  BY Zenon, <1>3, TurnedParts
<1>5. Types'
  BY Zenon, <1>b, <1>1, <1>u, <1>q DEF Types
<1>6. Frames' /\ Visits'
  <2>1. Frames /\ Visits
    BY Zenon DEF RInv
  <2>2. Frames'
    BY Zenon, <1>2, <1>q, <1>3, <2>1 DEF Frames
  <2>3. Visits'
    BY Zenon, <1>1, <1>u, <2>1 DEF Visits, IsInjective
  <2> QED BY Zenon, <2>2, <2>3
<1>7. Line'
  <2>1. ASSUME NEW j \in DOMAIN queued PROVE Ledger!Status'[queued[j].key] = Expected(j)'
    <3>0. Expected(j)' = IF queued[j].source = Head(resetting) /\ j <= scan + 1 THEN "cancelled" ELSE "target_pending"
      BY Zenon, <1>1, <1>2, <1>q DEF Expected
    <3>1. CASE j = n
      <4>1. Expected(j)' = "cancelled"
        BY <1>1, <1>2, <1>n, <3>0, <3>1
      <4> QED BY Zenon, <1>t, <1>4, <3>1, <4>1
    <3>2. CASE j # n
      <4>1. queued[j].key \in Ledger!Keys
        BY Zenon, <1>b, Queue
      <4>2. queued[j].key # k
        BY Zenon, <1>b, <1>l, <1>4, <3>2, KeysDiffer
      <4>3. Ledger!Status[queued[j].key] = Expected(j)'
        <5>1. j <= scan + 1 <=> j <= scan
          BY <1>2, <1>n, <3>2
        <5>2. Ledger!Status[queued[j].key] =
                IF queued[j].source = Head(resetting) /\ j <= scan THEN "cancelled" ELSE "target_pending"
          BY Zenon, <1>2
        <5> QED BY <3>0, <5>1, <5>2
      <4> QED BY Zenon, <1>t, <4>1, <4>2, <4>3
    <3> QED BY Zenon, <3>1, <3>2
  <2> QED BY Zenon, <1>b, <1>l, <1>u, <1>q, <1>t, <2>1, LineKept
<1>8. Waiting'
  <2>1. \A j \in Ledger!Keys : Ledger!Status'[j] = "target_pending" => Ledger!Status[j] = "target_pending"
    BY Zenon, <1>t
  <2> QED BY Zenon, <1>l, <1>q, <2>1 DEF Waiting
<1>9. Lost' /\ Confirmed'
  <2>1. Lost /\ Confirmed
    BY Zenon DEF RInv
  <2>2. Lost'
    BY Zenon, <1>1, <1>3, <2>1, LostKept
  <2> QED BY Zenon, <1>b, <1>q, <1>t, <2>1, <2>2, ConfirmedKept
<1>10. Known' /\ Current'
  <2>1. Known /\ Current
    BY Zenon DEF RInv
  <2>2. Known'
    BY Zenon, <1>1, <1>u, <1>q, <2>1, KnownKept
  <2> QED BY Zenon, <1>u, <1>t, <2>1, <2>2, CurrentKept
<1>11. Kept'
  <2>0. Kept
    BY Zenon DEF RInv
  <2>1. scan + 1 \in 0..Len(queued) /\ scan + 1 # 0 /\ \A i \in 1..(scan + 1) : i \in 1..scan \/ i = n
    BY <1>2, <1>n
  <2>2. \A i \in 1..scan : i \in 1..(scan + 1)
    BY <1>2
  <2>3. Ordered(remaining)'
    BY Zenon, <1>1, <2>0 DEF Kept, Ordered
  <2>4. \A j \in DOMAIN remaining :
          \E i \in 1..(scan + 1) : remaining[j] = queued[i] /\ queued[i].source # Head(resetting)
    BY Zenon, <2>0, <2>2 DEF Kept
  <2>5. \A i \in 1..(scan + 1) : queued[i].source # Head(resetting) =>
          \E j \in DOMAIN remaining : remaining[j] = queued[i]
    BY Zenon, <1>1, <1>n, <2>0, <2>1 DEF Kept
  <2> QED BY Zenon, <1>1, <1>q, <2>1, <2>3, <2>4, <2>5 DEF Kept
<1> QED BY Zenon, <1>3, <1>5, <1>6, <1>7, <1>8, <1>9, <1>10, <1>11 DEF RInv

\* A request of another session is kept.
LEMMA KeepKeeps ==
  ASSUME RInv, Books', KeepOne
  PROVE  RInv'
<1>b. Books /\ Types
  BY Zenon DEF RInv
<1>l. Line /\ Kept
  BY Zenon DEF RInv
<1>1. /\ resetting # <<>> /\ scan < Len(queued) /\ queued[scan + 1].source # Head(resetting)
      /\ remaining' = Append(remaining, queued[scan + 1]) /\ scan' = scan + 1
      /\ UNCHANGED ledgerVars /\ UNCHANGED routerVars /\ UNCHANGED sessionVars
      /\ mode' = mode /\ resetting' = resetting
  BY Zenon DEF KeepOne
<1>u. slots' = slots /\ sequence' = sequence /\ epoch' = epoch
  BY Zenon, <1>1 DEF sessionVars
<1>q. queued' = queued /\ call' = call /\ confirmations' = confirmations
      /\ deliveries' = deliveries /\ deliveryCount' = deliveryCount
  BY Zenon, <1>1 DEF routerVars
<1>2. /\ call = NoCall /\ scan \in 0..Len(queued) /\ Len(queued) \in Nat /\ DOMAIN queued = 1..Len(queued)
  BY Zenon, <1>1, Scanning
<1>n. PICK n \in DOMAIN queued : n = scan + 1
  BY <1>1, <1>2
<1>e. PICK e \in Item : e = queued[n]
  BY Zenon, <1>b, Queue
<1>3. ASSUME NEW i \in DOMAIN queued PROVE Expected(i)' = Expected(i)
  <2>1. queued[i].source = Head(resetting) /\ i <= scan + 1 <=> queued[i].source = Head(resetting) /\ i <= scan
    BY <1>1, <1>2, <1>n
  <2> QED BY Zenon, <1>1, <1>q, <1>2, <2>1 DEF Expected
<1>4. Settled /\ Frames' /\ Line' /\ Waiting' /\ Lost' /\ Confirmed'
  BY Zenon, <1>1, <1>u, <1>2, <1>3, RestKeeps
<1>5. Known' /\ Current'
  <2>1. Known /\ Current
    BY Zenon DEF RInv
  <2>2. Known'
    BY Zenon, <1>1, <1>u, <1>q, <2>1, KnownKept
  <2> QED BY Zenon, <1>u, <1>4, <2>1, <2>2, CurrentKept
<1>6. Visits'
  <2>1. Visits
    BY Zenon DEF RInv
  <2> QED BY Zenon, <1>1, <1>u, <2>1 DEF Visits, IsInjective
<1>7. PICK r \in Seq(Item) : r = remaining
  BY Zenon, <1>b DEF Types
<1>8. /\ remaining' \in Seq(Item) /\ DOMAIN r = 1..Len(r) /\ Len(r) \in Nat /\ DOMAIN remaining' = 1..(Len(r) + 1)
      /\ remaining'[Len(r) + 1] = e /\ \A i \in 1..Len(r) : remaining'[i] = r[i]
  <2>1. remaining' = Append(r, e)
    BY Zenon, <1>1, <1>n, <1>e, <1>7
  <2> QED BY <2>1, Pushed
<1>9. Types'
  BY Zenon, <1>b, <1>1, <1>u, <1>q, <1>8 DEF Types
<1>10. Kept'
  <2>1. scan + 1 \in 0..Len(queued) /\ scan + 1 # 0 /\ \A i \in 1..(scan + 1) : i \in 1..scan \/ i = n
    BY <1>2, <1>n
  <2>2. /\ \A i \in 1..scan : i \in 1..(scan + 1) /\ i \in DOMAIN queued /\ i < n
        /\ n \in 1..(scan + 1) /\ Len(r) + 1 \in DOMAIN remaining'
    BY <1>2, <1>n, <1>8
  <2>3. Ordered(remaining)'
    <3>1. ASSUME NEW j \in DOMAIN r, r[j].source = e.source PROVE r[j].key[2] < e.key[2]
      <4>1. PICK i \in 1..scan : r[j] = queued[i]
        BY Zenon, <1>l, <1>7 DEF Kept
      <4> QED BY Zenon, <1>l, <1>e, <2>2, <3>1, <4>1 DEF Line, Ordered
    <3>2. Ordered(r)
      BY Zenon, <1>l, <1>7 DEF Kept
    <3>3. Ordered(Append(r, e))
      BY Zenon, <3>1, <3>2, OrderKept
    <3> QED BY ZenonT(60), <1>1, <1>n, <1>e, <1>7, <3>3 DEF Ordered
  <2>4. ASSUME NEW j \in DOMAIN remaining'
        PROVE  \E i \in 1..(scan + 1) : remaining'[j] = queued[i] /\ queued[i].source # Head(resetting)
    <3>1. CASE j \in 1..Len(r)
      <4>1. PICK i \in 1..scan : r[j] = queued[i] /\ queued[i].source # Head(resetting)
        BY Zenon, <1>l, <1>7, <1>8, <3>1 DEF Kept
      <4> QED BY Zenon, <1>8, <2>2, <3>1, <4>1
    <3>2. CASE j = Len(r) + 1
      BY Zenon, <1>1, <1>n, <1>e, <1>8, <2>2, <3>2
    <3> QED BY <1>8, <3>1, <3>2
  <2>5. ASSUME NEW i \in 1..(scan + 1), queued[i].source # Head(resetting)
        PROVE  \E j \in DOMAIN remaining' : remaining'[j] = queued[i]
    <3>1. CASE i \in 1..scan
      <4>1. PICK j \in DOMAIN r : r[j] = queued[i]
        BY Zenon, <1>l, <1>7, <2>5, <3>1 DEF Kept
      <4>2. j \in DOMAIN remaining' /\ remaining'[j] = r[j]
        BY <1>8
      <4> QED BY Zenon, <4>1, <4>2
    <3>2. CASE i = n
      BY Zenon, <1>e, <1>8, <2>2, <3>2
    <3> QED BY Zenon, <2>1, <3>1, <3>2
  <2> QED BY Zenon, <1>1, <1>q, <2>1, <2>3, <2>4, <2>5 DEF Kept
<1> QED BY Zenon, <1>4, <1>5, <1>6, <1>9, <1>10 DEF RInv


\* The loop of cancel_for_ledger has ended and the session forgets its beats.
LEMMA ForgetKeeps ==
  ASSUME RInv, Books', NEW s \in Sources, NEW e \in {epoch[s], epoch[s] + 1}, ForgetBeats(s, e),
         \/ resetting' = Tail(resetting) /\ mode' = mode
         \/ resetting' = <<>> /\ mode' = "failed"
  PROVE  RInv'
<1>b. Books /\ Types
  BY Zenon DEF RInv
<1>l. Line /\ Waiting /\ Kept
  BY Zenon DEF RInv
<1>k. Known /\ Current
  BY Zenon DEF RInv
<1>1. /\ resetting # <<>> /\ s = Head(resetting) /\ scan = Len(queued)
      /\ queued' = remaining /\ scan' = 0 /\ remaining' = <<>>
      /\ slots' = [slots EXCEPT ![s] = [x \in Slots[s] |-> Idle]]
      /\ sequence' = [sequence EXCEPT ![s] = 0] /\ epoch' = [epoch EXCEPT ![s] = e]
  BY Zenon DEF ForgetBeats
<1>u. /\ UNCHANGED ledgerVars /\ call' = call /\ deliveries' = deliveries /\ deliveryCount' = deliveryCount
      /\ confirmations' = confirmations
  BY Zenon DEF ForgetBeats
<1>2. /\ call = NoCall /\ Len(queued) \in Nat /\ DOMAIN queued = 1..Len(queued)
      /\ \A i \in DOMAIN queued :
           Ledger!Status[queued[i].key] =
             IF queued[i].source = Head(resetting) /\ i <= scan THEN "cancelled" ELSE "target_pending"
  BY Zenon, <1>1, Scanning
<1>3. Payloads /\ Settled /\ stack' = stack /\ Ledger!Status' = Ledger!Status
  BY Zenon, <1>b, <1>u, LedgerRests
<1>4. /\ DOMAIN slots' = Sources
      /\ \A t \in Sources : slots'[t] \in [Slots[t] -> SlotValue]
      /\ \A t \in Sources : \A y \in Slots[t] : slots'[t][y] = IF t = s THEN Idle ELSE slots[t][y]
  BY Zenon, <1>b, <1>1, SlotsForgotten
<1>v. Visits
  BY Zenon DEF RInv
<1>5. epoch' \in [Sources -> 0..MaxEpoch] /\ \A t \in Sources : t # s => epoch'[t] = epoch[t]
  <2>1. resetting \in Seq(Sources) /\ epoch \in [Sources -> 0..MaxEpoch]
    BY Zenon, <1>b DEF Types
  <2>2. 1 \in DOMAIN resetting /\ resetting[1] = s
    BY <1>1, <2>1
  <2>3. epoch[s] < MaxEpoch /\ MaxEpoch \in Nat
    BY Zenon, <1>1, <1>v, <2>2, RouterConstants DEF Visits
  <2>4. e \in 0..MaxEpoch
    BY <2>1, <2>3
  <2> QED BY Zenon, <1>1, <2>1, <2>4
<1>6. sequence' \in [Sources -> Nat] /\ <<>> \in Seq(Item) /\ remaining \in Seq(Item)
  BY <1>b, <1>1 DEF Types
<1>7. resetting' \in Seq(Sources) /\ mode' \in {"running", "quiescing", "failed"}
  <2>1. resetting \in Seq(Sources) /\ mode \in {"running", "quiescing", "failed"}
    BY Zenon, <1>b DEF Types
  <2>2. Tail(resetting) \in Seq(Sources) /\ <<>> \in Seq(Sources)
    BY <1>1, <2>1
  <2> QED BY Zenon, <2>1, <2>2
<1>8. Types'
  BY Zenon, <1>b, <1>1, <1>u, <1>4, <1>5, <1>6, <1>7 DEF Types
<1>9. Frames'
  <2>1. stack = <<>>
    BY Zenon, <1>2 DEF RInv, Frames
  <2> QED BY Zenon, <1>2, <1>u, <1>3, <2>1 DEF Frames
<1>10. Visits'
  <2>1. CASE resetting' = <<>>
    BY Zenon, <2>1 DEF Visits
  <2>2. CASE resetting' = Tail(resetting) /\ mode' = mode
    <3>1. resetting \in Seq(Sources)
      BY Zenon, <1>b DEF Types
    <3>2. /\ 1 \in DOMAIN resetting /\ resetting[1] = s
          /\ \A i \in DOMAIN resetting' : /\ i + 1 \in DOMAIN resetting /\ resetting'[i] = resetting[i + 1]
                                          /\ resetting'[i] \in Sources /\ i + 1 # 1
          /\ \A i, j \in DOMAIN resetting' : i + 1 = j + 1 => i = j
      BY <1>1, <2>2, <3>1
    <3>3. IsInjective(resetting) /\ mode = "running" /\ \A i \in DOMAIN resetting : epoch[resetting[i]] < MaxEpoch
      BY Zenon, <1>1, <1>v DEF Visits
    <3>4. ASSUME NEW i \in DOMAIN resetting', resetting'[i] = s PROVE FALSE
      <4>1. i + 1 \in DOMAIN resetting /\ resetting[i + 1] = resetting[1] /\ i + 1 # 1
        BY Zenon, <3>2, <3>4
      <4> QED BY Zenon, <3>2, <3>3, <4>1 DEF IsInjective
    <3>5. \A i \in DOMAIN resetting' : epoch'[resetting'[i]] < MaxEpoch
      <4>1. \A i \in DOMAIN resetting' : epoch'[resetting'[i]] = epoch[resetting[i + 1]]
        BY Zenon, <1>5, <3>2, <3>4
      <4> QED BY Zenon, <3>2, <3>3, <4>1
    <3>6. ASSUME NEW i \in DOMAIN resetting', NEW j \in DOMAIN resetting', resetting'[i] = resetting'[j]
          PROVE  i = j
      <4>1. i + 1 \in DOMAIN resetting /\ j + 1 \in DOMAIN resetting /\ resetting[i + 1] = resetting[j + 1]
        BY Zenon, <3>2, <3>6
      <4>2. i + 1 = j + 1
        BY Zenon, <3>3, <4>1 DEF IsInjective
      <4> QED BY Zenon, <3>2, <4>2
    <3> QED BY Zenon, <2>2, <3>3, <3>5, <3>6 DEF Visits, IsInjective
  <2> QED BY Zenon, <2>1, <2>2
<1>11. ASSUME NEW j \in DOMAIN remaining
       PROVE  \E i \in DOMAIN queued : remaining[j] = queued[i] /\ queued[i].source # s
  <2>1. PICK i \in 1..scan : remaining[j] = queued[i] /\ queued[i].source # Head(resetting)
    BY Zenon, <1>l DEF Kept
  <2>2. i \in DOMAIN queued
    BY Zenon, <1>1, <1>2
  <2> QED BY Zenon, <1>1, <2>1, <2>2
<1>12. ASSUME NEW i \in DOMAIN queued, queued[i].source # s
       PROVE  \E j \in DOMAIN remaining : remaining[j] = queued[i]
  <2>1. i \in 1..scan
    BY Zenon, <1>1, <1>2
  <2> QED BY Zenon, <1>l, <1>1, <1>12, <2>1 DEF Kept
<1>13. Line'
  <2>1. ASSUME NEW j \in DOMAIN remaining
        PROVE  /\ OwnNext(remaining[j]) /\ remaining[j].source \in Deferred
               /\ Ledger!Status'[remaining[j].key] = Expected(j)'
    <3>1. PICK i \in DOMAIN queued : remaining[j] = queued[i] /\ queued[i].source # s
      BY Zenon, <1>11
    <3>2. PICK c \in Item : c = queued[i]
      BY Zenon, <1>b, Queue
    <3>3. Own(c) /\ c.source \in Deferred
      BY Zenon, <1>l, <3>2 DEF Line
    <3>4. OwnNext(c)
      BY Zenon, <1>3, <1>5, <3>1, <3>2, <3>3, ItemParts, OwnKept
    <3>5. Ledger!Status[c.key] = "target_pending"
      BY Zenon, <1>1, <1>2, <3>1, <3>2
    <3>6. ~(j <= 0)
      BY <1>6
    <3>7. Expected(j)' = "target_pending"
      BY Zenon, <1>1, <1>2, <1>u, <3>6 DEF Expected
    <3> QED BY Zenon, <1>3, <3>1, <3>2, <3>3, <3>4, <3>5, <3>7
  <2>2. Ordered(queued)'
    BY Zenon, <1>1, <1>l DEF Kept, Ordered
  <2>3. \A j \in DOMAIN queued' : /\ OwnNext(queued'[j]) /\ queued'[j].source \in Deferred
                                  /\ Ledger!Status'[queued'[j].key] = Expected(j)'
    BY Zenon, <1>1, <2>1
  <2> QED BY Zenon, <2>2, <2>3 DEF Line, Own, OwnNext
<1>14. Waiting'
  <2> SUFFICES ASSUME NEW k \in Ledger!Keys, Ledger!Status'[k] = "target_pending"
               PROVE  \E j \in DOMAIN queued' : queued'[j].key = k
    BY Zenon DEF Waiting
  <2>1. PICK i \in DOMAIN queued : queued[i].key = k
    BY Zenon, <1>l, <1>3 DEF Waiting
  <2>2. i <= scan
    BY <1>1, <1>2
  <2>3. queued[i].source # s
    BY Zenon, <1>1, <1>2, <1>3, <2>1, <2>2
  <2>4. PICK j \in DOMAIN remaining : remaining[j] = queued[i]
    BY Zenon, <1>12, <2>3
  <2> QED BY Zenon, <1>1, <2>1, <2>4
<1>15. Lost' /\ Confirmed'
  <2>1. Lost /\ Confirmed
    BY Zenon DEF RInv
  <2>2. mode = "failed" => mode' = "failed"
    BY Zenon
  <2>3. Lost'
    BY Zenon, <1>3, <2>1, <2>2 DEF Lost
  <2> QED BY Zenon, <1>b, <1>u, <1>3, <2>1, <2>3, ConfirmedKept
<1>16. Known'
  <2> SUFFICES ASSUME mode' # "failed"
               PROVE  /\ \A j \in DOMAIN queued' :
                           slots'[queued'[j].source][queued'[j].slot] = [state |-> "queued", key |-> queued'[j].key]
                      /\ \A t \in Sources : \A y \in QueuedSlots(t)' :
                           \E j \in DOMAIN queued' : queued'[j].source = t /\ queued'[j].slot = y
    BY Zenon DEF Known
  <2>0. mode # "failed"
    BY Zenon
  <2>1. ASSUME NEW j \in DOMAIN remaining
        PROVE  slots'[remaining[j].source][remaining[j].slot] = [state |-> "queued", key |-> remaining[j].key]
    <3>1. PICK i \in DOMAIN queued : remaining[j] = queued[i] /\ queued[i].source # s
      BY Zenon, <1>11
    <3>2. PICK c \in Item : c = queued[i]
      BY Zenon, <1>b, Queue
    <3>3. slots[c.source][c.slot] = [state |-> "queued", key |-> c.key]
      BY Zenon, <1>k, <2>0, <3>2 DEF Known
    <3>4. c.slot \in Slots[c.source] /\ c.source \in Sources
      BY Zenon, <1>l, <3>2, ItemParts DEF Line, Own
    <3>5. slots'[c.source][c.slot] = slots[c.source][c.slot]
      BY Zenon, <1>4, <3>1, <3>2, <3>4
    <3> QED BY Zenon, <3>1, <3>2, <3>3, <3>5
  <2>2. ASSUME NEW t \in Sources, NEW y \in QueuedSlots(t)'
        PROVE  \E j \in DOMAIN remaining : remaining[j].source = t /\ remaining[j].slot = y
    <3>1. y \in Slots[t] /\ slots'[t][y].state = "queued"
      BY Zenon DEF QueuedSlots
    <3>2. Idle.state # "queued"
      BY Zenon DEF Idle
    <3>3. t # s
      BY Zenon, <1>4, <3>1, <3>2
    <3>4. y \in QueuedSlots(t)
      BY Zenon, <1>4, <3>1, <3>3 DEF QueuedSlots
    <3>5. PICK i \in DOMAIN queued : queued[i].source = t /\ queued[i].slot = y
      BY <1>k, <2>0, <3>4 DEF Known
    <3>6. PICK j \in DOMAIN remaining : remaining[j] = queued[i]
      BY Zenon, <1>12, <3>3, <3>5
    <3> QED BY Zenon, <3>5, <3>6
  <2>3. \A j \in DOMAIN queued' :
          slots'[queued'[j].source][queued'[j].slot] = [state |-> "queued", key |-> queued'[j].key]
    BY Zenon, <1>1, <2>1
  <2>4. ASSUME NEW t \in Sources, NEW y \in QueuedSlots(t)'
        PROVE  \E j \in DOMAIN queued' : queued'[j].source = t /\ queued'[j].slot = y
    <3>1. PICK j \in DOMAIN remaining : remaining[j].source = t /\ remaining[j].slot = y
      BY Zenon, <2>2
    <3> QED BY Zenon, <1>1, <3>1
  <2> QED BY Zenon, <2>3, <2>4
<1>17. Current'
  <2>1. ASSUME NEW t \in Sources, NEW y \in Slots[t]
        PROVE  slots'[t][y] = Idle \/ (slots'[t][y] = slots[t][y] /\ epoch'[t] = epoch[t])
    <3>0. slots'[t][y] = IF t = s THEN Idle ELSE slots[t][y]
      BY Zenon, <1>4
    <3>1. CASE t = s
      BY Zenon, <3>0, <3>1
    <3>2. CASE t # s
      BY Zenon, <1>5, <3>0, <3>2
    <3> QED BY Zenon, <3>1, <3>2
  <2> QED BY Zenon, <1>k, <1>3, <2>1, CurrentKept
<1>18. Kept'
  <2>1. Len(queued') \in Nat
    BY <1>1, <1>6
  <2> QED BY Zenon, <1>1, <2>1, KeptEmpty
<1> QED BY Zenon, <1>3, <1>8, <1>9, <1>10, <1>13, <1>14, <1>15, <1>16, <1>17, <1>18 DEF RInv

LEMMA ResetKeeps ==
  ASSUME RInv, Books', NEW s \in Sources, ResetLocal(s) \/ RestartRaises(s)
  PROVE  RInv'
<1>1. CASE ResetLocal(s)
  <2>1. ForgetBeats(s, epoch[s] + 1) /\ resetting' = Tail(resetting) /\ mode' = mode
    BY Zenon, <1>1 DEF ResetLocal
  <2>2. epoch[s] + 1 \in {epoch[s], epoch[s] + 1}
    BY Zenon
  <2> QED BY Zenon, <2>1, <2>2, ForgetKeeps
<1>2. CASE RestartRaises(s)
  <2>1. PICK e \in {epoch[s], epoch[s] + 1} : ForgetBeats(s, e)
    BY Zenon, <1>2 DEF RestartRaises
  <2>2. resetting' = <<>> /\ mode' = "failed"
    BY Zenon, <1>2 DEF RestartRaises
  <2> QED BY Zenon, <2>1, <2>2, ForgetKeeps
<1> QED BY Zenon, <1>1, <1>2


\* What a call in progress is.
LEMMA Calling ==
  ASSUME RInv, call # NoCall
  PROVE  /\ call.item \in Item /\ call.index \in Nat /\ Own(call.item)
         /\ resetting = <<>> /\ mode # "failed" /\ Len(stack) = 1 /\ stack[1].key = call.item.key
         /\ \A i \in DOMAIN queued :
              Ledger!Status[queued[i].key] = IF i = call.index THEN "target_inflight" ELSE "target_pending"
<1>1. Types /\ Frames /\ Line
  BY Zenon DEF RInv
<1>2. call.item \in Item /\ call.index \in Nat
  BY Zenon, <1>1 DEF Types, CallRecord
<1>3. resetting = <<>> /\ mode # "failed" /\ Len(stack) = 1 /\ stack[1].key = call.item.key /\ Own(call.item)
  BY Zenon, <1>1 DEF Frames
<1>4. \A i \in DOMAIN queued : Expected(i) = IF i = call.index THEN "target_inflight" ELSE "target_pending"
  BY Zenon, <1>3 DEF Expected
<1>5. \A i \in DOMAIN queued : Ledger!Status[queued[i].key] = Expected(i)
  BY Zenon, <1>1 DEF Line
<1> QED BY Zenon, <1>2, <1>3, <1>4, <1>5

\* The request that was called leaves the queue, and only that one.
LEMMA PopLeaves ==
  ASSUME RInv, call # NoCall, PopCalled
  PROVE  /\ queued' \in Seq(Item) /\ DOMAIN queued' = 1..Len(queued') /\ Len(queued') \in Nat /\ Ordered(queued')
         /\ \A j \in DOMAIN queued' : \E i \in DOMAIN queued : i # call.index /\ queued'[j] = queued[i]
         /\ \A i \in DOMAIN queued : i # call.index => \E j \in DOMAIN queued' : queued'[j] = queued[i]
<1>1. PICK q \in Seq(Item) : q = queued
  BY Zenon DEF RInv, Types
<1>2. PICK n \in Nat : n = call.index
  BY Zenon, Calling
<1>3. Ordered(q) /\ Len(q) \in Nat /\ DOMAIN q = 1..Len(q)
  BY <1>1 DEF RInv, Line
<1>4. CASE n = 0
  <2>1. queued' = q
    BY Zenon, <1>1, <1>2, <1>4 DEF PopCalled
  <2>2. \A i \in DOMAIN q : i # n
    BY <1>3, <1>4
  <2> QED BY Zenon, <1>1, <1>2, <1>3, <2>1, <2>2
<1>5. CASE n # 0
  <2>1. n \in 1..Len(q)
    BY Zenon, <1>1, <1>2, <1>3, <1>5 DEF RInv, Frames
  <2>2. PICK r : r = Without(q, n)
    BY Zenon
  <2>3. queued' = r
    BY Zenon, <1>1, <1>2, <1>5, <2>2 DEF PopCalled, Without
  <2>4. /\ r \in Seq(Item) /\ Len(r) = Len(q) - 1 /\ DOMAIN r = 1..(Len(q) - 1)
        /\ \A j \in 1..(Len(q) - 1) : r[j] = IF j < n THEN q[j] ELSE q[j + 1]
    BY Zenon, <2>1, <2>2, Popped
  <2>5. Ordered(r)
    <3> SUFFICES ASSUME NEW i \in DOMAIN r, NEW j \in DOMAIN r, i < j, r[i].source = r[j].source
                 PROVE  r[i].key[2] < r[j].key[2]
      BY Zenon DEF Ordered
    <3> DEFINE a == IF i < n THEN i ELSE i + 1
               b == IF j < n THEN j ELSE j + 1
    <3>1. r[i] = q[a] /\ r[j] = q[b]
      BY Zenon, <2>4
    <3>2. a \in DOMAIN q /\ b \in DOMAIN q /\ a < b
      BY <1>3, <2>1, <2>4
    <3> HIDE DEF a, b
    <3> QED BY Zenon, <1>3, <3>1, <3>2 DEF Ordered
  <2>6. ASSUME NEW j \in DOMAIN r PROVE \E i \in DOMAIN q : i # n /\ r[j] = q[i]
    <3>1. CASE j < n
      <4>1. j \in DOMAIN q /\ j # n /\ r[j] = q[j]
        BY <1>3, <2>1, <2>4, <3>1
      <4> QED BY Zenon, <4>1
    <3>2. CASE ~(j < n)
      <4>1. j + 1 \in DOMAIN q /\ j + 1 # n /\ r[j] = q[j + 1]
        BY <1>3, <2>1, <2>4, <3>2
      <4> QED BY Zenon, <4>1
    <3> QED BY Zenon, <3>1, <3>2
  <2>7. ASSUME NEW i \in DOMAIN q, i # n PROVE \E j \in DOMAIN r : r[j] = q[i]
    <3>1. CASE i < n
      <4>1. i \in DOMAIN r /\ r[i] = q[i]
        BY <1>3, <2>1, <2>4, <3>1
      <4> QED BY Zenon, <4>1
    <3>2. CASE ~(i < n)
      <4>1. i - 1 \in DOMAIN r /\ ~(i - 1 < n) /\ i - 1 + 1 = i
        BY <1>3, <2>1, <2>4, <2>7, <3>2
      <4>2. r[i - 1] = q[i]
        BY Zenon, <2>4, <4>1
      <4> QED BY Zenon, <4>1, <4>2
    <3> QED BY Zenon, <3>1, <3>2
  <2>8. DOMAIN r = 1..Len(r) /\ Len(r) \in Nat
    BY <2>1, <2>4
  <2> QED BY Zenon, <1>1, <1>2, <2>3, <2>4, <2>5, <2>6, <2>7, <2>8
<1> QED BY Zenon, <1>4, <1>5

\* The key of the call is the key of no other request in the queue.
LEMMA OthersWait ==
  ASSUME RInv, call # NoCall, NEW i \in DOMAIN queued, i # call.index
  PROVE  /\ queued[i] \in Item /\ Own(queued[i]) /\ queued[i].source \in Deferred
         /\ queued[i].key \in Ledger!Keys /\ queued[i].key # call.item.key
         /\ Ledger!Status[queued[i].key] = "target_pending"
<1>1. Types /\ Line /\ Books
  BY Zenon DEF RInv
<1>2. queued[i] \in Item /\ queued[i].key \in Ledger!Keys /\ Own(queued[i]) /\ queued[i].source \in Deferred
  BY Zenon, <1>1, Queue DEF Line
<1>3. Ledger!Status[queued[i].key] = "target_pending" /\ Len(stack) = 1 /\ stack[1].key = call.item.key
  BY Zenon, Calling
<1>4. Ledger!Status[call.item.key] = "target_inflight"
  BY Zenon, <1>1, <1>3, TheCall
<1> QED BY Zenon, <1>2, <1>3, <1>4

\* A call has ended: what the queue and the books show.
LEMMA EndKeeps ==
  ASSUME RInv, call # NoCall, PopCalled, NEW st \in {"complete", "uncertain_effect"},
         Turned(call.item.key, st), call.item.key \in Ledger!Keys,
         call' = NoCall, epoch' = epoch, resetting' = resetting
  PROVE  Line' /\ Waiting'
<1>1. /\ DOMAIN queued' = 1..Len(queued') /\ Len(queued') \in Nat /\ Ordered(queued')
      /\ \A j \in DOMAIN queued' : \E i \in DOMAIN queued : i # call.index /\ queued'[j] = queued[i]
      /\ \A i \in DOMAIN queued : i # call.index => \E j \in DOMAIN queued' : queued'[j] = queued[i]
  BY Zenon, PopLeaves
<1>2. resetting = <<>>
  BY Zenon, Calling
<1>t. /\ Payloads /\ Ledger!Status'[call.item.key] = st
      /\ \A k \in Ledger!Keys : k # call.item.key => Ledger!Status'[k] = Ledger!Status[k]
  BY Zenon, TurnedParts
<1>3. ASSUME NEW j \in DOMAIN queued'
      PROVE  /\ OwnNext(queued'[j]) /\ queued'[j].source \in Deferred
             /\ Ledger!Status'[queued'[j].key] = Expected(j)'
  <2>1. PICK i \in DOMAIN queued : i # call.index /\ queued'[j] = queued[i]
    BY Zenon, <1>1
  <2>2. /\ queued[i] \in Item /\ Own(queued[i]) /\ queued[i].source \in Deferred
        /\ queued[i].key \in Ledger!Keys /\ queued[i].key # call.item.key
        /\ Ledger!Status[queued[i].key] = "target_pending"
    BY Zenon, <2>1, OthersWait
  <2>3. OwnNext(queued[i])
    BY Zenon, <1>t, <2>2, OwnKept
  <2>4. Expected(j)' = "target_pending"
    BY Zenon, <1>2 DEF Expected
  <2> QED BY Zenon, <1>t, <2>1, <2>2, <2>3, <2>4
<1>4. Ordered(queued)'
  BY Zenon, <1>1 DEF Ordered
<1>5. Line'
  BY Zenon, <1>3, <1>4 DEF Line, Own, OwnNext
<1>6. ASSUME NEW k \in Ledger!Keys, Ledger!Status'[k] = "target_pending"
      PROVE  \E j \in DOMAIN queued' : queued'[j].key = k
  <2>1. k # call.item.key
    BY Zenon, <1>t, <1>6
  <2>2. Ledger!Status[k] = "target_pending"
    BY Zenon, <1>t, <1>6, <2>1
  <2>3. PICK i \in DOMAIN queued : queued[i].key = k
    BY Zenon, <2>2 DEF RInv, Waiting
  <2>4. i # call.index
    BY Zenon, Calling, <2>2, <2>3
  <2>5. PICK j \in DOMAIN queued' : queued'[j] = queued[i]
    BY Zenon, <1>1, <2>4
  <2> QED BY Zenon, <2>3, <2>5
<1>7. Waiting'
  BY Zenon, <1>6 DEF Waiting
<1> QED BY Zenon, <1>5, <1>7


\* One more delivery of a device, with or without its row.
LEMMA Delivered ==
  ASSUME Types, call.item.device \in Devices, call.item.key \in Ledger!Keys, NEW b \in BOOLEAN, Deliver(b)
  PROVE  deliveries' \in [Devices -> Seq(Row)] /\ deliveryCount' \in [Devices -> Nat]
<1>1. PICK d \in Devices : d = call.item.device
  BY Zenon
<1>2. deliveries \in [Devices -> Seq(Row)] /\ deliveryCount \in [Devices -> Nat]
  BY Zenon DEF Types
<1>n. PICK n \in Nat : n = deliveryCount[d] + 1
  BY <1>2
<1>3. PICK row \in Row : row = [key |-> call.item.key, target_delivery_order |-> n]
  BY Zenon DEF Row
<1>4. /\ deliveryCount' = [deliveryCount EXCEPT ![d] = deliveryCount[d] + 1]
      /\ deliveries' = deliveries \/ deliveries' = [deliveries EXCEPT ![d] = Append(deliveries[d], row)]
  BY Zenon, <1>1, <1>n, <1>3 DEF Deliver
<1>5. deliveryCount' \in [Devices -> Nat]
  BY <1>2, <1>4
<1>6. Append(deliveries[d], row) \in Seq(Row)
  BY <1>2
<1>7. [deliveries EXCEPT ![d] = Append(deliveries[d], row)] \in [Devices -> Seq(Row)]
  BY Zenon, <1>2, <1>6
<1> QED BY Zenon, <1>2, <1>4, <1>5, <1>7


\* The target returns and the session has the response.
LEMMA ReturnKeeps ==
  ASSUME RInv, Books', TargetReturns
  PROVE  RInv'
<1>b. Books /\ Types
  BY Zenon DEF RInv
<1>k. Known /\ Current
  BY Zenon DEF RInv
<1>1. /\ call # NoCall /\ Ledger!OperationReturns("response") /\ PopCalled /\ Deliver(TRUE)
      /\ slots' = [slots EXCEPT ![call.item.source][call.item.slot] =
                     [state |-> "answered", key |-> call.item.key]]
      /\ confirmations' = IF call.index # 0 /\ call.item.device \in Ordinary
                           THEN confirmations \cup {call.item.key} ELSE confirmations
  BY Zenon DEF TargetReturns
<1>u. /\ call' = NoCall /\ sequence' = sequence /\ epoch' = epoch /\ mode' = mode
      /\ resetting' = resetting /\ scan' = scan /\ remaining' = remaining
  BY Zenon DEF TargetReturns, resetVars
<1>2. /\ call.item \in Item /\ call.index \in Nat /\ Own(call.item) /\ resetting = <<>> /\ mode # "failed"
      /\ Len(stack) = 1 /\ stack[1].key = call.item.key
  BY Zenon, <1>1, Calling
<1>c. PICK c \in Item : c = call.item
  BY Zenon, <1>2
<1>p. c.source \in Sources /\ c.key \in Ledger!Keys /\ c.device \in Devices /\ c.slot \in Slots[c.source]
      /\ c.key[1] = <<c.source, epoch[c.source]>>
  BY Zenon, <1>2, <1>c, ItemParts DEF Own
<1>3. stack' = <<>> /\ Ledger!Status[c.key] = "target_inflight" /\ Turned(c.key, "complete")
  BY Zenon, <1>b, <1>1, <1>2, <1>c, Returns
<1>t. /\ Settled /\ Ledger!Status'[c.key] = "complete"
      /\ \A k \in Ledger!Keys : k # c.key => Ledger!Status'[k] = Ledger!Status[k]
  BY Zenon, <1>p, <1>3, TurnedParts
<1>4. Line' /\ Waiting'
  BY Zenon, <1>1, <1>u, <1>c, <1>p, <1>3, EndKeeps
<1>q. /\ queued' \in Seq(Item) /\ Len(queued') \in Nat
      /\ \A j \in DOMAIN queued' : \E i \in DOMAIN queued : i # call.index /\ queued'[j] = queued[i]
      /\ \A i \in DOMAIN queued : i # call.index => \E j \in DOMAIN queued' : queued'[j] = queued[i]
  BY Zenon, <1>1, PopLeaves
<1>7. PICK v \in SlotValue : v = [state |-> "answered", key |-> c.key]
  BY Zenon, <1>p DEF SlotValue
<1>v. v.state = "answered" /\ v.key = c.key
  BY Zenon, <1>7
<1>8. /\ DOMAIN slots' = Sources
      /\ \A t \in Sources : slots'[t] \in [Slots[t] -> SlotValue]
      /\ \A t \in Sources : \A y \in Slots[t] :
           slots'[t][y] = IF t = c.source /\ y = c.slot THEN v ELSE slots[t][y]
  <2>1. slots' = [slots EXCEPT ![c.source][c.slot] = v]
    BY Zenon, <1>1, <1>c, <1>7
  <2> QED BY ZenonT(60), <1>b, <1>p, <2>1, SlotSet
<1>9. confirmations' \subseteq Ledger!Keys /\ \A k \in confirmations' : k \in confirmations \/ k = c.key
  BY Zenon, <1>b, <1>1, <1>c, <1>p DEF Types
<1>10. deliveries' \in [Devices -> Seq(Row)] /\ deliveryCount' \in [Devices -> Nat]
  BY Zenon, <1>b, <1>1, <1>c, <1>p, Delivered
<1>11. Types'
  BY Zenon, <1>b, <1>u, <1>q, <1>8, <1>9, <1>10 DEF Types
<1>12. Frames' /\ Visits'
  BY Zenon, <1>u, <1>2, <1>3 DEF Frames, Visits
<1>13. Lost'
  <2>1. Lost
    BY Zenon DEF RInv
  <2> QED BY Zenon, <1>u, <1>p, <1>3, <2>1, LostKept
<1>14. Confirmed'
  <2>1. Confirmed /\ confirmations \subseteq Ledger!Keys
    BY Zenon, <1>b DEF RInv, Types
  <2> QED BY Zenon, <1>t, <1>9, <2>1 DEF Confirmed, Settled
<1>15. ASSUME NEW i \in DOMAIN queued, i # call.index
       PROVE  /\ slots'[queued[i].source][queued[i].slot] = [state |-> "queued", key |-> queued[i].key]
  <2>1. queued[i] \in Item /\ Own(queued[i]) /\ queued[i].key # c.key
    BY Zenon, <1>1, <1>c, <1>15, OthersWait
  <2>2. PICK e \in Item : e = queued[i]
    BY Zenon, <2>1
  <2>3. slots[e.source][e.slot] = [state |-> "queued", key |-> e.key]
    BY Zenon, <1>k, <1>2, <2>2 DEF Known
  <2>4. e.slot \in Slots[e.source] /\ e.source \in Sources
    BY Zenon, <2>1, <2>2, ItemParts DEF Own
  <2>5. ~(e.source = c.source /\ e.slot = c.slot)
    <3>1. CASE call.index = 0
      <4>1. slots[c.source][c.slot] = Idle
        BY Zenon, <1>1, <1>c, <3>1 DEF RInv, Frames
      <4>2. [state |-> "queued", key |-> e.key] # Idle
        BY Zenon DEF Idle
      <4> QED BY Zenon, <2>3, <4>1, <4>2
    <3>2. CASE call.index # 0
      <4>1. call.index \in DOMAIN queued /\ queued[call.index] = c
        BY Zenon, <1>1, <1>c, <3>2 DEF RInv, Frames
      <4>2. slots[c.source][c.slot] = [state |-> "queued", key |-> c.key]
        BY Zenon, <1>k, <1>2, <4>1 DEF Known
      <4>3. [state |-> "queued", key |-> e.key] # [state |-> "queued", key |-> c.key]
        BY Zenon, <2>1, <2>2
      <4> QED BY Zenon, <2>3, <4>2, <4>3
    <3> QED BY Zenon, <3>1, <3>2
  <2>6. slots'[e.source][e.slot] = IF e.source = c.source /\ e.slot = c.slot THEN v ELSE slots[e.source][e.slot]
    BY Zenon, <1>8, <2>4
  <2> QED BY Zenon, <2>2, <2>3, <2>5, <2>6
<1>16. Known'
  <2>1. ASSUME NEW j \in DOMAIN queued'
        PROVE  slots'[queued'[j].source][queued'[j].slot] = [state |-> "queued", key |-> queued'[j].key]
    <3>1. PICK i \in DOMAIN queued : i # call.index /\ queued'[j] = queued[i]
      BY Zenon, <1>q
    <3>2. slots'[queued[i].source][queued[i].slot] = [state |-> "queued", key |-> queued[i].key]
      BY Zenon, <1>15, <3>1
    <3> QED BY Zenon, <3>1, <3>2
  <2>2. ASSUME NEW t \in Sources, NEW y \in QueuedSlots(t)'
        PROVE  \E j \in DOMAIN queued' : queued'[j].source = t /\ queued'[j].slot = y
    <3>1. y \in Slots[t] /\ slots'[t][y].state = "queued"
      BY Zenon DEF QueuedSlots
    <3>0. slots'[t][y] = IF t = c.source /\ y = c.slot THEN v ELSE slots[t][y]
      BY Zenon, <1>8, <3>1
    <3>2. ~(t = c.source /\ y = c.slot)
      BY Zenon, <1>v, <3>0, <3>1
    <3>3. y \in QueuedSlots(t)
      BY Zenon, <3>0, <3>1, <3>2 DEF QueuedSlots
    <3>4. PICK i \in DOMAIN queued : queued[i].source = t /\ queued[i].slot = y
      BY ZenonT(60), <1>k, <1>2, <3>3 DEF Known
    <3>5. i # call.index
      <4>1. CASE call.index = 0
        BY <1>b, <4>1, Queue
      <4>2. CASE call.index # 0
        <5>1. queued[call.index] = c
          BY Zenon, <1>1, <1>c, <4>2 DEF RInv, Frames
        <5> QED BY Zenon, <3>2, <3>4, <5>1
      <4> QED BY Zenon, <4>1, <4>2
    <3>6. PICK j \in DOMAIN queued' : queued'[j] = queued[i]
      BY Zenon, <1>q, <3>5
    <3> QED BY Zenon, <3>4, <3>6
  <2> QED BY Zenon, <2>1, <2>2 DEF Known
<1>17. Current'
  <2>1. Good(c.source, v)
    BY Zenon, <1>u, <1>p, <1>t, <1>v DEF Good
  <2>2. ASSUME NEW t \in Sources, NEW y \in Slots[t]
        PROVE  (slots'[t][y] = slots[t][y] /\ epoch'[t] = epoch[t]) \/ Good(t, slots'[t][y])
    <3>0. slots'[t][y] = IF t = c.source /\ y = c.slot THEN v ELSE slots[t][y]
      BY Zenon, <1>8
    <3> QED BY Zenon, <1>u, <2>1, <3>0
  <2> QED BY Zenon, <1>k, <1>t, <2>2, CurrentKept
<1>18. Kept'
  <2>1. Kept
    BY Zenon DEF RInv
  <2> QED BY Zenon, <1>u, <1>q, <1>2, <2>1, KeptIdle
<1> QED BY Zenon, <1>3, <1>4, <1>11, <1>12, <1>13, <1>14, <1>16, <1>17, <1>18 DEF RInv

\* The call ends and the runner fails.
LEMMA FailKeeps ==
  ASSUME RInv, Books', CallbackRaises \/ TargetRaises
  PROVE  RInv'
<1>b. Books /\ Types
  BY Zenon DEF RInv
<1>1. /\ call # NoCall /\ PopCalled /\ call' = NoCall /\ mode' = "failed" /\ confirmations' = confirmations
      /\ Ledger!OperationReturns("response") \/ Ledger!OperationRaises
      /\ Deliver(call.item.device \notin Confirming) \/ (deliveries' = deliveries /\ deliveryCount' = deliveryCount)
  <2>1. CASE CallbackRaises
    BY Zenon, <2>1 DEF CallbackRaises
  <2>2. CASE TargetRaises
    BY Zenon, <2>2 DEF TargetRaises
  <2> QED BY Zenon, <2>1, <2>2
<1>u. /\ slots' = slots /\ sequence' = sequence /\ epoch' = epoch
      /\ resetting' = resetting /\ scan' = scan /\ remaining' = remaining
  BY Zenon DEF CallbackRaises, TargetRaises, resetVars, sessionVars
<1>2. /\ call.item \in Item /\ call.index \in Nat /\ resetting = <<>>
      /\ Len(stack) = 1 /\ stack[1].key = call.item.key
  BY Zenon, <1>1, Calling
<1>c. PICK c \in Item : c = call.item
  BY Zenon, <1>2
<1>p. c.key \in Ledger!Keys /\ c.device \in Devices
  BY Zenon, <1>2, <1>c, ItemParts
<1>3. PICK st \in {"complete", "uncertain_effect"} :
        stack' = <<>> /\ Ledger!Status[c.key] = "target_inflight" /\ Turned(c.key, st)
  <2>1. CASE Ledger!OperationReturns("response")
    <3>1. stack' = <<>> /\ Ledger!Status[c.key] = "target_inflight" /\ Turned(c.key, "complete")
      BY Zenon, <1>b, <1>2, <1>c, <2>1, Returns
    <3> QED BY Zenon, <3>1
  <2>2. CASE Ledger!OperationRaises
    <3>1. stack' = <<>> /\ Ledger!Status[c.key] = "target_inflight" /\ Turned(c.key, "uncertain_effect")
      BY Zenon, <1>b, <1>2, <1>c, <2>2, Raises
    <3> QED BY Zenon, <3>1
  <2> QED BY Zenon, <1>1, <2>1, <2>2
<1>t. Settled
  BY Zenon, <1>p, <1>3, TurnedParts
<1>4. Line' /\ Waiting'
  BY Zenon, <1>1, <1>u, <1>c, <1>p, <1>3, EndKeeps
<1>q. queued' \in Seq(Item) /\ Len(queued') \in Nat
  BY Zenon, <1>1, PopLeaves
<1>10. deliveries' \in [Devices -> Seq(Row)] /\ deliveryCount' \in [Devices -> Nat]
  <2>1. CASE Deliver(call.item.device \notin Confirming)
    BY Zenon, <1>b, <1>c, <1>p, <2>1, Delivered
  <2>2. CASE deliveries' = deliveries /\ deliveryCount' = deliveryCount
    BY Zenon, <1>b, <2>2 DEF Types
  <2> QED BY Zenon, <1>1, <2>1, <2>2
<1>11. Types'
  BY Zenon, <1>b, <1>1, <1>u, <1>q, <1>10 DEF Types
<1>12. Frames' /\ Visits'
  BY Zenon, <1>1, <1>u, <1>2, <1>3 DEF Frames, Visits
<1>13. Lost' /\ Known'
  BY Zenon, <1>1 DEF Lost, Known
<1>14. Confirmed'
  <2>1. Confirmed
    BY Zenon DEF RInv
  <2> QED BY Zenon, <1>b, <1>1, <1>t, <2>1, ConfirmedKept
<1>17. Current'
  <2>1. Current
    BY Zenon DEF RInv
  <2> QED BY Zenon, <1>u, <1>t, <2>1, CurrentKept
<1>18. Kept'
  <2>1. Kept
    BY Zenon DEF RInv
  <2> QED BY Zenon, <1>u, <1>q, <1>2, <2>1, KeptIdle
<1> QED BY Zenon, <1>3, <1>4, <1>11, <1>12, <1>13, <1>14, <1>17, <1>18 DEF RInv


-----------------------------------------------------------------------------
(* The invariant. *)

\* The scan of drain_one finds the first request of a device that has one.
OldestExists == \A d \in Devices : QueuedFor(d) # {} => Oldest(d) \in QueuedFor(d)

\* Every step of the router leaves the ledgers alone or is one call of a ledger.
LedgerCall ==
  \/ \E key \in Ledger!Keys, d \in Devices :
       \/ Ledger!Accept(key, d) \/ Ledger!CompleteAccepted(key, d)
       \/ Ledger!ExecuteOnce(key, d) \/ Ledger!CancelAccepted(key, d)
  \/ Ledger!OperationReturns("response") \/ Ledger!OperationRaises

LEMMA LedgerCalled ==
  ASSUME RInv, OldestExists, [Next]_vars
  PROVE  LedgerCall \/ UNCHANGED ledgerVars
<1>b. Books /\ Types
  BY Zenon DEF RInv
<1>1. ASSUME NEW s \in Sources, NEW d \in Devices, NEW x \in Slots[s], Enqueue(s, x, d) \/ Transact(s, x, d)
      PROVE  LedgerCall
  <2>1. sequence[s] < MaxSequence /\ (Ledger!Accept(NextKey(s), d) \/ Ledger!ExecuteOnce(NextKey(s), d))
    BY Zenon, <1>1 DEF Enqueue, Transact, Ready
  <2>2. NextKey(s) \in Ledger!Keys
    BY Zenon, <1>b, <2>1, NextKeyParts
  <2> QED BY Zenon, <2>1, <2>2 DEF LedgerCall
<1>2. ASSUME NEW d \in Devices, DrainOne(d) PROVE LedgerCall
  <2>1. Oldest(d) \in DOMAIN queued /\ Ledger!CompleteAccepted(queued[Oldest(d)].key, d)
    BY Zenon, <1>2 DEF OldestExists, DrainOne, QueuedFor
  <2>2. queued[Oldest(d)].key \in Ledger!Keys
    BY Zenon, <1>b, <2>1, Queue
  <2> QED BY Zenon, <2>1, <2>2 DEF LedgerCall
<1>3. ASSUME CancelOne PROVE LedgerCall
  <2>1. /\ resetting # <<>> /\ scan < Len(queued)
        /\ Ledger!CancelAccepted(queued[scan + 1].key, queued[scan + 1].device)
    BY Zenon, <1>3 DEF CancelOne
  <2>2. scan + 1 \in DOMAIN queued
    BY <2>1, Scanning
  <2>3. queued[scan + 1].key \in Ledger!Keys /\ queued[scan + 1].device \in Devices
    BY Zenon, <1>b, <2>2, Queue
  <2> QED BY Zenon, <2>1, <2>3 DEF LedgerCall
<1>4. ASSUME TargetReturns \/ CallbackRaises \/ TargetRaises PROVE LedgerCall
  BY Zenon, <1>4 DEF LedgerCall, TargetReturns, CallbackRaises, TargetRaises
<1>5. ASSUME NEW d \in Devices, DrainRefused(d) PROVE UNCHANGED ledgerVars
  BY Zenon, <1>5 DEF DrainRefused
<1>6. ASSUME NEW s \in Sources, NEW x \in Slots[s], ConsumeResponse(s, x) PROVE UNCHANGED ledgerVars
  BY Zenon, <1>6 DEF ConsumeResponse
<1>7. ASSUME BeginQuiesce \/ BeginReset \/ KeepOne \/ ResetRaises PROVE UNCHANGED ledgerVars
  BY Zenon, <1>7 DEF BeginQuiesce, BeginReset, KeepOne, ResetRaises
<1>8. ASSUME NEW s \in Sources, ResetLocal(s) \/ RestartRaises(s) PROVE UNCHANGED ledgerVars
  BY Zenon, <1>8 DEF ResetLocal, RestartRaises, ForgetBeats
<1>9. ASSUME UNCHANGED vars PROVE UNCHANGED ledgerVars
  BY Zenon, <1>9 DEF vars
<1> QED BY ZenonT(60), <1>1, <1>2, <1>3, <1>4, <1>5, <1>6, <1>7, <1>8, <1>9 DEF Next

LEMMA RouterInit ==
  ASSUME Init, Books
  PROVE  RInv
<1>1. /\ Ledger!Init /\ queued = <<>> /\ call = NoCall /\ deliveries = [d \in Devices |-> <<>>]
      /\ deliveryCount = [d \in Devices |-> 0] /\ confirmations = {}
      /\ slots = [s \in Sources |-> [x \in Slots[s] |-> Idle]] /\ sequence = [s \in Sources |-> 0]
  BY Zenon DEF Init
<1>2. epoch = [s \in Sources |-> 0] /\ mode = "running" /\ resetting = <<>> /\ scan = 0 /\ remaining = <<>>
  BY Zenon DEF Init
<1>5. entries = [key \in Ledger!Keys |-> NoEntry] /\ stack = <<>>
  BY Zenon, <1>1 DEF Ledger!Init
<1>6. \A key \in Ledger!Keys : Ledger!Status[key] = "absent"
  BY Zenon, <1>5 DEF Ledger!Status
<1>7. Types
  <2>1. Idle \in SlotValue
    BY Zenon DEF Idle, SlotValue
  <2>2. DOMAIN slots = Sources /\ \A s \in Sources : slots[s] = [x \in Slots[s] |-> Idle]
    BY Zenon, <1>1
  <2>3. \A s \in Sources : slots[s] \in [Slots[s] -> SlotValue]
    BY Zenon, <2>1, <2>2
  <2>4. epoch \in [Sources -> 0..MaxEpoch] /\ sequence \in [Sources -> Nat]
    BY <1>1, <1>2, RouterConstants
  <2>5. deliveries \in [Devices -> Seq(Row)] /\ deliveryCount \in [Devices -> Nat]
    BY <1>1
  <2>6. queued \in Seq(Item) /\ remaining \in Seq(Item) /\ resetting \in Seq(Sources)
    BY <1>1, <1>2
  <2>7. call \in CallRecord \cup {NoCall} /\ confirmations \subseteq Ledger!Keys /\ mode \in {"running", "quiescing", "failed"}
    BY Zenon, <1>1, <1>2
  <2> QED BY Zenon, <2>2, <2>3, <2>4, <2>5, <2>6, <2>7 DEF Types
<1>8. Frames /\ Visits
  BY Zenon, <1>1, <1>2, <1>5 DEF Frames, Visits
<1>9. Line
  BY <1>1 DEF Line, Ordered
<1>10. Waiting /\ Lost
  BY Zenon, <1>6 DEF Waiting, Lost
<1>11. \A s \in Sources : \A x \in Slots[s] : slots[s][x] = Idle
  BY Zenon, <1>1
<1>12. Known
  <2>1. \A s \in Sources : \A x \in QueuedSlots(s) : FALSE
    BY <1>11 DEF QueuedSlots, Idle
  <2> QED BY <1>1, <2>1 DEF Known
<1>13. Current /\ Confirmed
  BY Zenon, <1>1, <1>11 DEF Current, Confirmed
<1>14. Kept
  <2>1. Ordered(remaining)
    BY <1>2 DEF Ordered
  <2> QED BY <1>1, <1>2, <2>1 DEF Kept
<1> QED BY Zenon, <1>7, <1>8, <1>9, <1>10, <1>12, <1>13, <1>14 DEF RInv

LEMMA RouterStutter ==
  ASSUME RInv, Books', UNCHANGED vars
  PROVE  RInv'
<1>1. /\ UNCHANGED ledgerVars /\ UNCHANGED routerVars /\ UNCHANGED sessionVars /\ mode' = mode
      /\ resetting' = resetting /\ scan' = scan /\ remaining' = remaining
  BY Zenon DEF vars, resetVars
<1>2. queued' = queued /\ call' = call /\ deliveries' = deliveries /\ deliveryCount' = deliveryCount
      /\ confirmations' = confirmations
  BY Zenon, <1>1 DEF routerVars
<1>3. slots' = slots /\ sequence' = sequence /\ epoch' = epoch
  BY Zenon, <1>1 DEF sessionVars
<1>4. Books /\ Types /\ Frames
  BY Zenon DEF RInv
<1>5. Payloads /\ Settled /\ stack' = stack /\ Ledger!Status' = Ledger!Status
  BY Zenon, <1>1, <1>4, LedgerRests
<1>6. entries' = entries
  BY Zenon, <1>1 DEF ledgerVars
<1>7. Types'
  BY Zenon, <1>1, <1>2, <1>3, <1>4 DEF Types
<1>8. Frames'
  BY Zenon, <1>1, <1>2, <1>3, <1>4, <1>5, <1>6 DEF Frames, Own, Full
<1>9. Visits'
  BY Zenon, <1>1, <1>3 DEF RInv, Visits, IsInjective
<1>10. Line'
  <2>1. Line
    BY Zenon DEF RInv
  <2>2. \A i \in DOMAIN queued : Expected(i)' = Expected(i)
    BY Zenon, <1>1, <1>2 DEF Expected
  <2>3. \A i \in DOMAIN queued : Ledger!Status'[queued[i].key] = Expected(i)'
    BY Zenon, <1>5, <2>1, <2>2 DEF Line
  <2> QED BY Zenon, <1>2, <1>3, <1>4, <1>5, <2>1, <2>3, LineKept
<1>11. Waiting' /\ Lost'
  BY Zenon, <1>1, <1>2, <1>5 DEF RInv, Waiting, Lost
<1>12. Known'
  BY Zenon, <1>1, <1>2, <1>3, KnownKept DEF RInv
<1>13. Current'
  BY Zenon, <1>3, <1>5, CurrentKept DEF RInv
<1>14. Confirmed'
  BY Zenon, <1>2, <1>4, <1>5, ConfirmedKept DEF RInv
<1>15. Kept'
  BY Zenon, <1>1, <1>2 DEF RInv, Kept, Ordered
<1> QED BY Zenon, <1>5, <1>7, <1>8, <1>9, <1>10, <1>11, <1>12, <1>13, <1>14, <1>15 DEF RInv

LEMMA RouterStep ==
  ASSUME RInv, Books', OldestExists, [Next]_vars
  PROVE  RInv'
<1>1. ASSUME NEW s \in Sources, NEW d \in Devices, NEW x \in Slots[s], Enqueue(s, x, d) \/ Transact(s, x, d)
      PROVE  RInv'
  BY Zenon, <1>1, EnqueueKeeps, TransactKeeps
<1>2. ASSUME NEW d \in Devices, DrainOne(d) PROVE RInv'
  <2>1. Oldest(d) \in QueuedFor(d)
    BY Zenon, <1>2 DEF OldestExists, DrainOne
  <2> QED BY Zenon, <1>2, <2>1, DrainKeeps
<1>3. CASE (\E d \in Devices : DrainRefused(d)) \/ BeginQuiesce \/ BeginReset \/ ResetRaises
  BY Zenon, <1>3, ModeKeeps
<1>4. CASE TargetReturns
  BY Zenon, <1>4, ReturnKeeps
<1>5. CASE CallbackRaises \/ TargetRaises
  BY Zenon, <1>5, FailKeeps
<1>6. ASSUME NEW s \in Sources, NEW x \in Slots[s], ConsumeResponse(s, x) PROVE RInv'
  BY Zenon, <1>6, ConsumeKeeps
<1>7. CASE CancelOne
  BY Zenon, <1>7, CancelKeeps
<1>8. CASE KeepOne
  BY Zenon, <1>8, KeepKeeps
<1>9. ASSUME NEW s \in Sources, ResetLocal(s) \/ RestartRaises(s) PROVE RInv'
  BY Zenon, <1>9, ResetKeeps
<1>10. CASE UNCHANGED vars
  BY Zenon, <1>10, RouterStutter
<1> QED BY ZenonT(60), <1>1, <1>2, <1>3, <1>4, <1>5, <1>6, <1>7, <1>8, <1>9, <1>10 DEF Next

-----------------------------------------------------------------------------
(* What the invariant says. *)

LEMMA PendingQueue == RInv => QueueIsPending
<1> SUFFICES ASSUME RInv, AtRest
             PROVE  /\ IsInjective(queued)
                    /\ {queued[i].key : i \in DOMAIN queued} =
                         {key \in Ledger!Keys : Ledger!Status[key] = "target_pending"}
  BY Zenon DEF QueueIsPending
<1>1. Types /\ Line /\ Waiting /\ call = NoCall /\ resetting = <<>>
  BY Zenon DEF RInv, AtRest
<1>2. IsInjective(queued)
  <2>1. \A i, j \in DOMAIN queued : queued[i].key = queued[j].key => i = j
    BY Zenon, <1>1, KeysDiffer
  <2> QED BY Zenon, <2>1 DEF IsInjective
<1>3. \A i \in DOMAIN queued : queued[i].key \in Ledger!Keys /\ Ledger!Status[queued[i].key] = "target_pending"
  BY Zenon, <1>1, AtRestLine
<1>4. \A key \in Ledger!Keys : Ledger!Status[key] = "target_pending" => \E i \in DOMAIN queued : queued[i].key = key
  BY Zenon, <1>1 DEF Waiting
<1> DEFINE told == {queued[i].key : i \in DOMAIN queued}
           pending == {key \in Ledger!Keys : Ledger!Status[key] = "target_pending"}
<1>5. told \subseteq pending
  BY Zenon, <1>3
<1>6. pending \subseteq told
  BY Zenon, <1>4
<1>7. told = pending
  <2> HIDE DEF told, pending
  <2> QED BY Zenon, <1>5, <1>6
<1> QED BY Zenon, <1>2, <1>7

LEMMA ReadyOldest == RInv => OldestIsReady
<1> SUFFICES ASSUME RInv, call = NoCall, mode # "failed", NEW s \in Sources, NEW i \in Uncancelled(s),
                    \A j \in Uncancelled(s) : i <= j
             PROVE  TargetReady(queued[i].key)
  BY Zenon DEF OldestIsReady
<1>b. Books /\ Types
  BY Zenon DEF RInv
<1>l. Line /\ Waiting
  BY Zenon DEF RInv
<1>1. i \in DOMAIN queued /\ queued[i].source = s /\ Ledger!Status[queued[i].key] # "cancelled"
  BY Zenon DEF Uncancelled, OwnItems
<1>2. Expected(i) \in {"cancelled", "target_pending"}
  BY Zenon DEF Expected
<1>3. PICK k \in Ledger!Keys : k = queued[i].key
  BY Zenon, <1>b, <1>1, Queue
<1>4. Ledger!Status[k] = "target_pending"
  BY Zenon, <1>l, <1>1, <1>2, <1>3 DEF Line
<1>5. k[1] = <<s, epoch[s]>>
  BY Zenon, <1>l, <1>1, <1>3 DEF Line, Own
<1>6. ASSUME k[2] # nextTargetSequence[k[1]] PROVE FALSE
  <2> DEFINE n == nextTargetSequence[k[1]]
  <2>1. /\ n \in 1..MaxSequence /\ n < k[2] /\ <<k[1], n>> \in Ledger!Keys
        /\ Ledger!Status[<<k[1], n>>] \in {"target_pending", "target_inflight", "uncertain_effect"}
    BY Zenon, <1>b, <1>4, <1>6, PendingKey
  <2>2. PICK h \in Ledger!Keys : h = <<k[1], n>>
    BY Zenon, <2>1
  <2>3. h[1] = k[1] /\ h[2] < k[2] /\ h[2] \in Int /\ k[2] \in Int
    BY <2>1, <2>2, KeyShape
  <2>4. Ledger!Status[h] # "uncertain_effect"
    BY Zenon DEF RInv, Lost
  <2>5. Ledger!Status[h] # "target_inflight"
    <3>1. stack = <<>>
      BY Zenon DEF RInv, Frames
    <3> QED BY <1>b, <3>1, BooksShow
  <2>6. Ledger!Status[h] = "target_pending"
    BY Zenon, <2>1, <2>2, <2>4, <2>5
  <2>7. PICK j \in DOMAIN queued : queued[j].key = h
    BY Zenon, <1>l, <2>6 DEF Waiting
  <2>8. queued[j].source = s
    <3>1. queued[j].key[1] = <<queued[j].source, epoch[queued[j].source]>>
      BY Zenon, <1>l, <2>7 DEF Line, Own
    <3> QED BY <1>5, <2>3, <2>7, <3>1
  <2>9. j \in Uncancelled(s)
    BY Zenon, <2>6, <2>7, <2>8 DEF Uncancelled, OwnItems
  <2>10. i \in Int /\ j \in Int /\ i <= j
    BY <1>b, <1>1, <2>7, <2>9, Queue
  <2>11. i # j
    BY <1>3, <2>3, <2>7
  <2>12. i < j
    BY <2>10, <2>11
  <2>13. queued[i].key[2] < queued[j].key[2]
    BY Zenon, <1>l, <1>1, <2>7, <2>8, <2>12 DEF Line, Ordered
  <2> QED BY <1>3, <2>3, <2>7, <2>13
<1> QED BY Zenon, <1>3, <1>4, <1>6 DEF TargetReady

-----------------------------------------------------------------------------
(* Deliveries. *)

Done(d) == {key \in Ledger!Keys : Ledger!Status[key] = "complete" /\ entries[key].digest = d}

\* DeliveriesTellTheTruth of one device.
Truth(d, rows, done, count, conf, m) ==
  /\ \A i \in DOMAIN rows : rows[i].target_delivery_order = i /\ rows[i].key \in done
  /\ count = Cardinality(done)
  /\ Len(rows) # Cardinality(done) => m = "failed" /\ d \in Confirming
  /\ Cardinality(conf) <= MaxConfirmations
  /\ d \in Ordinary => conf \cap done =
       {rows[i].key : i \in {j \in DOMAIN rows : rows[j].key[1][1] \in Deferred}}
Told == \A d \in Devices : Truth(d, deliveries[d], Done(d), deliveryCount[d], confirmations, mode)

\* Nothing is completed and nothing delivered.
LEMMA DoneTurned ==
  ASSUME Books, NEW key \in Ledger!Keys, NEW st, Turned(key, st),
         Ledger!Status[key] # "complete", st # "complete"
  PROVE  \A d : Done(d)' = Done(d)
<1>1. /\ Payloads /\ Ledger!Status'[key] = st
      /\ \A k \in Ledger!Keys : k # key => Ledger!Status'[k] = Ledger!Status[k]
  BY Zenon, TurnedParts
<1>2. \A k \in Ledger!Keys : Ledger!Status'[k] = "complete" <=> Ledger!Status[k] = "complete"
  BY Zenon, <1>1
<1>3. ASSUME NEW k \in Ledger!Keys, Ledger!Status[k] = "complete" PROVE entries'[k].digest = entries[k].digest
  <2>1. entries[k] # NoEntry
    BY Zenon, <1>3, BooksShow
  <2> QED BY Zenon, <1>1, <2>1 DEF Payloads
<1>4. ASSUME NEW d, NEW k PROVE k \in Done(d)' <=> k \in Done(d)
  BY Zenon, <1>2, <1>3 DEF Done
<1>5. ASSUME NEW d PROVE Done(d)' = Done(d)
  BY <1>4
<1> QED BY Zenon, <1>5

LEMMA DoneStays ==
  ASSUME Books, UNCHANGED ledgerVars
  PROVE  \A d : Done(d)' = Done(d)
<1>1. Ledger!Status' = Ledger!Status /\ entries' = entries
  BY Zenon, LedgerRests DEF ledgerVars
<1> QED BY Zenon, <1>1 DEF Done

\* One request is completed.
LEMMA DoneGrows ==
  ASSUME Books, NEW key \in Ledger!Keys, Turned(key, "complete"), Ledger!Status[key] = "target_inflight"
  PROVE  /\ \A d : d # entries[key].digest => Done(d)' = Done(d) /\ key \notin Done(d)'
         /\ \A d : d = entries[key].digest => Done(d)' = Done(d) \cup {key} /\ key \notin Done(d)
<1>1. /\ Payloads /\ Ledger!Status'[key] = "complete"
      /\ \A k \in Ledger!Keys : k # key => Ledger!Status'[k] = Ledger!Status[k]
  BY Zenon, TurnedParts
<1>2. ASSUME NEW k \in Ledger!Keys, Ledger!Status[k] = "complete" \/ k = key
      PROVE  entries'[k].digest = entries[k].digest
  <2>1. entries[k] # NoEntry
    BY Zenon, <1>2, BooksShow
  <2> QED BY Zenon, <1>1, <2>1 DEF Payloads
<1>3. PICK e : e = entries[key].digest
  BY Zenon
<1>4. \A d : key \notin Done(d)
  BY Zenon DEF Done
<1>5. ASSUME NEW d, NEW k, k # key PROVE k \in Done(d)' <=> k \in Done(d)
  <2>1. k \in Ledger!Keys => Ledger!Status'[k] = Ledger!Status[k]
    BY Zenon, <1>1, <1>5
  <2> QED BY Zenon, <1>2, <2>1 DEF Done
<1>6. \A d : key \in Done(d)' <=> d = e
  BY Zenon, <1>1, <1>2, <1>3 DEF Done
<1>7. ASSUME NEW d, d # e PROVE Done(d)' = Done(d) /\ key \notin Done(d)'
  <2>1. key \notin Done(d)'
    BY Zenon, <1>6, <1>7
  <2>2. ASSUME NEW k PROVE k \in Done(d)' <=> k \in Done(d)
    BY Zenon, <1>4, <1>5, <2>1
  <2> QED BY Zenon, <2>1, <2>2
<1>8. \A k : k \in Done(e)' <=> k \in Done(e) \cup {key}
  BY Zenon, <1>4, <1>5, <1>6
<1>9. Done(e)' = Done(e) \cup {key} /\ key \notin Done(e)
  BY Zenon, <1>4, <1>8
<1> QED BY Zenon, <1>3, <1>7, <1>9

LEMMA ToldKept ==
  ASSUME Told, \A d : Done(d)' = Done(d), mode = "failed" => mode' = "failed",
         deliveries' = deliveries, deliveryCount' = deliveryCount, confirmations' = confirmations
  PROVE  Told'
<1>1. ASSUME NEW d \in Devices
      PROVE  Truth(d, deliveries[d], Done(d), deliveryCount[d], confirmations, mode')
  BY Zenon DEF Told, Truth
<1>2. ASSUME NEW d \in Devices
      PROVE  Truth(d, deliveries'[d], Done(d)', deliveryCount'[d], confirmations', mode')
  BY Zenon, <1>1
<1> QED BY Zenon, <1>2 DEF Told, Truth

\* Every other step leaves the deliveries alone and completes nothing.
LEMMA OthersTold ==
  ASSUME RInv, Told, OldestExists, [Next]_vars, ~TargetReturns, ~CallbackRaises
  PROVE  Told'
<1>b. Books /\ Types
  BY Zenon DEF RInv
<1>1. ASSUME NEW key \in Ledger!Keys, NEW st, Turned(key, st), Ledger!Status[key] # "complete", st # "complete",
             mode = "failed" => mode' = "failed", UNCHANGED <<deliveries, deliveryCount, confirmations>>
      PROVE  Told'
  BY Zenon, <1>b, <1>1, DoneTurned, ToldKept
<1>2. ASSUME UNCHANGED ledgerVars, mode = "failed" => mode' = "failed",
             UNCHANGED <<deliveries, deliveryCount, confirmations>>
      PROVE  Told'
  BY Zenon, <1>b, <1>2, DoneStays, ToldKept
<1>3. ASSUME NEW s \in Sources, NEW d \in Devices, NEW x \in Slots[s], Enqueue(s, x, d) PROVE Told'
  <2>1. /\ sequence[s] < MaxSequence /\ Ledger!Accept(NextKey(s), d) /\ mode' = mode
        /\ UNCHANGED <<deliveries, deliveryCount, confirmations>>
    BY Zenon, <1>3 DEF Enqueue, Ready
  <2>2. NextKey(s) \in Ledger!Keys
    BY Zenon, <1>b, <2>1, NextKeyParts
  <2>3. Ledger!Status[NextKey(s)] = "absent" /\ Turned(NextKey(s), "target_pending")
    BY Zenon, <1>b, <2>1, <2>2, Accepts
  <2> QED BY Zenon, <1>1, <2>1, <2>2, <2>3
<1>4. ASSUME NEW s \in Sources, NEW d \in Devices, NEW x \in Slots[s], Transact(s, x, d) PROVE Told'
  <2>1. /\ sequence[s] < MaxSequence /\ Ledger!ExecuteOnce(NextKey(s), d) /\ mode' = mode /\ call = NoCall
        /\ UNCHANGED <<deliveries, deliveryCount, confirmations>>
    BY Zenon, <1>4 DEF Transact, Ready, AtRest
  <2>2. NextKey(s) \in Ledger!Keys
    BY Zenon, <1>b, <2>1, NextKeyParts
  <2>3. Ledger!Status[NextKey(s)] = "absent" /\ Turned(NextKey(s), "target_inflight")
    <3>1. stack = <<>>
      BY Zenon, <2>1 DEF RInv, Frames
    <3> QED BY Zenon, <1>b, <2>1, <2>2, <3>1, Executes
  <2> QED BY Zenon, <1>1, <2>1, <2>2, <2>3
<1>5. ASSUME NEW d \in Devices, DrainOne(d) PROVE Told'
  <2>1. /\ call = NoCall /\ QueuedFor(d) # {} /\ Ledger!CompleteAccepted(queued[Oldest(d)].key, d)
        /\ mode' = mode /\ UNCHANGED <<deliveries, deliveryCount, confirmations>>
    BY Zenon, <1>5 DEF DrainOne, AtRest
  <2>2. PICK k \in Ledger!Keys : k = queued[Oldest(d)].key
    BY Zenon, <1>b, <1>5, <2>1, Queue DEF OldestExists, QueuedFor
  <2>3. Ledger!Status[k] = "target_pending" /\ Turned(k, "target_inflight")
    <3>1. stack = <<>>
      BY Zenon, <2>1 DEF RInv, Frames
    <3> QED BY Zenon, <1>b, <2>1, <2>2, <3>1, Sends
  <2> QED BY Zenon, <1>1, <2>1, <2>3
<1>6. ASSUME CancelOne PROVE Told'
  <2>1. /\ resetting # <<>> /\ scan < Len(queued) /\ mode' = mode /\ UNCHANGED routerVars
        /\ Ledger!CancelAccepted(queued[scan + 1].key, queued[scan + 1].device)
    BY Zenon, <1>6 DEF CancelOne
  <2>2. PICK n \in DOMAIN queued : n = scan + 1
    BY <2>1, Scanning
  <2>3. PICK k \in Ledger!Keys : k = queued[n].key
    BY Zenon, <1>b, Queue
  <2>4. Ledger!CancelAccepted(k, queued[n].device) /\ queued[n].device \in Devices
    BY Zenon, <1>b, <2>1, <2>2, <2>3, Queue
  <2>5. Ledger!Status[k] = "target_pending" /\ Turned(k, "cancelled")
    BY Zenon, <1>b, <2>4, Cancels
  <2>6. UNCHANGED <<deliveries, deliveryCount, confirmations>>
    BY Zenon, <2>1 DEF routerVars
  <2> QED BY Zenon, <1>1, <2>1, <2>5, <2>6
<1>7. ASSUME TargetRaises PROVE Told'
  <2>1. /\ call # NoCall /\ Ledger!OperationRaises /\ mode' = "failed"
        /\ UNCHANGED <<deliveries, deliveryCount, confirmations>>
    BY Zenon, <1>7 DEF TargetRaises
  <2>2. PICK k : k = stack[1].key /\ Len(stack) = 1
    BY Zenon, <2>1, Calling
  <2>3. k \in Ledger!Keys /\ Ledger!Status[k] = "target_inflight" /\ Turned(k, "uncertain_effect")
    BY Zenon, <1>b, <2>1, <2>2, Raises
  <2> QED BY Zenon, <1>1, <2>1, <2>3
<1>8. ASSUME NEW d \in Devices, DrainRefused(d) PROVE Told'
  BY Zenon, <1>2, <1>8 DEF DrainRefused, routerVars
<1>9. ASSUME NEW s \in Sources, NEW x \in Slots[s], ConsumeResponse(s, x) PROVE Told'
  BY Zenon, <1>2, <1>9 DEF ConsumeResponse, routerVars
<1>10. ASSUME BeginQuiesce \/ BeginReset \/ KeepOne \/ ResetRaises PROVE Told'
  BY Zenon, <1>2, <1>10 DEF BeginQuiesce, BeginReset, KeepOne, ResetRaises, routerVars
<1>11. ASSUME NEW s \in Sources, ResetLocal(s) \/ RestartRaises(s) PROVE Told'
  <2>1. UNCHANGED ledgerVars /\ UNCHANGED <<deliveries, deliveryCount, confirmations>>
    BY Zenon, <1>11 DEF ResetLocal, RestartRaises, ForgetBeats
  <2>2. mode = "failed" => mode' = "failed"
    BY Zenon, <1>11 DEF ResetLocal, RestartRaises
  <2> QED BY Zenon, <1>2, <2>1, <2>2
<1>12. ASSUME UNCHANGED vars PROVE Told'
  BY Zenon, <1>2, <1>12 DEF vars, routerVars
<1> QED BY ZenonT(60), <1>3, <1>4, <1>5, <1>6, <1>7, <1>8, <1>9, <1>10, <1>11, <1>12 DEF Next

-----------------------------------------------------------------------------
INSTANCE FiniteSetTheorems

LEMMA LeastElement ==
  ASSUME NEW T, T \subseteq Nat, T # {}
  PROVE  \E x \in T : \A y \in T : x <= y
<1>1. \E x \in T : \A y \in T : ~(<<y, x>> \in OpToRel(<, Nat))
  BY Zenon, NatLessThanWellFounded, WFMin
<1>2. \A x, y \in T : <<y, x>> \in OpToRel(<, Nat) <=> y < x
  BY Zenon DEF OpToRel
<1>3. \E x \in T : \A y \in T : ~(y < x)
  BY Zenon, <1>1, <1>2
<1> QED BY <1>3


LEMMA OldestFound == Types => OldestExists
<1> SUFFICES ASSUME Types, NEW d \in Devices, QueuedFor(d) # {} PROVE Oldest(d) \in QueuedFor(d)
  BY Zenon DEF OldestExists
<1>1. QueuedFor(d) \subseteq Nat
  BY Queue DEF QueuedFor
<1>2. \E i \in QueuedFor(d) : \A j \in QueuedFor(d) : i <= j
  BY Zenon, <1>1, LeastElement
<1> QED BY Zenon, <1>2 DEF Oldest

LEMMA CountsAgree == RInv => QueueAccounting
<1> SUFFICES ASSUME RInv, mode # "failed", NEW s \in Sources
             PROVE  Cardinality(QueuedSlots(s)) = Cardinality(OwnItems(s))
  BY Zenon DEF QueueAccounting
<1>1. Types /\ Line /\ Known
  BY Zenon DEF RInv
<1> DEFINE S == OwnItems(s) T == QueuedSlots(s) f == [i \in OwnItems(s) |-> queued[i].slot]
<1>2. ASSUME NEW i \in S
      PROVE  /\ i \in DOMAIN queued /\ queued[i].source = s /\ queued[i].slot \in T
             /\ slots[s][queued[i].slot].key = queued[i].key
  <2>1. i \in DOMAIN queued /\ queued[i].source = s
    BY Zenon DEF OwnItems
  <2>2. queued[i].slot \in Slots[s]
    BY Zenon, <1>1, <2>1 DEF Line, Own
  <2>3. slots[s][queued[i].slot] = [state |-> "queued", key |-> queued[i].key]
    BY Zenon, <1>1, <2>1 DEF Known
  <2> QED BY <2>1, <2>2, <2>3 DEF QueuedSlots
<1>3. ASSUME NEW y \in T PROVE \E i \in S : queued[i].slot = y
  <2>1. PICK i \in DOMAIN queued : queued[i].source = s /\ queued[i].slot = y
    BY <1>1 DEF Known
  <2>2. i \in S
    BY Zenon, <2>1 DEF OwnItems
  <2> QED BY Zenon, <2>1, <2>2
<1>4. ASSUME NEW i \in S, NEW j \in S, queued[i].slot = queued[j].slot PROVE i = j
  <2>1. queued[i].key = queued[j].key
    BY Zenon, <1>2, <1>4
  <2> QED BY <1>1, <1>2, <2>1, KeysDiffer
<1>5. IsFiniteSet(S)
  <2>1. S \subseteq 1..Len(queued) /\ Len(queued) \in Nat
    BY Zenon, <1>1, Queue DEF OwnItems
  <2>2. IsFiniteSet(1..Len(queued))
    BY <2>1, FS_Interval
  <2> QED BY <2>1, <2>2, FS_Subset
<1> HIDE DEF S, T
<1>6. f \in Bijection(S, T)
  <2>1. f \in [S -> T] /\ \A i \in S : f[i] = queued[i].slot
    BY Zenon, <1>2 DEF S
  <2> HIDE DEF f
  <2>2. DOMAIN f = S
    BY Zenon, <2>1
  <2>3. \A i, j \in DOMAIN f : f[i] = f[j] => i = j
    BY Zenon, <1>4, <2>1, <2>2
  <2>4. f \in Injection(S, T)
    BY Zenon, <2>1, <2>3 DEF Injection, IsInjective
  <2>5. \A y \in T : \E i \in S : f[i] = y
    BY Zenon, <1>3, <2>1
  <2>6. f \in Surjection(S, T)
    BY Zenon, <2>1, <2>5 DEF Surjection
  <2> QED BY Zenon, <2>4, <2>6 DEF Bijection
<1>7. ExistsBijection(S, T)
  BY Zenon, <1>6 DEF ExistsBijection
<1>8. Cardinality(T) = Cardinality(S)
  BY <1>5, <1>7, FS_Bijection
<1> QED BY Zenon, <1>8 DEF S, T

LEMMA ToldIsTruth == Told => DeliveriesTellTheTruth
BY Zenon DEF Told, Truth, Done, DeliveriesTellTheTruth

LEMMA FiniteKeys == IsFiniteSet(Ledger!Keys)
<1>1. IsFiniteSet(0..MaxEpoch) /\ IsFiniteSet(1..MaxSequence) /\ IsFiniteSet(Sources)
  BY FS_Interval, RouterConstants
<1>2. IsFiniteSet(Sources \X (0..MaxEpoch))
  BY <1>1, FS_Product
<1>3. IsFiniteSet((Sources \X (0..MaxEpoch)) \X (1..MaxSequence))
  BY <1>1, <1>2, FS_Product
<1> QED BY Zenon, <1>3 DEF Ledger!Keys

LEMMA FiniteDone == \A d : IsFiniteSet(Done(d)) /\ Cardinality(Done(d)) \in Nat
<1>1. ASSUME NEW d PROVE Done(d) \in SUBSET Ledger!Keys
  BY Zenon DEF Done
<1> QED BY <1>1, FiniteKeys, FS_Subset, FS_CardinalityType

LEMMA ToldInit == Init => Told
<1> SUFFICES ASSUME Init, NEW d \in Devices
             PROVE  Truth(d, deliveries[d], Done(d), deliveryCount[d], confirmations, mode)
  BY Zenon DEF Told
<1>1. /\ deliveries[d] = <<>> /\ deliveryCount[d] = 0 /\ confirmations = {}
  BY Zenon DEF Init
<1>2. Done(d) = {}
  <2>1. entries = [key \in Ledger!Keys |-> NoEntry]
    BY Zenon DEF Init, Ledger!Init
  <2> QED BY Zenon, <2>1 DEF Done, Ledger!Status
<1>3. Cardinality({}) = 0
  BY Zenon, FS_EmptySet
<1> QED BY <1>1, <1>2, <1>3, RouterConstants DEF Truth

\* A delivery with its row, one without, and what it means for another device.
LEMMA TruthGrows ==
  ASSUME NEW d, NEW rows \in Seq(Row), NEW done, IsFiniteSet(done), NEW count, NEW conf, NEW conf2, NEW m, NEW m2,
         Truth(d, rows, done, count, conf, m), m # "failed",
         NEW k \in Ledger!Keys, k \notin done, NEW row \in Row,
         row.key = k, row.target_delivery_order = count + 1, Cardinality(conf2) <= MaxConfirmations,
         d \in Ordinary => conf2 \cap (done \cup {k}) =
                           (conf \cap done) \cup (IF k[1][1] \in Deferred THEN {k} ELSE {})
  PROVE  Truth(d, Append(rows, row), done \cup {k}, count + 1, conf2, m2)
<1>1. PICK n \in Nat : n = Len(rows) /\ n = Cardinality(done) /\ n = count
  BY DEF Truth
<1>2. Cardinality(done \cup {k}) = n + 1
  BY Zenon, <1>1, FS_AddElement
<1>3. PICK more : more = Append(rows, row)
  BY Zenon
<1>4. /\ Len(more) = n + 1 /\ DOMAIN more = 1..(n + 1) /\ DOMAIN rows = 1..n
      /\ \A i \in 1..n : more[i] = rows[i]
      /\ more[n + 1] = row
  <2>1. /\ Len(Append(rows, row)) = Len(rows) + 1
        /\ DOMAIN rows = 1..Len(rows) /\ DOMAIN Append(rows, row) = 1..(Len(rows) + 1)
        /\ \A i \in 1..Len(rows) : Append(rows, row)[i] = rows[i]
        /\ Append(rows, row)[Len(rows) + 1] = row
    BY Pushed
  <2> QED BY Zenon, <1>1, <1>3, <2>1
<1>5. \A i \in 1..n : rows[i].target_delivery_order = i /\ rows[i].key \in done
  BY Zenon, <1>4 DEF Truth
<1>6. \A i \in 1..(n + 1) : (i \in 1..n \/ i = n + 1) /\ (i \in 1..n => i # n + 1)
  BY <1>1
<1>7. \A i \in DOMAIN more : more[i].target_delivery_order = i /\ more[i].key \in done \cup {k}
  BY Zenon, <1>1, <1>4, <1>5, <1>6
<1>8. ASSUME d \in Ordinary
      PROVE  conf2 \cap (done \cup {k}) = {more[i].key : i \in {j \in DOMAIN more : more[j].key[1][1] \in Deferred}}
  <2>1. conf \cap done = {rows[i].key : i \in {j \in DOMAIN rows : rows[j].key[1][1] \in Deferred}}
    BY Zenon, <1>8 DEF Truth
  <2>2. \A x : x \in {rows[i].key : i \in {j \in DOMAIN rows : rows[j].key[1][1] \in Deferred}} <=>
               \E i \in 1..n : x = rows[i].key /\ rows[i].key[1][1] \in Deferred
    BY Zenon, <1>4
  <2>3. \A x : x \in {more[i].key : i \in {j \in DOMAIN more : more[j].key[1][1] \in Deferred}} <=>
               \E i \in 1..(n + 1) : x = more[i].key /\ more[i].key[1][1] \in Deferred
    BY Zenon, <1>4
  <2>4. ASSUME NEW x
        PROVE  (\E i \in 1..(n + 1) : x = more[i].key /\ more[i].key[1][1] \in Deferred) <=>
               (\E i \in 1..n : x = rows[i].key /\ rows[i].key[1][1] \in Deferred) \/ (x = k /\ k[1][1] \in Deferred)
    <3>1. n + 1 \in 1..(n + 1) /\ \A i \in 1..n : i \in 1..(n + 1)
      BY <1>1
    <3> QED BY Zenon, <1>4, <1>6, <3>1
  <2>5. \A x : x \in conf2 \cap (done \cup {k}) <=> x \in conf \cap done \/ (x = k /\ k[1][1] \in Deferred)
    BY Zenon, <1>8
  <2>6. \A x : x \in conf2 \cap (done \cup {k}) <=>
               x \in {more[i].key : i \in {j \in DOMAIN more : more[j].key[1][1] \in Deferred}}
    BY Zenon, <2>1, <2>2, <2>3, <2>4, <2>5
  <2> QED BY Zenon, <2>6
<1>9. Len(more) = Cardinality(done \cup {k}) /\ count + 1 = Cardinality(done \cup {k})
  BY Zenon, <1>1, <1>2, <1>4
<1>10. Truth(d, more, done \cup {k}, count + 1, conf2, m2)
  BY Zenon, <1>7, <1>8, <1>9 DEF Truth
<1> QED BY Zenon, <1>3, <1>10

LEMMA TruthWithout ==
  ASSUME NEW d \in Confirming, NEW rows, NEW done, IsFiniteSet(done), NEW count, NEW conf, NEW m,
         Truth(d, rows, done, count, conf, m), NEW k, k \notin done, k \notin conf
  PROVE  Truth(d, rows, done \cup {k}, count + 1, conf, "failed")
<1>1. Cardinality(done \cup {k}) = Cardinality(done) + 1
  BY Zenon, FS_AddElement
<1>2. conf \cap (done \cup {k}) = conf \cap done
  BY Zenon
<1> QED BY Zenon, <1>1, <1>2 DEF Truth

LEMMA TruthElsewhere ==
  ASSUME NEW d, NEW rows, NEW done, NEW count, NEW conf, NEW conf2, NEW m, NEW m2,
         Truth(d, rows, done, count, conf, m), NEW k, k \notin done,
         \A x : x # k => (x \in conf2 <=> x \in conf), Cardinality(conf2) <= MaxConfirmations,
         m = "failed" => m2 = "failed"
  PROVE  Truth(d, rows, done, count, conf2, m2)
<1>1. \A x : x \in conf2 \cap done <=> x \in conf \cap done
  BY Zenon
<1>2. conf2 \cap done = conf \cap done
  BY Zenon, <1>1
<1> QED BY Zenon, <1>2 DEF Truth

\* A call that ends with its response known: deliver has recorded it.
LEMMA DeliveryTold ==
  ASSUME RInv, Told, call # NoCall, Ledger!OperationReturns("response"), NEW b \in BOOLEAN, Deliver(b),
         b \/ (call.item.device \in Confirming /\ mode' = "failed"),
         confirmations' = confirmations \/ (b /\ confirmations' = confirmations \cup {call.item.key}),
         b /\ call.item.device \in Ordinary => (confirmations' = confirmations \cup {call.item.key} <=> call.index # 0),
         confirmations' # confirmations => call.index # 0 /\ call.item.device \in Ordinary
  PROVE  Told'
<1>b. Books /\ Types /\ Frames /\ Line /\ Confirmed
  BY Zenon DEF RInv
<1>1. /\ call.item \in Item /\ call.index \in Nat /\ Own(call.item) /\ mode # "failed"
      /\ Len(stack) = 1 /\ stack[1].key = call.item.key
  BY Zenon, Calling
<1>2. PICK c \in Item : c = call.item
  BY Zenon, <1>1
<1>3. /\ c.source \in Sources /\ c.key \in Ledger!Keys /\ c.device \in Devices
      /\ c.key[1] = <<c.source, epoch[c.source]>> /\ entries[c.key].digest = c.device
  BY <1>1, <1>2, ItemParts DEF Own
<1>4. Ledger!Status[c.key] = "target_inflight" /\ Turned(c.key, "complete")
  BY <1>b, <1>1, <1>2, Returns
<1>5. /\ \A d : d # c.device => Done(d)' = Done(d) /\ c.key \notin Done(d)'
      /\ Done(c.device)' = Done(c.device) \cup {c.key} /\ c.key \notin Done(c.device)
  BY Zenon, <1>b, <1>3, <1>4, DoneGrows
<1>6. c.key \notin confirmations /\ c.key[1][1] = c.source
  BY <1>b, <1>3, <1>4 DEF Confirmed
<1>7. /\ call.index # 0 => c.source \in Deferred /\ ~Full(c.device)
      /\ call.index = 0 => c.source \notin Deferred
  BY Zenon, <1>b, <1>2 DEF Frames, Line
<1>8. Cardinality(confirmations') <= MaxConfirmations
  <2>1. Cardinality(confirmations) <= MaxConfirmations
    BY Zenon, <1>3 DEF Told, Truth
  <2>2. CASE confirmations' = confirmations
    BY Zenon, <2>1, <2>2
  <2>3. CASE confirmations' # confirmations
    <3>1. call.index # 0 /\ c.device \in Ordinary /\ confirmations' = confirmations \cup {c.key}
      BY Zenon, <1>2, <2>3
    <3>2. IsFiniteSet(confirmations) /\ Cardinality(confirmations) \in Nat
      BY Zenon, <1>b, FiniteKeys, FS_Subset, FS_CardinalityType DEF Types
    <3>3. ~(Cardinality(confirmations) >= MaxConfirmations)
      BY Zenon, <1>7, <3>1 DEF Full
    <3>4. Cardinality(confirmations \cup {c.key}) = Cardinality(confirmations) + 1
      BY <1>6, <3>2, FS_AddElement
    <3> QED BY <3>1, <3>2, <3>3, <3>4, RouterConstants
  <2> QED BY Zenon, <2>2, <2>3
<1>9. \A x : x # c.key => (x \in confirmations' <=> x \in confirmations)
  BY Zenon, <1>2
<1>10. /\ \A d \in Devices : deliveryCount'[d] = IF d = c.device THEN deliveryCount[d] + 1 ELSE deliveryCount[d]
       /\ \A d \in Devices : d # c.device \/ ~b => deliveries'[d] = deliveries[d]
  BY <1>b, <1>2, <1>3 DEF Types, Deliver
<1>11. ASSUME NEW d \in Devices, d # c.device
       PROVE  Truth(d, deliveries'[d], Done(d)', deliveryCount'[d], confirmations', mode')
  <2>1. Truth(d, deliveries[d], Done(d), deliveryCount[d], confirmations, mode)
    BY Zenon DEF Told
  <2>2. Done(d)' = Done(d) /\ c.key \notin Done(d)
    BY Zenon, <1>5, <1>11
  <2>3. Truth(d, deliveries[d], Done(d), deliveryCount[d], confirmations', mode')
    BY <1>1, <1>8, <1>9, <2>1, <2>2, TruthElsewhere
  <2>4. deliveryCount'[d] = deliveryCount[d] /\ deliveries'[d] = deliveries[d]
    BY Zenon, <1>10, <1>11
  <2> QED BY Zenon, <2>2, <2>3, <2>4
<1>12. PICK d \in Devices : d = c.device
  BY Zenon, <1>3
<1>13. Truth(d, deliveries[d], Done(d), deliveryCount[d], confirmations, mode)
  BY Zenon DEF Told
<1>14. deliveryCount'[d] = deliveryCount[d] + 1 /\ IsFiniteSet(Done(d))
  BY <1>10, <1>12, FiniteDone
<1>15. Truth(d, deliveries'[d], Done(d)', deliveryCount'[d], confirmations', mode')
  <2>1. CASE b
    <3>n. deliveries[d] \in Seq(Row) /\ deliveryCount[d] \in Nat
      BY Zenon, <1>b DEF Types
    <3>o. PICK o \in Nat : o = deliveryCount[d] + 1
      BY <3>n
    <3>1. PICK row \in Row : row = [key |-> c.key, target_delivery_order |-> o]
      BY Zenon, <1>3 DEF Row
    <3>2. row.key = c.key /\ row.target_delivery_order = deliveryCount[d] + 1
      BY Zenon, <3>o, <3>1
    <3>3. deliveries'[d] = Append(deliveries[d], row)
      <4>1. deliveries' = [deliveries EXCEPT ![d] = Append(deliveries[d], row)]
        BY <1>2, <1>12, <2>1, <3>o, <3>1 DEF Deliver
      <4> QED BY Zenon, <1>b, <4>1 DEF Types
    <3>4. ASSUME d \in Ordinary
          PROVE  confirmations' \cap (Done(d) \cup {c.key}) =
                 (confirmations \cap Done(d)) \cup (IF c.key[1][1] \in Deferred THEN {c.key} ELSE {})
      <4>1. CASE call.index = 0
        <5>1. c.source \notin Deferred /\ confirmations' = confirmations
          BY Zenon, <1>7, <4>1
        <5> QED BY Zenon, <1>6, <5>1
      <4>2. CASE call.index # 0
        <5>1. c.source \in Deferred /\ confirmations' = confirmations \cup {c.key}
          BY <1>2, <1>7, <1>12, <2>1, <3>4, <4>2
        <5> QED BY Zenon, <1>6, <5>1
      <4> QED BY <4>1, <4>2
    <3>5. Truth(d, Append(deliveries[d], row), Done(d) \cup {c.key}, deliveryCount[d] + 1, confirmations', mode')
      BY <1>1, <1>3, <1>5, <1>8, <1>12, <1>13, <1>14, <3>n, <3>2, <3>4, TruthGrows
    <3> QED BY Zenon, <1>5, <1>12, <1>14, <3>3, <3>5
  <2>2. CASE ~b
    <3>1. deliveries'[d] = deliveries[d] /\ confirmations' = confirmations /\ mode' = "failed" /\ d \in Confirming
      BY <1>2, <1>10, <1>12, <2>2
    <3>2. Truth(d, deliveries[d], Done(d) \cup {c.key}, deliveryCount[d] + 1, confirmations, "failed")
      BY <1>5, <1>6, <1>12, <1>13, <1>14, <3>1, TruthWithout
    <3> QED BY Zenon, <1>5, <1>12, <1>14, <3>1, <3>2
  <2> QED BY <2>1, <2>2
<1>16. \A e \in Devices : Truth(e, deliveries'[e], Done(e)', deliveryCount'[e], confirmations', mode')
  BY Zenon, <1>11, <1>12, <1>15
<1> QED BY Zenon, <1>16 DEF Told, Truth

LEMMA ToldStep == RInv /\ Told /\ [Next]_vars => Told'
<1> SUFFICES ASSUME RInv, Told, [Next]_vars PROVE Told'
  BY Zenon
<1>0. OldestExists
  BY Zenon, OldestFound DEF RInv
<1>1. CASE TargetReturns
  <2>1. /\ call # NoCall /\ Ledger!OperationReturns("response") /\ Deliver(TRUE)
        /\ confirmations' = IF call.index # 0 /\ call.item.device \in Ordinary
                             THEN confirmations \cup {call.item.key} ELSE confirmations
    BY Zenon, <1>1 DEF TargetReturns
  <2>2. call.item.key \notin confirmations
    <3>1. Books /\ Confirmed
      BY Zenon DEF RInv
    <3>2. Len(stack) = 1 /\ stack[1].key = call.item.key
      BY Zenon, <2>1, Calling
    <3>3. Ledger!Status[call.item.key] = "target_inflight"
      BY <3>1, <3>2, TheCall
    <3> QED BY Zenon, <3>1, <3>3 DEF Confirmed
  <2>3. /\ confirmations' = confirmations \/ confirmations' = confirmations \cup {call.item.key}
        /\ call.item.device \in Ordinary => (confirmations' = confirmations \cup {call.item.key} <=> call.index # 0)
        /\ confirmations' # confirmations => call.index # 0 /\ call.item.device \in Ordinary
    BY Zenon, <2>1, <2>2
  <2> QED BY Zenon, <2>1, <2>3, DeliveryTold
<1>2. CASE CallbackRaises
  <2>1. /\ call # NoCall /\ Ledger!OperationReturns("response")
        /\ Deliver(call.item.device \notin Confirming) /\ mode' = "failed" /\ confirmations' = confirmations
    BY Zenon, <1>2 DEF CallbackRaises
  <2>2. PICK b \in BOOLEAN : b = (call.item.device \notin Confirming)
    BY Zenon
  <2>3. Deliver(b)
    BY Zenon, <2>1, <2>2
  <2>4. ~(b /\ call.item.device \in Ordinary)
    BY Zenon, <2>2, RouterConstants
  <2>5. b \/ call.item.device \in Confirming
    BY Zenon, <2>2
  <2> QED BY Zenon, <2>1, <2>3, <2>4, <2>5, DeliveryTold
<1> QED BY <1>0, <1>1, <1>2, OthersTold

-----------------------------------------------------------------------------

\* What is proved of the ledger, for the ledger of the router.
LP == INSTANCE TransactionLedgerProofs WITH
  Channels <- Sources \X (0..MaxEpoch), MaxDepth <- 1,
  Payloads <- Devices, Receipts <- {"response"}

LEMMA LedgerAssumption == LP!LedgerConstants
BY Zenon, RouterConstants DEF LP!LedgerConstants, LP!Entry, Ledger!Entry, LP!Statuses, Ledger!Statuses

LEMMA Same == LP!Keys = Ledger!Keys /\ LP!Status = Ledger!Status /\ LP!Entry = Ledger!Entry /\ LP!Frame = Ledger!Frame
BY Zenon DEF LP!Keys, Ledger!Keys, LP!Status, Ledger!Status, LP!Entry, Ledger!Entry, LP!Statuses, Ledger!Statuses, LP!Frame, Ledger!Frame


\* What the router relies on follows from what is proved of the ledger.
LEMMA BooksHold == LP!LedgerInv => Books
<1> SUFFICES ASSUME LP!LedgerInv PROVE Books
  BY Zenon
<1>0. LP!TypeOK /\ LP!CallsInFlight /\ LP!ChannelFrontier
  BY Zenon DEF LP!LedgerInv
<1>1. entries \in [Ledger!Keys -> Ledger!Entry \cup {NoEntry}] /\ stack \in Seq(Ledger!Frame)
  BY Zenon, <1>0, Same DEF LP!TypeOK
<1>2. /\ \A i \in DOMAIN stack : Ledger!Status[stack[i].key] = "target_inflight"
      /\ \A key \in Ledger!Keys : Ledger!Status[key] = "target_inflight" =>
           \E i \in DOMAIN stack : stack[i].key = key
  BY Zenon, <1>0, Same DEF LP!CallsInFlight
<1>3. ASSUME NEW key \in Ledger!Keys, Ledger!Status[key] # "absent" PROVE key[2] < nextChannelSequence[key[1]]
  <2>1. LP!Status[key] # "absent" /\ key \in LP!Keys
    BY <1>3, Same
  <2>2. LP!SourceSequence(key) < nextChannelSequence[LP!Channel(key)]
    BY <1>0, <2>1, LP!IssuedKey, LedgerAssumption
  <2> QED BY Zenon, <2>2 DEF LP!SourceSequence, LP!Channel
<1>4. ASSUME NEW key \in Ledger!Keys, Ledger!Status[key] = "target_pending",
             key[2] # nextTargetSequence[key[1]]
      PROVE  LET n == nextTargetSequence[key[1]] IN
             /\ n \in 1..MaxSequence /\ n < key[2] /\ <<key[1], n>> \in Ledger!Keys
             /\ Ledger!Status[<<key[1], n>>] \in {"target_pending", "target_inflight", "uncertain_effect"}
  <2> DEFINE c == key[1] n == nextTargetSequence[key[1]] m == nextChannelSequence[key[1]]
  <2>2. c \in Sources \X (0..MaxEpoch) /\ key[2] \in 1..MaxSequence /\ key = <<c, key[2]>> /\ MaxSequence \in Nat
    BY Zenon, KeyShape, RouterConstants
  <2>3. n \in 1..(MaxSequence + 1) /\ m \in 1..(MaxSequence + 1)
    BY Zenon, <1>0, <2>2 DEF LP!TypeOK
  <2>4. n <= m /\ \A s \in 1..MaxSequence : LP!Position(s, n, m, Ledger!Status[<<c, s>>])
    BY Zenon, <1>0, <2>2, Same DEF LP!ChannelFrontier
  <2>5. Ledger!Status[<<c, key[2]>>] = "target_pending"
    BY Zenon, <1>4, <2>2
  <2> HIDE DEF n, m
  <2>6. n < key[2] /\ key[2] < m
    BY <1>4, <2>2, <2>3, <2>4, <2>5 DEF LP!Position, n
  <2>7. n \in 1..MaxSequence /\ n < m
    BY <2>2, <2>3, <2>6
  <2>8. Ledger!Status[<<c, n>>] \in {"target_pending", "target_inflight", "uncertain_effect"}
    BY Zenon, <2>3, <2>4, <2>7 DEF LP!Position
  <2>9. <<c, n>> \in Ledger!Keys
    BY Zenon, <2>2, <2>7 DEF Ledger!Keys
  <2> QED BY <2>6, <2>7, <2>8, <2>9 DEF n
<1> QED BY Zenon, <1>1, <1>2, <1>3, <1>4 DEF Books

LEMMA LedgerStarts == Init => LP!LedgerInv
<1>1. Init => LP!Init
  BY Zenon DEF Init, Ledger!Init, LP!Init, LP!Keys, Ledger!Keys
<1> QED BY <1>1, LP!LedgerInit, LedgerAssumption

\* The ledgers keep their invariant: the router uses them as their own specification says.
LEMMA LedgerKept ==
  ASSUME LP!LedgerInv, LedgerCall \/ UNCHANGED ledgerVars
  PROVE  LP!LedgerInv'
<1> USE DEF LP!Channel, Ledger!Channel, LP!SourceSequence, Ledger!SourceSequence, LP!SetStatus, Ledger!SetStatus,
            LP!Call, Ledger!Call, LP!Top, Ledger!Top, LP!Pop, Ledger!Pop
<1>1. ASSUME NEW key \in Ledger!Keys, NEW d \in Devices, Ledger!Accept(key, d) PROVE LP!Next
  BY Zenon, <1>1, Same DEF LP!Next, LP!Accept, Ledger!Accept
<1>2. ASSUME NEW key \in Ledger!Keys, NEW d \in Devices, Ledger!CompleteAccepted(key, d) PROVE LP!Next
  BY Zenon, <1>2, Same DEF LP!Next, LP!CompleteAccepted, Ledger!CompleteAccepted
<1>3. ASSUME NEW key \in Ledger!Keys, NEW d \in Devices, Ledger!ExecuteOnce(key, d) PROVE LP!Next
  BY Zenon, <1>3, Same DEF LP!Next, LP!ExecuteOnce, Ledger!ExecuteOnce
<1>4. ASSUME NEW key \in Ledger!Keys, NEW d \in Devices, Ledger!CancelAccepted(key, d) PROVE LP!Next
  BY Zenon, <1>4, Same DEF LP!Next, LP!CancelAccepted, Ledger!CancelAccepted
<1>5. ASSUME Ledger!OperationReturns("response") PROVE LP!Next
  BY Zenon, <1>5 DEF LP!Next, LP!OperationReturns, Ledger!OperationReturns
<1>6. ASSUME Ledger!OperationRaises PROVE LP!Next
  BY Zenon, <1>6 DEF LP!Next, LP!OperationRaises, Ledger!OperationRaises
<1>7. UNCHANGED ledgerVars => UNCHANGED LP!vars
  BY Zenon DEF ledgerVars, LP!vars
<1>8. [LP!Next]_(LP!vars)
  BY Zenon, <1>1, <1>2, <1>3, <1>4, <1>5, <1>6, <1>7 DEF LedgerCall
<1> QED BY <1>8, LP!LedgerStep, LedgerAssumption

\* The invariant of the router and of its ledgers.
AllInv == RInv /\ LP!LedgerInv

LEMMA AllInit == Init => AllInv
BY LedgerStarts, BooksHold, RouterInit DEF AllInv

LEMMA AllStep == AllInv /\ [Next]_vars => AllInv'
<1> SUFFICES ASSUME AllInv, [Next]_vars PROVE AllInv'
  BY Zenon
<1>1. RInv /\ LP!LedgerInv /\ OldestExists
  BY Zenon, OldestFound DEF AllInv, RInv
<1>2. LP!LedgerInv'
  BY <1>1, LedgerCalled, LedgerKept
<1>3. LP!LedgerInv' => Books'
  BY BooksHold, PTL
<1> QED BY <1>1, <1>2, <1>3, RouterStep DEF AllInv

\* The queue, the ledgers and the sessions' own counts agree in every state, for any
\* number of sessions, devices, slots, beats and resets, whatever raises and wherever a
\* reset stops: pop(index) drops the right request, cancel_for_ledger never meets one that
\* cancel_accepted refuses, and reset_local's accounting check never fires.
THEOREM RouterQueue == Spec => []QueueIsSound
<1>1. RInv => QueueIsSound
  BY PendingQueue, ReadyOldest, CountsAgree DEF QueueIsSound
<1>2. AllInv => RInv
  BY Zenon DEF AllInv
<1> QED BY <1>1, <1>2, AllInit, AllStep, PTL DEF Spec


-----------------------------------------------------------------------------
(* Deliveries. *)

\* What the sessions are answered and what the router reports is what happened at the
\* targets, for any number of sessions, devices and beats: an answer is of the current epoch
\* and of a completed beat, a device has one numbered row for every request it completed
\* unless the runner failed, and exactly the deliveries whose callback returned are confirmed.
THEOREM RouterAnswers == Spec => []AnswersAreTrue
<1>1. RInv => AnswersAreCurrent
  BY Zenon DEF RInv, Current, AnswersAreCurrent
<1>2. RInv /\ Told => AnswersAreTrue
  BY Zenon, <1>1, ToldIsTruth DEF AnswersAreTrue
<1>3. AllInv => RInv
  BY Zenon DEF AllInv
<1> QED BY <1>2, <1>3, AllInit, AllStep, ToldInit, ToldStep, PTL DEF Spec

=============================================================================
