----------------------- MODULE TransactionLedgerProofs -----------------------
(***************************************************************************)
(* Proofs about the transaction ledger for any number of channels, any     *)
(* sequence bound, any nesting depth, any payloads and receipts.           *)
(***************************************************************************)
EXTENDS TransactionLedger, TLAPS

\* Pushing a frame keeps the frames below it.
LEMMA PushFrame ==
  ASSUME NEW S, NEW s \in Seq(S), NEW f \in S
  PROVE  /\ Append(s, f) \in Seq(S)
         /\ Len(s) \in Nat
         /\ DOMAIN s = 1..Len(s)
         /\ DOMAIN Append(s, f) = 1..(Len(s) + 1)
         /\ \A i \in 1..Len(s) : Append(s, f)[i] = s[i]
         /\ Append(s, f)[Len(s) + 1] = f
  OBVIOUS

\* Popping the top frame keeps the frames below it.
LEMMA PopFrame ==
  ASSUME NEW S, NEW s \in Seq(S), s # <<>>
  PROVE  /\ SubSeq(s, 1, Len(s) - 1) \in Seq(S)
         /\ Len(s) \in Nat /\ Len(s) > 0
         /\ s[Len(s)] \in S
         /\ DOMAIN s = 1..Len(s)
         /\ DOMAIN SubSeq(s, 1, Len(s) - 1) = 1..(Len(s) - 1)
         /\ \A i \in 1..(Len(s) - 1) : SubSeq(s, 1, Len(s) - 1)[i] = s[i]
  OBVIOUS

\* A key is its channel and its sequence.
LEMMA KeyParts ==
  /\ \A key \in Keys : /\ Channel(key) \in Channels
                       /\ SourceSequence(key) \in 1..MaxSequence
                       /\ key = <<Channel(key), SourceSequence(key)>>
  /\ \A c \in Channels, s \in 1..MaxSequence :
       <<c, s>> \in Keys /\ Channel(<<c, s>>) = c /\ SourceSequence(<<c, s>>) = s
  BY DEF Keys, Channel, SourceSequence

\* What the entries of a step mean for the statuses: only key changed, to st.
StatusStep(key, st) == \A k \in Keys : Status'[k] = IF k = key THEN st ELSE Status[k]

\* A call that creates an entry.
LEMMA NewEntry ==
  ASSUME TypeOK, NEW key \in Keys, NEW payload \in Payloads, NEW st \in Statuses,
         entries' = [entries EXCEPT ![key] =
           [digest |-> payload, status |-> st, receipt |-> NoReceipt]]
  PROVE  /\ entries' \in [Keys -> Entry \cup {NoEntry}]
         /\ StatusStep(key, st)
         /\ \A k \in Keys : k # key => entries'[k] = entries[k]
  BY LedgerConstants DEF TypeOK, Entry, StatusStep, Status

\* A call that moves an existing entry to another status.
LEMMA MovedEntry ==
  ASSUME TypeOK, NEW key \in Keys, NEW st \in Statuses, entries[key] # NoEntry,
         SetStatus(key, st)
  PROVE  /\ entries' \in [Keys -> Entry \cup {NoEntry}]
         /\ StatusStep(key, st)
         /\ \A k \in Keys : k # key => entries'[k] = entries[k]
  BY Zenon, LedgerConstants DEF TypeOK, Entry, StatusStep, Status, SetStatus

\* A call that freezes a receipt.
LEMMA FrozenEntry ==
  ASSUME TypeOK, NEW key \in Keys, NEW receipt \in Receipts, entries[key] # NoEntry,
         entries' = [entries EXCEPT ![key].receipt = receipt, ![key].status = "complete"]
  PROVE  /\ entries' \in [Keys -> Entry \cup {NoEntry}]
         /\ StatusStep(key, "complete")
         /\ entries'[key].receipt = receipt
         /\ \A k \in Keys : k # key => entries'[k] = entries[k]
  BY Zenon, LedgerConstants DEF TypeOK, Entry, StatusStep, Status, Statuses

\* Every waiting call has a frame of the right type.
LEMMA Frames ==
  ASSUME TypeOK
  PROVE  /\ Len(stack) \in Nat
         /\ DOMAIN stack = 1..Len(stack)
         /\ \A i \in DOMAIN stack : stack[i] \in Frame /\ stack[i].key \in Keys
<1>1. stack \in Seq(Frame)
  BY Zenon DEF TypeOK
<1>2. \A i \in DOMAIN stack : stack[i] \in Frame
  BY <1>1
<1>3. \A f \in Frame : f.key \in Keys
  BY Zenon DEF Frame
<1> QED BY <1>1, <1>2, <1>3

\* The top frame of a stack of calls.
LEMMA TopFrame ==
  ASSUME TypeOK, CallsInFlight, stack # <<>>
  PROVE  /\ Top \in Frame
         /\ Top.key \in Keys
         /\ entries[Top.key] # NoEntry
         /\ Status[Top.key] = "target_inflight"
         /\ Top.expected = SourceSequence(Top.key)
<1>1. Top \in Frame /\ Len(stack) \in DOMAIN stack
  BY PopFrame DEF TypeOK, Top
<1> QED BY Zenon, <1>1 DEF CallsInFlight, Top, Frame, Status

\* The frontiers of one channel move and one of its keys changes status; the
\* other channels keep their shape.
LEMMA FrontierMoves ==
  ASSUME TypeOK, ChannelFrontier, NEW key \in Keys, NEW st, StatusStep(key, st),
         NEW target \in Int, NEW issue \in Int, target <= issue,
         nextTargetSequence' = [nextTargetSequence EXCEPT ![Channel(key)] = target],
         nextChannelSequence' = [nextChannelSequence EXCEPT ![Channel(key)] = issue],
         \A s \in 1..MaxSequence :
           Position(s, target, issue,
                    IF s = SourceSequence(key) THEN st ELSE Status[<<Channel(key), s>>])
  PROVE  ChannelFrontier'
<1> SUFFICES ASSUME NEW c \in Channels
             PROVE  /\ nextTargetSequence'[c] <= nextChannelSequence'[c]
                    /\ \A s \in 1..MaxSequence :
                         Position(s, nextTargetSequence'[c], nextChannelSequence'[c],
                                  Status'[<<c, s>>])
  BY Zenon DEF ChannelFrontier, Position
<1>1. CASE c = Channel(key)
  <2>1. nextTargetSequence'[c] = target /\ nextChannelSequence'[c] = issue
    BY Zenon, <1>1 DEF TypeOK
  <2>2. ASSUME NEW s \in 1..MaxSequence
        PROVE  Status'[<<c, s>>] = IF s = SourceSequence(key) THEN st ELSE Status[<<c, s>>]
    BY Zenon, <1>1, KeyParts DEF StatusStep
  <2> QED BY Zenon, <1>1, <2>1, <2>2
<1>2. CASE c # Channel(key)
  <2>1. /\ nextTargetSequence'[c] = nextTargetSequence[c]
        /\ nextChannelSequence'[c] = nextChannelSequence[c]
    BY Zenon, <1>2 DEF TypeOK
  <2>2. ASSUME NEW s \in 1..MaxSequence
        PROVE  Status'[<<c, s>>] = Status[<<c, s>>]
    BY Zenon, <1>2, KeyParts DEF StatusStep
  <2> QED BY Zenon, <2>1, <2>2 DEF ChannelFrontier
<1> QED BY Zenon, <1>1, <1>2

-----------------------------------------------------------------------------

\* The inductive invariant: the properties of the ledger together.
LedgerInv == TypeOK /\ ChannelFrontier /\ CallsInFlight /\ AtMostOnce /\ AnswersFrozen

\* The ledger starts empty.
LEMMA LedgerInit == Init => LedgerInv
<1> SUFFICES ASSUME Init PROVE LedgerInv
  BY Zenon
<1>1. \A key \in Keys : Status[key] = "absent"
  BY Zenon DEF Init, Status
<1>2. TypeOK
  BY LedgerConstants DEF Init, TypeOK
<1>3. ChannelFrontier
  <2>1. \A c \in Channels, s \in 1..MaxSequence : Status[<<c, s>>] = "absent"
    BY Zenon, <1>1, KeyParts
  <2>2. \A c \in Channels : nextTargetSequence[c] = 1 /\ nextChannelSequence[c] = 1
    BY Zenon DEF Init
  <2>3. ASSUME NEW s \in 1..MaxSequence PROVE Position(s, 1, 1, "absent")
    BY LedgerConstants DEF Position
  <2>4. 1 <= 1
    OBVIOUS
  <2> QED BY Zenon, <2>1, <2>2, <2>3, <2>4, Zenon DEF ChannelFrontier
<1>4. CallsInFlight
  BY <1>1 DEF Init, CallsInFlight
<1>5. AtMostOnce
  BY Zenon, <1>1 DEF Init, AtMostOnce
<1>6. AnswersFrozen
  BY Zenon, <1>1 DEF Init, AnswersFrozen
<1> QED BY Zenon, <1>2, <1>3, <1>4, <1>5, <1>6 DEF LedgerInv

\* A sequence keeps its position or moves with the frontiers of its channel.
LEMMA PositionOf ==
  ASSUME TypeOK, ChannelFrontier, NEW key \in Keys
  PROVE  /\ nextTargetSequence[Channel(key)] \in 1..(MaxSequence + 1)
         /\ nextChannelSequence[Channel(key)] \in 1..(MaxSequence + 1)
         /\ nextTargetSequence[Channel(key)] <= nextChannelSequence[Channel(key)]
         /\ \A s \in 1..MaxSequence :
              Position(s, nextTargetSequence[Channel(key)], nextChannelSequence[Channel(key)],
                       Status[<<Channel(key), s>>])
  BY Zenon, KeyParts DEF TypeOK, ChannelFrontier

\* A key that was issued lies before the issue frontier.
LEMMA IssuedKey ==
  ASSUME TypeOK, ChannelFrontier, NEW key \in Keys, Status[key] # "absent"
  PROVE  SourceSequence(key) < nextChannelSequence[Channel(key)]
<1>1. /\ SourceSequence(key) \in 1..MaxSequence
      /\ Status[<<Channel(key), SourceSequence(key)>>] # "absent"
  BY Zenon, KeyParts, Zenon
<1> QED BY <1>1, PositionOf, LedgerConstants DEF Position

\* Only the request at the target frontier can be in flight or uncertain.
LEMMA HeadOnly ==
  ASSUME TypeOK, ChannelFrontier, NEW key \in Keys,
         Status[key] \in {"target_inflight", "uncertain_effect"}
  PROVE  SourceSequence(key) = nextTargetSequence[Channel(key)]
<1>1. /\ SourceSequence(key) \in 1..MaxSequence
      /\ Status[<<Channel(key), SourceSequence(key)>>] \in {"target_inflight", "uncertain_effect"}
  BY Zenon, KeyParts, Zenon
<1> QED BY <1>1, PositionOf, LedgerConstants DEF Position

\* accept and execute_once issue the next sequence of a channel; the target
\* frontier stays.
LEMMA FrontierIssue ==
  ASSUME TypeOK, ChannelFrontier, NEW key \in Keys, NEW st,
         StatusStep(key, st),
         \/ st = "target_pending"
         \/ st = "target_inflight" /\ SourceSequence(key) = nextTargetSequence[Channel(key)],
         SourceSequence(key) = nextChannelSequence[Channel(key)],
         nextChannelSequence' = [nextChannelSequence EXCEPT ![Channel(key)] = @ + 1],
         nextTargetSequence' = nextTargetSequence
  PROVE  ChannelFrontier' /\ nextChannelSequence' \in [Channels -> 1..(MaxSequence + 1)]
<1> DEFINE c == Channel(key)
           target == nextTargetSequence[c]
           issue == nextChannelSequence[c] + 1
<1>1. c \in Channels /\ SourceSequence(key) \in 1..MaxSequence
  BY Zenon, KeyParts
<1>2. target \in Int /\ issue \in Int /\ target <= issue
  BY LedgerConstants, PositionOf
<1>3. nextTargetSequence' = [nextTargetSequence EXCEPT ![c] = target]
  BY Zenon, <1>1 DEF TypeOK
<1>4. nextChannelSequence' = [nextChannelSequence EXCEPT ![c] = issue]
  BY Zenon
<1>5. \A s \in 1..MaxSequence :
        Position(s, target, issue, IF s = SourceSequence(key) THEN st ELSE Status[<<c, s>>])
  BY LedgerConstants, PositionOf, IssuedKey, <1>1 DEF Position
<1>6. nextChannelSequence' \in [Channels -> 1..(MaxSequence + 1)]
  BY LedgerConstants, <1>1 DEF TypeOK
<1> HIDE DEF c, target, issue
<1> QED BY Zenon, <1>2, <1>3, <1>4, <1>5, <1>6, FrontierMoves DEF c

\* complete_accepted and a raising callback change the status of the request at
\* the target frontier.
LEMMA FrontierHead ==
  ASSUME TypeOK, ChannelFrontier, NEW key \in Keys,
         NEW st \in {"target_inflight", "uncertain_effect"},
         StatusStep(key, st), Status[key] # "absent",
         SourceSequence(key) = nextTargetSequence[Channel(key)],
         nextChannelSequence' = nextChannelSequence,
         nextTargetSequence' = nextTargetSequence
  PROVE  ChannelFrontier'
<1> DEFINE c == Channel(key)
           target == nextTargetSequence[c]
           issue == nextChannelSequence[c]
<1>1. c \in Channels /\ SourceSequence(key) \in 1..MaxSequence
  BY Zenon, KeyParts
<1>2. target \in Int /\ issue \in Int /\ target <= issue
  BY LedgerConstants, PositionOf
<1>3. /\ nextTargetSequence' = [nextTargetSequence EXCEPT ![c] = target]
      /\ nextChannelSequence' = [nextChannelSequence EXCEPT ![c] = issue]
  BY Zenon, <1>1 DEF TypeOK
<1>4. \A s \in 1..MaxSequence :
        Position(s, target, issue, IF s = SourceSequence(key) THEN st ELSE Status[<<c, s>>])
  BY LedgerConstants, PositionOf, IssuedKey, <1>1 DEF Position
<1> HIDE DEF c, target, issue
<1> QED BY Zenon, <1>2, <1>3, <1>4, FrontierMoves DEF c

\* A returning callback and cancel_accepted resolve the request at the target
\* frontier and move the frontier past it.
LEMMA FrontierSettle ==
  ASSUME TypeOK, ChannelFrontier, NEW key \in Keys,
         NEW st \in {"complete", "cancelled"},
         StatusStep(key, st), Status[key] # "absent",
         SourceSequence(key) = nextTargetSequence[Channel(key)],
         nextTargetSequence' = [nextTargetSequence EXCEPT ![Channel(key)] = SourceSequence(key) + 1],
         nextChannelSequence' = nextChannelSequence
  PROVE  ChannelFrontier' /\ nextTargetSequence' \in [Channels -> 1..(MaxSequence + 1)]
<1> DEFINE c == Channel(key)
           target == SourceSequence(key) + 1
           issue == nextChannelSequence[c]
<1>1. c \in Channels /\ SourceSequence(key) \in 1..MaxSequence
  BY Zenon, KeyParts
<1>2. target \in Int /\ issue \in Int /\ target <= issue
  BY LedgerConstants, PositionOf, IssuedKey, <1>1 DEF Position
<1>3. nextChannelSequence' = [nextChannelSequence EXCEPT ![c] = issue]
  BY Zenon, <1>1 DEF TypeOK
<1>4. \A s \in 1..MaxSequence :
        Position(s, target, issue, IF s = SourceSequence(key) THEN st ELSE Status[<<c, s>>])
  BY LedgerConstants, PositionOf, IssuedKey, <1>1 DEF Position
<1>5. nextTargetSequence' \in [Channels -> 1..(MaxSequence + 1)]
  BY LedgerConstants, <1>1 DEF TypeOK
<1> HIDE DEF c, target, issue
<1> QED BY Zenon, <1>2, <1>3, <1>4, <1>5, FrontierMoves DEF c, target

\* A call pushes the frame of a key that was not in flight.
LEMMA PushedCall ==
  ASSUME TypeOK, CallsInFlight, AtMostOnce, NEW key \in Keys, Call(key),
         StatusStep(key, "target_inflight"),
         Status[key] \in {"absent", "target_pending"},
         SourceSequence(key) = nextTargetSequence[Channel(key)]
  PROVE  /\ stack' \in Seq(Frame)
         /\ effects' \in [Keys -> Nat]
         /\ CallsInFlight'
         /\ AtMostOnce'
<1> DEFINE f == [key |-> key, expected |-> nextTargetSequence[Channel(key)]]
<1>1. f \in Frame /\ f.key = key /\ f.expected = SourceSequence(key)
  BY Zenon, KeyParts DEF Frame
<1>2. stack' = Append(stack, f) /\ effects' = [effects EXCEPT ![key] = @ + 1]
  BY Zenon DEF Call
<1> HIDE DEF f
<1>3. /\ stack' \in Seq(Frame)
      /\ Len(stack) \in Nat
      /\ DOMAIN stack = 1..Len(stack)
      /\ DOMAIN stack' = 1..(Len(stack) + 1)
      /\ \A i \in 1..Len(stack) : stack'[i] = stack[i]
      /\ stack'[Len(stack) + 1] = f
  BY <1>1, <1>2, PushFrame DEF TypeOK
<1>4. \A i \in 1..Len(stack) : stack[i].key # key /\ stack[i].key \in Keys
  BY Zenon, <1>3, Frames DEF CallsInFlight
<1>5. ASSUME NEW i \in DOMAIN stack'
      PROVE /\ Status'[stack'[i].key] = "target_inflight"
            /\ stack'[i].expected = SourceSequence(stack'[i].key)
  BY <1>1, <1>3, <1>4 DEF CallsInFlight, StatusStep
<1>6. ASSUME NEW i \in DOMAIN stack', NEW j \in DOMAIN stack', stack'[i].key = stack'[j].key
      PROVE i = j
  BY <1>1, <1>3, <1>4, <1>6 DEF CallsInFlight
<1>7. ASSUME NEW k \in Keys, Status'[k] = "target_inflight"
      PROVE \E i \in DOMAIN stack' : stack'[i].key = k
  BY <1>1, <1>3, <1>7 DEF CallsInFlight, StatusStep
<1>8. CallsInFlight'
  BY Zenon, <1>5, <1>6, <1>7 DEF CallsInFlight
<1>9. AtMostOnce' /\ effects' \in [Keys -> Nat]
  BY <1>2 DEF AtMostOnce, StatusStep, TypeOK
<1> QED BY Zenon, <1>3, <1>8, <1>9

\* A callback that ends pops its frame and takes its key out of flight.
LEMMA PoppedCall ==
  ASSUME TypeOK, CallsInFlight, AtMostOnce, stack # <<>>, Pop,
         NEW st \in {"complete", "uncertain_effect"}, StatusStep(Top.key, st),
         effects' = effects
  PROVE  /\ stack' \in Seq(Frame)
         /\ CallsInFlight'
         /\ AtMostOnce'
<1>1. /\ stack' \in Seq(Frame)
      /\ Len(stack) \in Nat /\ Len(stack) > 0
      /\ DOMAIN stack = 1..Len(stack)
      /\ DOMAIN stack' = 1..(Len(stack) - 1)
      /\ \A i \in 1..(Len(stack) - 1) : stack'[i] = stack[i]
  BY Zenon, PopFrame DEF TypeOK, Pop
<1>2. \A i \in 1..(Len(stack) - 1) : stack[i].key # Top.key /\ stack[i].key \in Keys
  <2>1. ASSUME NEW n \in Nat PROVE \A i \in 1..(n - 1) : i \in 1..n /\ i # n
    OBVIOUS
  <2>2. Len(stack) \in DOMAIN stack
    BY <1>1
  <2> QED BY Zenon, <1>1, <2>1, <2>2, Frames DEF CallsInFlight, Top
<1>3. ASSUME NEW i \in DOMAIN stack'
      PROVE /\ Status'[stack'[i].key] = "target_inflight"
            /\ stack'[i].expected = SourceSequence(stack'[i].key)
  BY <1>1, <1>2 DEF CallsInFlight, StatusStep
<1>4. ASSUME NEW i \in DOMAIN stack', NEW j \in DOMAIN stack', stack'[i].key = stack'[j].key
      PROVE i = j
  BY <1>1, <1>4 DEF CallsInFlight
<1>5. ASSUME NEW k \in Keys, Status'[k] = "target_inflight"
      PROVE \E i \in DOMAIN stack' : stack'[i].key = k
  <2>1. k # Top.key /\ Status[k] = "target_inflight"
    BY Zenon, <1>5 DEF StatusStep
  <2>2. PICK i \in DOMAIN stack : stack[i].key = k
    BY Zenon, <2>1 DEF CallsInFlight
  <2>3. i # Len(stack)
    BY Zenon, <2>1, <2>2 DEF Top
  <2> QED BY <1>1, <2>2, <2>3
<1>6. CallsInFlight'
  BY Zenon, <1>3, <1>4, <1>5 DEF CallsInFlight
<1>7. AtMostOnce'
  BY Zenon, TopFrame DEF AtMostOnce, StatusStep
<1> QED BY Zenon, <1>1, <1>6, <1>7

\* A step that leaves the ledger alone preserves the invariant.
LEMMA LedgerStutter ==
  ASSUME LedgerInv, UNCHANGED vars PROVE LedgerInv'
<1>1. /\ entries' = entries
      /\ nextChannelSequence' = nextChannelSequence
      /\ nextTargetSequence' = nextTargetSequence
      /\ stack' = stack
      /\ effects' = effects
      /\ answers' = answers
  BY Zenon DEF vars
<1>2. Status' = Status
  BY Zenon, <1>1 DEF Status
<1>3. TypeOK'
  BY Zenon, <1>1 DEF LedgerInv, TypeOK
<1>4. ChannelFrontier'
  BY Zenon, <1>1, <1>2 DEF LedgerInv, ChannelFrontier
<1>5. CallsInFlight'
  BY Zenon, <1>1, <1>2 DEF LedgerInv, CallsInFlight
<1>6. AtMostOnce'
  BY Zenon, <1>1, <1>2 DEF LedgerInv, AtMostOnce
<1>7. AnswersFrozen'
  BY Zenon, <1>1, <1>2 DEF LedgerInv, AnswersFrozen
<1> QED BY Zenon, <1>3, <1>4, <1>5, <1>6, <1>7 DEF LedgerInv

\* Each call preserves the invariant, and so does each callback that returns or
\* raises.
LEMMA LedgerStep == LedgerInv /\ [Next]_vars => LedgerInv'
<1> SUFFICES ASSUME LedgerInv, [Next]_vars PROVE LedgerInv'
  BY Zenon
<1>0. TypeOK /\ ChannelFrontier /\ CallsInFlight /\ AtMostOnce /\ AnswersFrozen
  BY Zenon DEF LedgerInv
<1>1. ASSUME NEW key \in Keys, NEW payload \in Payloads, Accept(key, payload)
      PROVE LedgerInv'
  <2>1. /\ entries' \in [Keys -> Entry \cup {NoEntry}]
        /\ StatusStep(key, "target_pending")
        /\ \A k \in Keys : k # key => entries'[k] = entries[k]
    BY Zenon, <1>0, <1>1, NewEntry DEF Accept, Statuses
  <2>2. Status[key] = "absent"
    BY Zenon, <1>1 DEF Accept, Status
  <2>3. ChannelFrontier' /\ nextChannelSequence' \in [Channels -> 1..(MaxSequence + 1)]
    BY Zenon, <1>0, <1>1, <2>1, FrontierIssue DEF Accept
  <2>4. TypeOK'
    BY Zenon, <1>0, <1>1, <2>1, <2>3 DEF TypeOK, Accept
  <2>5. CallsInFlight'
    <3>1. \A k \in Keys : Status[k] = "target_inflight" <=> Status'[k] = "target_inflight"
      BY Zenon, <2>1, <2>2 DEF StatusStep
    <3> QED BY Zenon, <1>0, <1>1, <3>1, Frames, Zenon DEF CallsInFlight, Accept
  <2>6. AtMostOnce'
    BY Zenon, <1>0, <1>1, <2>1, <2>2 DEF AtMostOnce, Accept, StatusStep
  <2>7. AnswersFrozen'
    BY <1>0, <1>1, <2>1, <2>2 DEF AnswersFrozen, Accept, StatusStep
  <2> QED BY Zenon, <2>3, <2>4, <2>5, <2>6, <2>7 DEF LedgerInv
<1>2. ASSUME NEW key \in Keys, NEW payload \in Payloads, CompleteAccepted(key, payload)
      PROVE LedgerInv'
  <2>1. /\ entries' \in [Keys -> Entry \cup {NoEntry}]
        /\ StatusStep(key, "target_inflight")
        /\ \A k \in Keys : k # key => entries'[k] = entries[k]
    BY Zenon, <1>0, <1>2, MovedEntry DEF CompleteAccepted, Statuses
  <2>2. Status[key] = "target_pending"
    BY Zenon, <1>2 DEF CompleteAccepted, Status
  <2>3. stack' \in Seq(Frame) /\ effects' \in [Keys -> Nat] /\ CallsInFlight' /\ AtMostOnce'
    BY Zenon, <1>0, <1>2, <2>1, <2>2, PushedCall DEF CompleteAccepted
  <2>4. ChannelFrontier'
    BY Zenon, <1>0, <1>2, <2>1, <2>2, FrontierHead DEF CompleteAccepted
  <2>5. TypeOK'
    BY Zenon, <1>0, <1>2, <2>1, <2>3 DEF TypeOK, CompleteAccepted
  <2>6. AnswersFrozen'
    BY <1>0, <1>2, <2>1, <2>2 DEF AnswersFrozen, CompleteAccepted, StatusStep
  <2> QED BY Zenon, <2>3, <2>4, <2>5, <2>6 DEF LedgerInv
<1>3. ASSUME NEW key \in Keys, NEW payload \in Payloads, ExecuteOnce(key, payload)
      PROVE LedgerInv'
  <2>1. /\ entries' \in [Keys -> Entry \cup {NoEntry}]
        /\ StatusStep(key, "target_inflight")
        /\ \A k \in Keys : k # key => entries'[k] = entries[k]
    BY Zenon, <1>0, <1>3, NewEntry DEF ExecuteOnce, Statuses
  <2>2. Status[key] = "absent"
    BY Zenon, <1>3 DEF ExecuteOnce, Status
  <2>3. stack' \in Seq(Frame) /\ effects' \in [Keys -> Nat] /\ CallsInFlight' /\ AtMostOnce'
    BY Zenon, <1>0, <1>3, <2>1, <2>2, PushedCall DEF ExecuteOnce
  <2>4. ChannelFrontier' /\ nextChannelSequence' \in [Channels -> 1..(MaxSequence + 1)]
    BY Zenon, <1>0, <1>3, <2>1, FrontierIssue DEF ExecuteOnce
  <2>5. TypeOK'
    BY Zenon, <1>0, <1>3, <2>1, <2>3, <2>4 DEF TypeOK, ExecuteOnce
  <2>6. AnswersFrozen'
    BY <1>0, <1>3, <2>1, <2>2 DEF AnswersFrozen, ExecuteOnce, StatusStep
  <2> QED BY Zenon, <2>3, <2>4, <2>5, <2>6 DEF LedgerInv
<1>4. ASSUME NEW key \in Keys, NEW payload \in Payloads, ReturnCached(key, payload)
      PROVE LedgerInv'
  <2>1. answers' = answers
    <3>1. Status[key] = "complete"
      BY Zenon, <1>4 DEF ReturnCached, Status
    <3>2. <<key, entries[key].receipt>> \in answers
      BY Zenon, <1>0, <3>1 DEF AnswersFrozen
    <3> QED BY Zenon, <1>4, <3>2 DEF ReturnCached
  <2>2. UNCHANGED vars
    BY Zenon, <1>4, <2>1 DEF ReturnCached, vars
  <2> QED BY Zenon, <2>2, LedgerStutter
<1>5. ASSUME NEW receipt \in Receipts, OperationReturns(receipt)
      PROVE LedgerInv'
  <2> DEFINE key == Top.key
  <2>1. /\ key \in Keys
        /\ entries[key] # NoEntry
        /\ Status[key] = "target_inflight"
        /\ Top.expected = SourceSequence(key)
    BY Zenon, <1>0, <1>5, TopFrame DEF OperationReturns
  <2>2. /\ entries' \in [Keys -> Entry \cup {NoEntry}]
        /\ StatusStep(key, "complete")
        /\ entries'[key].receipt = receipt
        /\ \A k \in Keys : k # key => entries'[k] = entries[k]
    BY Zenon, <1>0, <1>5, <2>1, FrozenEntry DEF OperationReturns
  <2>3. stack' \in Seq(Frame) /\ CallsInFlight' /\ AtMostOnce'
    BY Zenon, <1>0, <1>5, <2>2, PoppedCall DEF OperationReturns
  <2>4. SourceSequence(key) = nextTargetSequence[Channel(key)]
    BY Zenon, <1>0, <2>1, HeadOnly
  <2>5. ChannelFrontier' /\ nextTargetSequence' \in [Channels -> 1..(MaxSequence + 1)]
    BY Zenon, <1>0, <1>5, <2>1, <2>2, <2>4, FrontierSettle DEF OperationReturns
  <2>6. TypeOK'
    <3>1. answers' \subseteq Keys \X Receipts
      BY <1>0, <1>5, <2>1 DEF TypeOK, OperationReturns
    <3> QED BY Zenon, <1>0, <1>5, <2>2, <2>3, <2>5, <3>1 DEF TypeOK, OperationReturns
  <2>7. AnswersFrozen'
    <3> HIDE DEF key
    <3>1. answers' = answers \cup {<<key, receipt>>}
      BY Zenon, <1>5 DEF OperationReturns, key
    <3>2. {k \in Keys : Status'[k] = "complete"} =
            {k \in Keys : Status[k] = "complete"} \cup {key}
      BY Zenon, <2>1, <2>2 DEF StatusStep
    <3> QED BY <1>0, <2>1, <2>2, <3>1, <3>2 DEF AnswersFrozen
  <2> QED BY Zenon, <2>3, <2>5, <2>6, <2>7 DEF LedgerInv
<1>6. ASSUME OperationRaises PROVE LedgerInv'
  <2> DEFINE key == Top.key
  <2>1. /\ key \in Keys
        /\ entries[key] # NoEntry
        /\ Status[key] = "target_inflight"
    BY Zenon, <1>0, <1>6, TopFrame DEF OperationRaises
  <2>2. /\ entries' \in [Keys -> Entry \cup {NoEntry}]
        /\ StatusStep(key, "uncertain_effect")
        /\ \A k \in Keys : k # key => entries'[k] = entries[k]
    BY Zenon, <1>0, <1>6, <2>1, MovedEntry DEF OperationRaises, Statuses
  <2>3. stack' \in Seq(Frame) /\ CallsInFlight' /\ AtMostOnce'
    BY Zenon, <1>0, <1>6, <2>2, PoppedCall DEF OperationRaises
  <2>4. SourceSequence(key) = nextTargetSequence[Channel(key)]
    BY Zenon, <1>0, <2>1, HeadOnly
  <2>5. ChannelFrontier'
    BY Zenon, <1>0, <1>6, <2>1, <2>2, <2>4, FrontierHead DEF OperationRaises
  <2>6. TypeOK'
    BY Zenon, <1>0, <1>6, <2>2, <2>3 DEF TypeOK, OperationRaises
  <2>7. AnswersFrozen'
    BY <1>0, <1>6, <2>1, <2>2 DEF AnswersFrozen, OperationRaises, StatusStep
  <2> QED BY Zenon, <2>3, <2>5, <2>6, <2>7 DEF LedgerInv
<1>7. ASSUME NEW key \in Keys, NEW payload \in Payloads, CancelAccepted(key, payload)
      PROVE LedgerInv'
  <2>1. /\ entries' \in [Keys -> Entry \cup {NoEntry}]
        /\ StatusStep(key, "cancelled")
        /\ \A k \in Keys : k # key => entries'[k] = entries[k]
    BY Zenon, <1>0, <1>7, MovedEntry DEF CancelAccepted, Statuses
  <2>2. Status[key] = "target_pending"
    BY Zenon, <1>7 DEF CancelAccepted, Status
  <2>3. ChannelFrontier' /\ nextTargetSequence' \in [Channels -> 1..(MaxSequence + 1)]
    BY Zenon, <1>0, <1>7, <2>1, <2>2, FrontierSettle DEF CancelAccepted
  <2>4. TypeOK'
    BY Zenon, <1>0, <1>7, <2>1, <2>3 DEF TypeOK, CancelAccepted
  <2>5. CallsInFlight'
    <3>1. \A k \in Keys : Status[k] = "target_inflight" <=> Status'[k] = "target_inflight"
      BY Zenon, <2>1, <2>2 DEF StatusStep
    <3> QED BY Zenon, <1>0, <1>7, <3>1, Frames, Zenon DEF CallsInFlight, CancelAccepted
  <2>6. AtMostOnce'
    BY Zenon, <1>0, <1>7, <2>1, <2>2 DEF AtMostOnce, CancelAccepted, StatusStep
  <2>7. AnswersFrozen'
    BY <1>0, <1>7, <2>1, <2>2 DEF AnswersFrozen, CancelAccepted, StatusStep
  <2> QED BY Zenon, <2>3, <2>4, <2>5, <2>6, <2>7 DEF LedgerInv
<1>8. ASSUME UNCHANGED vars PROVE LedgerInv'
  BY Zenon, <1>8, LedgerStutter
<1> QED BY Zenon, <1>1, <1>2, <1>3, <1>4, <1>5, <1>6, <1>7, <1>8 DEF Next

\* The ledger's variables keep their types under every call.
THEOREM LedgerTypes == Spec => []TypeOK
<1>1. LedgerInv => TypeOK
  BY Zenon DEF LedgerInv
<1> QED BY <1>1, LedgerInit, LedgerStep, PTL DEF Spec

\* However calls are repeated, nested or interrupted, the target of a key starts
\* at most once and never for a cancelled key.
THEOREM LedgerAtMostOnce == Spec => []AtMostOnce
<1>1. LedgerInv => AtMostOnce
  BY Zenon DEF LedgerInv
<1> QED BY <1>1, LedgerInit, LedgerStep, PTL DEF Spec

\* Every channel keeps its resolved prefix, single head and pending suffix.
THEOREM LedgerFrontier == Spec => []ChannelFrontier
<1>1. LedgerInv => ChannelFrontier
  BY Zenon DEF LedgerInv
<1> QED BY <1>1, LedgerInit, LedgerStep, PTL DEF Spec

\* All answers given for a key are its frozen receipt.
THEOREM LedgerAnswers == Spec => []AnswersFrozen
<1>1. LedgerInv => AnswersFrozen
  BY Zenon DEF LedgerInv
<1> QED BY <1>1, LedgerInit, LedgerStep, PTL DEF Spec

-----------------------------------------------------------------------------

\* The other channels look the same to OrderedDelivery after a call on key.
LEMMA OtherHeads ==
  ASSUME TypeOK, NEW key \in Keys, NEW st, StatusStep(key, st), NEW target,
         nextTargetSequence' = [nextTargetSequence EXCEPT ![Channel(key)] = target],
         NEW c \in Channels, c # Channel(key)
  PROVE  HeadStatus'[c] = HeadStatus[c]
<1>1. nextTargetSequence'[c] = nextTargetSequence[c]
  BY Zenon DEF TypeOK
<1>2. ASSUME nextTargetSequence[c] <= MaxSequence
      PROVE  Status'[<<c, nextTargetSequence[c]>>] = Status[<<c, nextTargetSequence[c]>>]
  <2>1. nextTargetSequence[c] \in 1..MaxSequence
    BY <1>2, LedgerConstants DEF TypeOK
  <2> QED BY Zenon, <2>1, KeyParts, Zenon DEF StatusStep
<1>3. nextTargetSequence[c] \in Int /\ MaxSequence \in Int
  BY LedgerConstants DEF TypeOK
<1> QED BY <1>1, <1>2, <1>3 DEF HeadStatus

\* What the head of the channel of key looks like.
LEMMA OwnHead ==
  ASSUME TypeOK, NEW key \in Keys, SourceSequence(key) = nextTargetSequence[Channel(key)]
  PROVE  HeadStatus[Channel(key)] = Status[key]
<1>1. /\ Channel(key) \in Channels
      /\ SourceSequence(key) \in 1..MaxSequence
      /\ Status[<<Channel(key), SourceSequence(key)>>] = Status[key]
  BY Zenon, KeyParts, Zenon
<1> QED BY <1>1, LedgerConstants DEF HeadStatus

\* After the head is settled, the next one is pending or not issued.
LEMMA FreshHead ==
  ASSUME TypeOK, ChannelFrontier, NEW c \in Channels,
         NEW s \in Nat, s > nextTargetSequence[c],
         s <= MaxSequence
  PROVE  Status[<<c, s>>] \in {"target_pending", "absent"}
<1>1. s \in 1..MaxSequence /\ nextTargetSequence[c] \in Int /\ nextChannelSequence[c] \in Int
  BY LedgerConstants DEF TypeOK
<1>2. Position(s, nextTargetSequence[c], nextChannelSequence[c], Status[<<c, s>>])
  BY Zenon, <1>1 DEF ChannelFrontier
<1> QED BY <1>1, <1>2 DEF Position

\* A call on key changes the phase of its own channel only.
LEMMA PhaseMoves ==
  ASSUME TypeOK, NEW key \in Keys, NEW st, StatusStep(key, st), NEW target,
         nextTargetSequence' = [nextTargetSequence EXCEPT ![Channel(key)] = target],
         NEW phase, ChannelPhase'[Channel(key)] = phase
  PROVE  ChannelPhase' = [ChannelPhase EXCEPT ![Channel(key)] = phase]
<1>1. ASSUME NEW c \in Channels, c # Channel(key)
      PROVE  ChannelPhase'[c] = ChannelPhase[c]
  BY Zenon, <1>1, OtherHeads DEF ChannelPhase
<1> QED BY Zenon, <1>1 DEF ChannelPhase

\* The phase a channel is in before a call on its head.
LEMMA PhaseBefore ==
  ASSUME TypeOK, NEW key \in Keys, SourceSequence(key) = nextTargetSequence[Channel(key)]
  PROVE  /\ Status[key] = "target_inflight" => ChannelPhase[Channel(key)] = "acting"
         /\ Status[key] \in {"absent", "target_pending"} => ChannelPhase[Channel(key)] = "idle"
<1>1. Channel(key) \in Channels
  BY Zenon, KeyParts
<1> QED BY Zenon, <1>1, OwnHead DEF ChannelPhase

\* The phase after a call that changes the status of the head.
LEMMA PhaseOfHead ==
  ASSUME TypeOK, NEW key \in Keys, NEW st, StatusStep(key, st),
         SourceSequence(key) = nextTargetSequence[Channel(key)],
         nextTargetSequence' = nextTargetSequence
  PROVE  /\ st = "target_inflight" =>
              ChannelPhase' = [ChannelPhase EXCEPT ![Channel(key)] = "acting"]
         /\ st = "uncertain_effect" =>
              ChannelPhase' = [ChannelPhase EXCEPT ![Channel(key)] = "stuck"]
<1> DEFINE c == Channel(key)
<1>1. c \in Channels /\ SourceSequence(key) \in 1..MaxSequence
  BY Zenon, KeyParts
<1>2. HeadStatus'[c] = Status'[<<c, SourceSequence(key)>>]
  BY <1>1, LedgerConstants DEF HeadStatus
<1>3. HeadStatus'[c] = st
  BY Zenon, <1>2, KeyParts, Zenon DEF StatusStep
<1>4. /\ st = "target_inflight" => ChannelPhase'[c] = "acting"
      /\ st = "uncertain_effect" => ChannelPhase'[c] = "stuck"
  BY Zenon, <1>1, <1>3 DEF ChannelPhase
<1>5. nextTargetSequence' = [nextTargetSequence EXCEPT ![c] = nextTargetSequence[c]]
  BY Zenon, <1>1 DEF TypeOK
<1> QED BY Zenon, <1>4, <1>5, PhaseMoves

\* The phase after the head is settled: the next request is not started.
LEMMA PhaseSettled ==
  ASSUME TypeOK, ChannelFrontier, NEW key \in Keys, NEW st, StatusStep(key, st),
         SourceSequence(key) = nextTargetSequence[Channel(key)],
         nextTargetSequence' = [nextTargetSequence EXCEPT
           ![Channel(key)] = nextTargetSequence[Channel(key)] + 1]
  PROVE  ChannelPhase' = [ChannelPhase EXCEPT ![Channel(key)] = "idle"]
<1> DEFINE c == Channel(key)
           next == nextTargetSequence[c] + 1
<1>1. c \in Channels /\ nextTargetSequence[c] \in 1..(MaxSequence + 1) /\ next \in Nat
  BY KeyParts, LedgerConstants DEF TypeOK
<1>2. nextTargetSequence'[c] = next
  BY Zenon, <1>1 DEF TypeOK
<1>3. CASE next > MaxSequence
  <2>1. HeadStatus'[c] = "absent"
    BY Zenon, <1>1, <1>2, <1>3 DEF HeadStatus
  <2>2. ChannelPhase'[c] = "idle"
    BY Zenon, <1>1, <2>1 DEF ChannelPhase
  <2> QED BY Zenon, <1>1, <2>2, PhaseMoves
<1>4. CASE next <= MaxSequence
  <2>1. next \in 1..MaxSequence /\ next # SourceSequence(key) /\ next > nextTargetSequence[c]
    BY <1>1, <1>4, LedgerConstants
  <2>2. Status'[<<c, next>>] = Status[<<c, next>>]
    BY Zenon, <1>1, <2>1, KeyParts, Zenon DEF StatusStep
  <2>3. Status[<<c, next>>] \in {"target_pending", "absent"}
    BY Zenon, <1>1, <1>4, <2>1, FreshHead
  <2>4. HeadStatus'[c] \in {"target_pending", "absent"}
    BY Zenon, <1>1, <1>2, <2>2, <2>3 DEF HeadStatus
  <2>5. ChannelPhase'[c] = "idle"
    BY Zenon, <1>1, <2>4 DEF ChannelPhase
  <2> QED BY Zenon, <1>1, <2>5, PhaseMoves
<1> QED BY <1>1, <1>3, <1>4, LedgerConstants

\* A frontier that moves by one is a count that grows by one.
LEMMA IssuedMoves ==
  ASSUME TypeOK, NEW c \in Channels,
         nextChannelSequence' = [nextChannelSequence EXCEPT ![c] = @ + 1]
  PROVE  IssuedCount' = [IssuedCount EXCEPT ![c] = @ + 1]
<1>1. \A d \in Channels : nextChannelSequence[d] \in Int
  BY LedgerConstants DEF TypeOK
<1>2. \A d \in Channels :
        nextChannelSequence'[d] = IF d = c THEN nextChannelSequence[d] + 1 ELSE nextChannelSequence[d]
  BY Zenon DEF TypeOK
<1>3. \A d \in Channels :
        nextChannelSequence'[d] - 1 = IF d = c THEN (nextChannelSequence[d] - 1) + 1
                                       ELSE nextChannelSequence[d] - 1
  BY <1>1, <1>2
<1> QED BY Zenon, <1>3 DEF IssuedCount

\* Settling or withdrawing the head of channel c adds one to its settled count.
LEMMA SettledMoves ==
  ASSUME TypeOK, NEW c \in Channels,
         nextTargetSequence' = [nextTargetSequence EXCEPT ![c] = nextTargetSequence[c] + 1]
  PROVE  SettledCount' = [SettledCount EXCEPT ![c] = @ + 1]
<1>1. \A d \in Channels : nextTargetSequence[d] \in Int
  BY LedgerConstants DEF TypeOK
<1>2. \A d \in Channels :
        nextTargetSequence'[d] = IF d = c THEN nextTargetSequence[d] + 1 ELSE nextTargetSequence[d]
  BY Zenon DEF TypeOK
<1>3. \A d \in Channels :
        nextTargetSequence'[d] - 1 = IF d = c THEN (nextTargetSequence[d] - 1) + 1
                                       ELSE nextTargetSequence[d] - 1
  BY <1>1, <1>2
<1> QED BY Zenon, <1>3 DEF SettledCount

\* The counts of a channel as numbers.
LEMMA Counts ==
  ASSUME TypeOK, NEW c \in Channels
  PROVE  /\ IssuedCount[c] = nextChannelSequence[c] - 1
         /\ SettledCount[c] = nextTargetSequence[c] - 1
         /\ nextChannelSequence[c] \in 1..(MaxSequence + 1)
         /\ nextTargetSequence[c] \in 1..(MaxSequence + 1)
  BY Zenon, LedgerConstants DEF TypeOK, IssuedCount, SettledCount

\* Each call is a step of OrderedDelivery or leaves the channels alone.
LEMMA DeliveryStep ==
  ASSUME LedgerInv, LedgerInv', [Next]_vars
  PROVE  [Delivery!Next]_(Delivery!vars)
<1>0. TypeOK /\ ChannelFrontier /\ CallsInFlight /\ TypeOK' /\ ChannelFrontier'
  BY Zenon DEF LedgerInv
<1>1. ASSUME NEW key \in Keys, NEW payload \in Payloads, Accept(key, payload)
      PROVE Delivery!Issue(Channel(key))
  <2> DEFINE c == Channel(key)
  <2>1. c \in Channels /\ SourceSequence(key) \in 1..MaxSequence
    BY Zenon, KeyParts
  <2>2. StatusStep(key, "target_pending") /\ Status[key] = "absent"
    BY Zenon, <1>0, <1>1, NewEntry DEF Accept, Statuses, Status
  <2>3. IssuedCount' = [IssuedCount EXCEPT ![c] = @ + 1] /\ IssuedCount[c] < MaxSequence
    <3>1. IssuedCount' = [IssuedCount EXCEPT ![c] = @ + 1]
      BY Zenon, <1>0, <1>1, <2>1, IssuedMoves DEF Accept
    <3>2. IssuedCount[c] = SourceSequence(key) - 1
      BY Zenon, <1>0, <1>1, <2>1, Counts DEF Accept
    <3> QED BY <2>1, <3>1, <3>2, LedgerConstants
  <2>4. SettledCount' = SettledCount
    BY Zenon, <1>1 DEF Accept, SettledCount
  <2>5. \A k \in Keys : \/ Status'[k] = Status[k]
                        \/ Status[k] = "absent" /\ Status'[k] = "target_pending"
    BY <2>2 DEF StatusStep
  <2>6. \A d \in Channels : \/ HeadStatus'[d] = HeadStatus[d]
                            \/ HeadStatus[d] = "absent" /\ HeadStatus'[d] = "target_pending"
    <3> SUFFICES ASSUME NEW d \in Channels
                 PROVE  \/ HeadStatus'[d] = HeadStatus[d]
                        \/ HeadStatus[d] = "absent" /\ HeadStatus'[d] = "target_pending"
      BY Zenon
    <3>1. nextTargetSequence' = nextTargetSequence
      BY Zenon, <1>1 DEF Accept
    <3>2. nextTargetSequence[d] > MaxSequence \/ nextTargetSequence[d] \in 1..MaxSequence
      BY <1>0, Counts, LedgerConstants
    <3>3. nextTargetSequence[d] \in 1..MaxSequence => <<d, nextTargetSequence[d]>> \in Keys
      BY Zenon, KeyParts
    <3> QED BY Zenon, <2>5, <3>1, <3>2, <3>3 DEF HeadStatus
  <2>7. ChannelPhase' = ChannelPhase
    BY Zenon, <2>6 DEF ChannelPhase
  <2> QED BY Zenon, <2>3, <2>4, <2>7 DEF Delivery!Issue
<1>2. ASSUME NEW key \in Keys, NEW payload \in Payloads, CompleteAccepted(key, payload)
      PROVE Delivery!Act(Channel(key))
  <2>1. /\ StatusStep(key, "target_inflight")
        /\ Status[key] = "target_pending"
        /\ SourceSequence(key) = nextTargetSequence[Channel(key)]
    BY Zenon, <1>0, <1>2, MovedEntry DEF CompleteAccepted, Statuses, Status
  <2>2. nextTargetSequence' = nextTargetSequence /\ nextChannelSequence' = nextChannelSequence
    BY Zenon, <1>2 DEF CompleteAccepted
  <2>3. /\ ChannelPhase[Channel(key)] = "idle"
        /\ ChannelPhase' = [ChannelPhase EXCEPT ![Channel(key)] = "acting"]
    BY Zenon, <1>0, <2>1, <2>2, PhaseBefore, PhaseOfHead
  <2>4. SettledCount[Channel(key)] < IssuedCount[Channel(key)]
    BY <1>0, <2>1, KeyParts, Counts, IssuedKey, LedgerConstants
  <2>5. IssuedCount' = IssuedCount /\ SettledCount' = SettledCount
    BY Zenon, <2>2 DEF IssuedCount, SettledCount
  <2> QED BY Zenon, <2>3, <2>4, <2>5 DEF Delivery!Act
<1>3. ASSUME NEW key \in Keys, NEW payload \in Payloads, ExecuteOnce(key, payload)
      PROVE Delivery!IssueAndAct(Channel(key))
  <2>1. Channel(key) \in Channels /\ SourceSequence(key) \in 1..MaxSequence
    BY Zenon, KeyParts
  <2>2. /\ StatusStep(key, "target_inflight")
        /\ Status[key] = "absent"
        /\ SourceSequence(key) = nextTargetSequence[Channel(key)]
        /\ SourceSequence(key) = nextChannelSequence[Channel(key)]
    BY ZenonT(30), <1>0, <1>3, NewEntry DEF ExecuteOnce, Statuses, Status
  <2>3. nextTargetSequence' = nextTargetSequence
    BY Zenon, <1>3 DEF ExecuteOnce
  <2>4. /\ ChannelPhase[Channel(key)] = "idle"
        /\ ChannelPhase' = [ChannelPhase EXCEPT ![Channel(key)] = "acting"]
    BY Zenon, <1>0, <2>2, <2>3, PhaseBefore, PhaseOfHead
  <2>5. /\ SettledCount[Channel(key)] = IssuedCount[Channel(key)]
        /\ IssuedCount[Channel(key)] < MaxSequence
    <3>1. /\ IssuedCount[Channel(key)] = SourceSequence(key) - 1
          /\ SettledCount[Channel(key)] = SourceSequence(key) - 1
      BY Zenon, <1>0, <2>1, <2>2, Counts
    <3> QED BY <2>1, <3>1, LedgerConstants
  <2>6. IssuedCount' = [IssuedCount EXCEPT ![Channel(key)] = @ + 1]
    BY Zenon, <1>0, <1>3, <2>1, IssuedMoves DEF ExecuteOnce
  <2>7. SettledCount' = SettledCount
    BY Zenon, <2>3 DEF SettledCount
  <2> QED BY Zenon, <2>4, <2>5, <2>6, <2>7 DEF Delivery!IssueAndAct
<1>4. ASSUME NEW key \in Keys, NEW payload \in Payloads, ReturnCached(key, payload)
      PROVE UNCHANGED Delivery!vars
  <2>1. Status' = Status
    BY Zenon, <1>4 DEF ReturnCached, Status
  <2>2. HeadStatus' = HeadStatus
    BY Zenon, <1>4, <2>1 DEF ReturnCached, HeadStatus
  <2> QED BY Zenon, <1>4, <2>2 DEF ReturnCached, Delivery!vars, IssuedCount, SettledCount, ChannelPhase
<1>5. ASSUME NEW receipt \in Receipts, OperationReturns(receipt)
      PROVE Delivery!Settle(Channel(Top.key))
  <2> DEFINE key == Top.key
  <2>1. /\ key \in Keys
        /\ entries[key] # NoEntry
        /\ Status[key] = "target_inflight"
        /\ Top.expected = SourceSequence(key)
    BY Zenon, <1>0, <1>5, TopFrame DEF OperationReturns
  <2>2. StatusStep(key, "complete")
    BY Zenon, <1>0, <1>5, <2>1, FrozenEntry DEF OperationReturns
  <2>3. SourceSequence(key) = nextTargetSequence[Channel(key)]
    BY Zenon, <1>0, <2>1, HeadOnly
  <2>4. /\ nextTargetSequence' = [nextTargetSequence EXCEPT
             ![Channel(key)] = nextTargetSequence[Channel(key)] + 1]
        /\ nextChannelSequence' = nextChannelSequence
    BY Zenon, <1>5, <2>1, <2>3 DEF OperationReturns
  <2> HIDE DEF key
  <2>5. /\ ChannelPhase[Channel(key)] = "acting"
        /\ ChannelPhase' = [ChannelPhase EXCEPT ![Channel(key)] = "idle"]
    BY Zenon, <1>0, <2>1, <2>2, <2>3, <2>4, PhaseBefore, PhaseSettled
  <2>6. SettledCount' = [SettledCount EXCEPT ![Channel(key)] = @ + 1]
    BY Zenon, <1>0, <2>1, <2>4, KeyParts, SettledMoves
  <2>7. IssuedCount' = IssuedCount
    BY Zenon, <2>4 DEF IssuedCount
  <2> QED BY Zenon, <2>5, <2>6, <2>7 DEF Delivery!Settle, key
<1>6. ASSUME OperationRaises PROVE Delivery!Lose(Channel(Top.key))
  <2> DEFINE key == Top.key
  <2>1. /\ key \in Keys
        /\ entries[key] # NoEntry
        /\ Status[key] = "target_inflight"
    BY Zenon, <1>0, <1>6, TopFrame DEF OperationRaises
  <2>2. StatusStep(key, "uncertain_effect")
    BY Zenon, <1>0, <1>6, <2>1, MovedEntry DEF OperationRaises, Statuses
  <2>3. SourceSequence(key) = nextTargetSequence[Channel(key)]
    BY Zenon, <1>0, <2>1, HeadOnly
  <2>4. nextTargetSequence' = nextTargetSequence /\ nextChannelSequence' = nextChannelSequence
    BY Zenon, <1>6 DEF OperationRaises
  <2> HIDE DEF key
  <2>5. /\ ChannelPhase[Channel(key)] = "acting"
        /\ ChannelPhase' = [ChannelPhase EXCEPT ![Channel(key)] = "stuck"]
    BY Zenon, <1>0, <2>1, <2>2, <2>3, <2>4, PhaseBefore, PhaseOfHead
  <2>6. IssuedCount' = IssuedCount /\ SettledCount' = SettledCount
    BY Zenon, <2>4 DEF IssuedCount, SettledCount
  <2> QED BY Zenon, <2>5, <2>6 DEF Delivery!Lose, key
<1>7. ASSUME NEW key \in Keys, NEW payload \in Payloads, CancelAccepted(key, payload)
      PROVE Delivery!Withdraw(Channel(key))
  <2>1. /\ StatusStep(key, "cancelled")
        /\ Status[key] = "target_pending"
        /\ SourceSequence(key) = nextTargetSequence[Channel(key)]
    BY Zenon, <1>0, <1>7, MovedEntry DEF CancelAccepted, Statuses, Status
  <2>2. /\ nextTargetSequence' = [nextTargetSequence EXCEPT
             ![Channel(key)] = nextTargetSequence[Channel(key)] + 1]
        /\ nextChannelSequence' = nextChannelSequence
    BY Zenon, <1>7 DEF CancelAccepted
  <2>3. /\ ChannelPhase[Channel(key)] = "idle"
        /\ ChannelPhase' = [ChannelPhase EXCEPT ![Channel(key)] = "idle"]
    BY Zenon, <1>0, <2>1, <2>2, PhaseBefore, PhaseSettled
  <2>4. ChannelPhase' = ChannelPhase
    BY Zenon, <2>3 DEF ChannelPhase
  <2>5. SettledCount' = [SettledCount EXCEPT ![Channel(key)] = @ + 1]
    BY Zenon, <1>0, <2>2, KeyParts, SettledMoves
  <2>6. SettledCount[Channel(key)] < IssuedCount[Channel(key)]
    BY <1>0, <2>1, KeyParts, Counts, IssuedKey, LedgerConstants
  <2>7. IssuedCount' = IssuedCount
    BY Zenon, <2>2 DEF IssuedCount
  <2> QED BY Zenon, <2>3, <2>4, <2>5, <2>6, <2>7 DEF Delivery!Withdraw
<1>8. ASSUME UNCHANGED vars PROVE UNCHANGED Delivery!vars
  <2>1. Status' = Status
    BY Zenon, <1>8 DEF vars, Status
  <2>2. HeadStatus' = HeadStatus
    BY Zenon, <1>8, <2>1 DEF vars, HeadStatus
  <2> QED BY Zenon, <1>8, <2>2 DEF vars, Delivery!vars, IssuedCount, SettledCount, ChannelPhase
<1>9. stack # <<>> => Channel(Top.key) \in Channels
  BY Zenon, <1>0, TopFrame, KeyParts
<1> QED BY Zenon, <1>1, <1>2, <1>3, <1>4, <1>5, <1>6, <1>7, <1>8, <1>9, KeyParts
      DEF Next, Delivery!Next, OperationReturns, OperationRaises

\* The ledger implements OrderedDelivery: in-order, at-most-once delivery on
\* every channel, with a lost outcome stopping its channel for good.
THEOREM LedgerDelivers == Spec => DeliversInOrder
<1>1. Init => Delivery!Init
  <2> SUFFICES ASSUME Init PROVE Delivery!Init
    BY Zenon
  <2>1. \A k \in Keys : Status[k] = "absent"
    BY Zenon DEF Init, Status
  <2>2. \A c \in Channels : HeadStatus[c] = "absent"
    <3>1. \A c \in Channels : nextTargetSequence[c] = 1
      BY Zenon DEF Init
    <3>2. \A c \in Channels : 1 <= MaxSequence => <<c, 1>> \in Keys
      BY LedgerConstants DEF Keys
    <3>3. \A c \in Channels : 1 <= MaxSequence => Status[<<c, 1>>] = "absent"
      BY Zenon, <2>1, <3>2
    <3>4. 1 > MaxSequence \/ 1 <= MaxSequence
      BY LedgerConstants
    <3> SUFFICES ASSUME NEW c \in Channels PROVE HeadStatus[c] = "absent"
      BY Zenon
    <3>5. HeadStatus[c] = IF 1 > MaxSequence THEN "absent" ELSE Status[<<c, 1>>]
      BY Zenon, <3>1 DEF HeadStatus
    <3> QED BY Zenon, <3>3, <3>4, <3>5, Zenon
  <2>3. IssuedCount = [c \in Channels |-> 0] /\ SettledCount = [c \in Channels |-> 0]
    BY DEF Init, IssuedCount, SettledCount
  <2>4. ChannelPhase = [c \in Channels |-> "idle"]
    BY Zenon, <2>2 DEF ChannelPhase
  <2> QED BY Zenon, <2>3, <2>4 DEF Delivery!Init
<1> QED BY <1>1, LedgerInit, LedgerStep, DeliveryStep, PTL DEF Spec, DeliversInOrder, Delivery!Spec
=============================================================================
