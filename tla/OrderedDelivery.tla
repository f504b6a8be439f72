--------------------------- MODULE OrderedDelivery ---------------------------
(***************************************************************************)
(* What the transaction ledger promises to the two ends of a channel.      *)
(*                                                                         *)
(* Requests are issued one after the other and leave the channel in the    *)
(* same order.  Each one is withdrawn without ever touching its target, or *)
(* its target acts on it once.  When the outcome of an action is lost the  *)
(* channel is stuck: nothing behind that request moves again.              *)
(***************************************************************************)
EXTENDS Naturals

CONSTANTS Channels, Limit

VARIABLES
  issued,   \* number of requests issued on a channel
  settled,  \* number of them that are over: acted upon or withdrawn
  phase     \* what the target does with request settled + 1

vars == <<issued, settled, phase>>

Init ==
  /\ issued = [c \in Channels |-> 0]
  /\ settled = [c \in Channels |-> 0]
  /\ phase = [c \in Channels |-> "idle"]

Issue(c) ==
  /\ issued[c] < Limit
  /\ issued' = [issued EXCEPT ![c] = @ + 1]
  /\ UNCHANGED <<settled, phase>>

Act(c) ==
  /\ phase[c] = "idle"
  /\ settled[c] < issued[c]
  /\ phase' = [phase EXCEPT ![c] = "acting"]
  /\ UNCHANGED <<issued, settled>>

\* A request issued on an empty channel may be acted upon at once.
IssueAndAct(c) ==
  /\ phase[c] = "idle"
  /\ settled[c] = issued[c]
  /\ issued[c] < Limit
  /\ issued' = [issued EXCEPT ![c] = @ + 1]
  /\ phase' = [phase EXCEPT ![c] = "acting"]
  /\ UNCHANGED settled

Settle(c) ==
  /\ phase[c] = "acting"
  /\ settled' = [settled EXCEPT ![c] = @ + 1]
  /\ phase' = [phase EXCEPT ![c] = "idle"]
  /\ UNCHANGED issued

Withdraw(c) ==
  /\ phase[c] = "idle"
  /\ settled[c] < issued[c]
  /\ settled' = [settled EXCEPT ![c] = @ + 1]
  /\ UNCHANGED <<issued, phase>>

Lose(c) ==
  /\ phase[c] = "acting"
  /\ phase' = [phase EXCEPT ![c] = "stuck"]
  /\ UNCHANGED <<issued, settled>>

Next ==
  \E c \in Channels :
    \/ Issue(c)
    \/ Act(c)
    \/ IssueAndAct(c)
    \/ Settle(c)
    \/ Withdraw(c)
    \/ Lose(c)

Spec == Init /\ [][Next]_vars
=============================================================================
