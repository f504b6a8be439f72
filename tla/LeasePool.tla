------------------------------ MODULE LeasePool ------------------------------
(***************************************************************************)
(* What a pool of memory tokens promises the processes that share it: a    *)
(* set of leases that fits the soft limit, in which a build is alone.  A   *)
(* lease enters it when it fits and leaves it when its owner gives it      *)
(* back, or once its owner is dead.                                        *)
(***************************************************************************)
EXTENDS Naturals, FiniteSetsExt

CONSTANT SoftLimit

VARIABLES leases, dead    \* dead: the owners that have ended

poolVars == <<leases, dead>>

Bytes(S) == MapThenSumSet(LAMBDA l : l.bytes, S)
Fits(l, S) ==
  /\ Bytes(S) + l.bytes <= SoftLimit
  /\ \A k \in S : ~k.build /\ ~l.build
Abandoned(S) == \A l \in S : l.owner \in dead

PoolInit == leases = {} /\ dead = {}

Expire ==
  \E S \in SUBSET leases :
    /\ Abandoned(S)
    /\ leases' = leases \ S
    /\ UNCHANGED dead
Grant(l) ==
  \E S \in SUBSET leases :
    /\ Abandoned(S)
    /\ Fits(l, leases \ S)
    /\ leases' = (leases \ S) \cup {l}
    /\ UNCHANGED dead
Return(l) ==
  \E S \in SUBSET (leases \ {l}) :
    /\ Abandoned(S)
    /\ l.owner \notin dead
    /\ leases' = leases \ (S \cup {l})
    /\ UNCHANGED dead
End == leases' = leases /\ dead \subseteq dead'

PoolNext == Expire \/ End \/ (\E l \in leases' \ leases : Grant(l)) \/ (\E l \in leases : Return(l))
PoolSpec == PoolInit /\ [][PoolNext]_poolVars
=============================================================================
