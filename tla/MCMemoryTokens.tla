--------------------------- MODULE MCMemoryTokens ---------------------------
(***************************************************************************)
(* Two processes; the pid of one may be used again.                        *)
(***************************************************************************)
EXTENDS MemoryTokens, TLC

CONSTANTS p1, p2, t1, t2

MCHome == t1 :> p1 @@ t2 :> p2
=============================================================================
