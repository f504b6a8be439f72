------------------------------ MODULE MCMemory ------------------------------
(***************************************************************************)
(* A RAM of two bytes with an alias and a ROM of one byte.                 *)
(***************************************************************************)
EXTENDS PersistentMemory

MCSize == [r \in {"ram", "rom"} |-> IF r = "ram" THEN 2 ELSE 1]
MCWindows == {[base |-> 0, memory_id |-> "ram"], [base |-> 2, memory_id |-> "ram"],
              [base |-> 4, memory_id |-> "rom"]}
MCInitialByte == [p \in (0..MaxGeneration) \X Cells |-> (p[1] + p[2][2]) % 2]
=============================================================================
