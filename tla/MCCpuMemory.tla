---------------------------- MODULE MCCpuMemory ----------------------------
(***************************************************************************)
(* A RAM of two words of two bytes; the first word is an instruction slot. *)
(***************************************************************************)
EXTENDS CpuMemoryPort

MCSize == [r \in {"ram"} |-> 4]
MCWindows == {[base |-> 0, memory_id |-> "ram"]}
MCInitialByte == [p \in (0..MaxGeneration) \X ({"ram"} \X (0..3)) |-> (p[1] + p[2][2]) % Cardinality(Values)]
=============================================================================
