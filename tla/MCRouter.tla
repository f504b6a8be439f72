------------------------------ MODULE MCRouter ------------------------------
(***************************************************************************)
(* Three CPU sessions share two devices.  One queues with a read and a     *)
(* write slot on one channel, as the CVA6 session; one queues with one     *)
(* data slot; one accesses the devices within its own step.                *)
(***************************************************************************)
EXTENDS DataflowRouter

CONSTANTS cva6, cve2, inline

MCSlots == [s \in {cva6, cve2, inline} |-> IF s = cva6 THEN {"read", "write"} ELSE {"data"}]
MCSourceOrder == <<cva6, cve2, inline>>
=============================================================================
