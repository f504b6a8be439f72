------------------------------- MODULE MCIrq -------------------------------
(***************************************************************************)
(* Two pulsed sources, one of them with a declared baseline, and a level.  *)
(***************************************************************************)
EXTENDS IrqDelivery
=============================================================================
