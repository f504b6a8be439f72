------------------------------ MODULE MCRunner ------------------------------
(* An instance of ScenarioRunner: two harnesses, two input values. *)
EXTENDS ScenarioRunner
CONSTANTS cpu, device
MCComponents == <<cpu, device>>
=============================================================================
