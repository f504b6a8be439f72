----------------------------- MODULE EagerMemory -----------------------------
(***************************************************************************)
(* What the environment memory promises to the components that use it: a   *)
(* plain byte memory whose every byte has a value from the start of its    *)
(* generation.  A load returns the bytes as they are and changes nothing.  *)
(* Reserved instruction bytes are absent until somebody writes them.       *)
(***************************************************************************)
EXTENDS Naturals

CONSTANTS Cells, Values, Default, Absent, MaxGeneration

VARIABLES
  content,     \* the value of every byte, or Absent
  image,       \* the declared initial image, Absent elsewhere
  slots,       \* bytes reserved for instructions
  generation,  \* number of cold resets
  reply        \* what the last load returned

vars == <<content, image, slots, generation, reply>>

\* The bytes at the start of generation g.
Fresh(g) == [c \in Cells |-> IF image[c] # Absent THEN image[c]
                             ELSE IF c \in slots THEN Absent ELSE Default[<<g, c>>]]

Init ==
  /\ content = [c \in Cells |-> Default[<<0, c>>]]
  /\ image = [c \in Cells |-> Absent]
  /\ slots = {}
  /\ generation = 0
  /\ reply = <<>>

Load(cells) ==
  /\ \A c \in cells : content[c] # Absent
  /\ reply' = [c \in cells |-> content[c]]
  /\ UNCHANGED <<content, image, slots, generation>>

Overwrite(cells, data) == [c \in Cells |-> IF c \in cells THEN data[c] ELSE content[c]]

Store(cells, data) ==
  /\ content' = Overwrite(cells, data)
  /\ UNCHANGED <<image, slots, generation, reply>>

\* The image is declared over bytes that are not reserved.
Declare(cells, data) ==
  /\ cells \cap slots = {}
  /\ content' = Overwrite(cells, data)
  /\ image' = [c \in Cells |-> IF c \in cells THEN data[c] ELSE image[c]]
  /\ UNCHANGED <<slots, generation, reply>>

\* The bytes are reserved; from now on the new ones are absent.
Reserve(cells) ==
  /\ \A c \in cells : image[c] = Absent
  /\ content' = [c \in Cells |-> IF c \in cells \ slots THEN Absent ELSE content[c]]
  /\ slots' = slots \cup cells
  /\ UNCHANGED <<image, generation, reply>>

ColdReset ==
  /\ generation < MaxGeneration
  /\ content' = Fresh(generation + 1)
  /\ generation' = generation + 1
  /\ UNCHANGED <<image, slots, reply>>

Next ==
  \/ \E cells \in SUBSET Cells :
       \/ Load(cells)
       \/ Reserve(cells)
       \/ \E data \in [cells -> Values] : Store(cells, data) \/ Declare(cells, data)
  \/ ColdReset

Spec == Init /\ [][Next]_vars
=============================================================================
