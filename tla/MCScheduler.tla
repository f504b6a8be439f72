---------------------------- MODULE MCScheduler ----------------------------
(* An instance of DependencyScheduler with a CPU and a device. *)
EXTENDS DependencyScheduler
CONSTANTS cpu, device
MCSchedule == <<cpu, device>>
Item(reset, start, source, occurrence, delayComponent, delay) ==
  [reset |-> reset, start |-> start, source |-> source, occurrence |-> occurrence,
   own |-> device, delayComponent |-> delayComponent, delay |-> delay]
\* A reset after an output of the device, an input at the start, and an input after the
\* second rise of an output of the device.
MCItems ==
  << Item(TRUE, FALSE, device, 1, None, 1),
     Item(FALSE, TRUE, cpu, 1, cpu, 1),
     Item(FALSE, FALSE, device, 2, None, 1) >>
MCBatchSizes == <<1, 3>>
=============================================================================
