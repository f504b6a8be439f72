---------------------------- MODULE IrqDelivery ----------------------------
(***************************************************************************)
(* The interrupt line of a CPU, as the host drives it: one pulse policy    *)
(* per source (scenario/irq.py), the OR group that joins them              *)
(* (scenario/irq_delivery_group.py), and the calls of the runner.          *)
(*                                                                         *)
(* Ticks are kept relative: left[s] is the end of the pulse of s minus the *)
(* CPU's tick, so 0 is "no pulse", Width + 1 a pulse that starts at the    *)
(* next tick.  The runner steps the CPU tick by tick, which sample_cpu and *)
(* the runner both check.  Source event ids are counted modulo Rounds: at  *)
(* most one pulse of a source is alive.                                    *)
(***************************************************************************)
EXTENDS Naturals, Sequences, FiniteSets

CONSTANTS
  Pulsed,       \* group members of mode "pulse"
  Held,         \* group members of mode "level"
  Declared,     \* pulsed members with require_observed_baseline
  Width,        \* pulse_width_ticks
  Rounds,       \* source event ids are counted modulo Rounds
  Unknown       \* no level, no sample, no mask observation

Sources == Pulsed \cup Held

ASSUME IrqConstants ==
  /\ Pulsed \cap Held = {} /\ Declared \subseteq Pulsed
  /\ Width \in Nat \ {0} /\ Rounds \in Nat /\ Rounds > 1
  /\ Unknown \notin Nat /\ Unknown \notin {"pulse_expired", "expired_masked"}

VARIABLES
  sourceLevel,  \* source_level of a pulse policy
  left,         \* _pulse_end minus the CPU tick, 0 without a pulse
  allMasked,    \* _all_masked
  maskedTicks,  \* _masked_tick_count
  pulseStatus,  \* status of a pulse policy
  samples,      \* the group's last sample of a member
  origin,       \* pulse_origin of the sample: the event id that was current then
  eventId,      \* _source_count
  line,         \* history: event id of the pulse the CPU saw at its last tick
  levels,       \* history: the held members whose level it saw then
  seen,         \* history: at each tick of the last pulse, was the mask observed
  verdict,      \* history: how the last pulse ended
  credited      \* history: the sources a cpu_irq_taken of the last step names

pulseVars == <<sourceLevel, left, allMasked, maskedTicks, eventId>>
groupVars == <<samples, origin>>
history == <<line, levels, seen, verdict, credited>>
irqVars == <<pulseVars, pulseStatus, groupVars, history>>

\* The runner stops when a policy has declared an overrun.
PulseFailed == \E s \in Pulsed : pulseStatus[s] # "active"
Baseline(s) == IF s \in Declared THEN Unknown ELSE 0

IrqInit ==
  /\ sourceLevel = [s \in Pulsed |-> Baseline(s)]
  /\ left = [s \in Pulsed |-> 0]
  /\ allMasked = [s \in Pulsed |-> TRUE]
  /\ maskedTicks = [s \in Pulsed |-> 0]
  /\ pulseStatus = [s \in Pulsed |-> "active"]
  /\ samples = [s \in Sources |-> Unknown]
  /\ origin = [s \in Sources |-> Unknown]
  /\ eventId = [s \in Pulsed |-> 0]
  /\ line = [s \in Pulsed |-> Unknown] /\ levels = {}
  /\ seen = [s \in Pulsed |-> <<>>]
  /\ verdict = [s \in Pulsed |-> Unknown]
  /\ credited = {}

\* IrqDeliveryGroupState.observe: the reference of a rising sample is remembered
\* as the origin of the pulse.
GroupObserve(s, level, id) ==
  /\ samples' = [samples EXCEPT ![s] = level]
  /\ origin' = IF level = 1 /\ samples[s] # 1 THEN [origin EXCEPT ![s] = id] ELSE origin

\* observe_source of a pulse policy: the level is noted, and a rising edge starts a
\* pulse, or is an overrun while one is pending.  An overrun ends the test; other
\* samples of the same step are still observed.
RisingEdge(s, level) == sourceLevel[s] = 0 /\ level = 1
\* Faulty form of StartPulse: the pulse is one tick short.
StartPulseShort(s) ==
  /\ left' = [left EXCEPT ![s] = Width]
  /\ allMasked' = [allMasked EXCEPT ![s] = TRUE]
  /\ maskedTicks' = [maskedTicks EXCEPT ![s] = 0]
  /\ seen' = [seen EXCEPT ![s] = <<>>]
  /\ UNCHANGED <<pulseStatus, verdict>>

StartPulse(s) ==
  /\ left' = [left EXCEPT ![s] = Width + 1]
  /\ allMasked' = [allMasked EXCEPT ![s] = TRUE]
  /\ maskedTicks' = [maskedTicks EXCEPT ![s] = 0]
  /\ seen' = [seen EXCEPT ![s] = <<>>]
  /\ UNCHANGED <<pulseStatus, verdict>>
Overrun(s) ==
  /\ pulseStatus' = [pulseStatus EXCEPT ![s] = "unsupported_irq_overrun"]
  /\ verdict' = [verdict EXCEPT ![s] = "overrun"]
  /\ UNCHANGED <<left, allMasked, maskedTicks, seen>>
NextEvent(s) == (eventId[s] + 1) % Rounds

\* Faulty form of ObserveSource: a pulse in its last tick may be replaced.
ObserveSourceReplaces(s, level) ==
  /\ sourceLevel' = [sourceLevel EXCEPT ![s] = level]
  /\ IF RisingEdge(s, level)
     THEN /\ eventId' = [eventId EXCEPT ![s] = NextEvent(s)]
          /\ IF left[s] > 1 THEN Overrun(s)
             ELSE IF pulseStatus[s] = "active" THEN StartPulse(s)
             ELSE UNCHANGED <<left, allMasked, maskedTicks, seen, pulseStatus, verdict>>
     ELSE UNCHANGED <<eventId, left, allMasked, maskedTicks, seen, pulseStatus, verdict>>

ObserveSource(s, level) ==
  /\ sourceLevel' = [sourceLevel EXCEPT ![s] = level]
  /\ IF RisingEdge(s, level)
     THEN /\ eventId' = [eventId EXCEPT ![s] = NextEvent(s)]
          /\ IF left[s] > 0 THEN Overrun(s)
             ELSE IF pulseStatus[s] = "active" THEN StartPulse(s)
             ELSE UNCHANGED <<left, allMasked, maskedTicks, seen, pulseStatus, verdict>>
     ELSE UNCHANGED <<eventId, left, allMasked, maskedTicks, seen, pulseStatus, verdict>>

\* _route_observed_outputs for a member of the group.
Observe(s, level) ==
  /\ IF s \in Pulsed
     THEN ObserveSource(s, level) /\ GroupObserve(s, level, eventId'[s])
     ELSE GroupObserve(s, level, Unknown) /\ UNCHANGED <<pulseVars, pulseStatus, seen, verdict>>
  /\ UNCHANGED <<line, levels, credited>>

\* input_at the next CPU tick, and the members that are active in frame(tick).
InputNext(s) == left[s] \in 2..(Width + 1)
Active == {s \in Pulsed : InputNext(s)} \cup {s \in Held : samples[s] = 1}

\* sample_cpu of the policies.
FullyMasked(s) == allMasked[s] /\ maskedTicks[s] = Width
SampleCpu(masked) ==
  LET high == {s \in Pulsed : InputNext(s)}
      ends == {s \in Pulsed : left[s] = 1}
  IN
  /\ left' = [s \in Pulsed |-> IF left[s] > 0 THEN left[s] - 1 ELSE 0]
  /\ maskedTicks' = [s \in Pulsed |-> IF s \in high /\ masked = TRUE THEN maskedTicks[s] + 1 ELSE maskedTicks[s]]
  /\ allMasked' = [s \in Pulsed |-> IF s \in high /\ masked # TRUE THEN FALSE ELSE allMasked[s]]
  /\ verdict' = [s \in Pulsed |-> IF s \notin ends THEN verdict[s]
                   ELSE IF FullyMasked(s) THEN "expired_masked" ELSE "pulse_expired"]
  /\ line' = [s \in Pulsed |-> IF s \in high THEN eventId[s] ELSE Unknown]
  /\ seen' = [s \in Pulsed |-> IF s \in high THEN Append(seen[s], masked = TRUE) ELSE seen[s]]

\* Faulty form of CpuStep: only pulsed members are looked at for another cause of the take.
CpuStepPulsedOnly(masked, taken) ==
  /\ ~PulseFailed
  /\ \A s \in Sources : samples[s] # Unknown
  /\ SampleCpu(masked)
  /\ levels' = {s \in Held : samples[s] = 1}
  /\ credited' = {s \in Pulsed : InputNext(s) /\ taken /\ Active \cap Pulsed = {s}}
  /\ UNCHANGED <<sourceLevel, eventId, pulseStatus, groupVars>>

\* A CPU step: the group drives the OR of its members, which all must have been
\* sampled, and a take is credited to a pulsed member that was active alone.
CpuStep(masked, taken) ==
  /\ ~PulseFailed
  /\ \A s \in Sources : samples[s] # Unknown
  /\ SampleCpu(masked)
  /\ levels' = {s \in Held : samples[s] = 1}
  /\ credited' = {s \in Pulsed : InputNext(s) /\ taken /\ Active = {s}}
  /\ UNCHANGED <<sourceLevel, eventId, pulseStatus, groupVars>>

\* reset_all, on the interrupt line: pulses are cancelled, levels and samples are
\* forgotten.
Reset ==
  /\ ~PulseFailed
  /\ sourceLevel' = [s \in Pulsed |-> Baseline(s)]
  /\ left' = [s \in Pulsed |-> 0]
  /\ allMasked' = [s \in Pulsed |-> TRUE]
  /\ maskedTicks' = [s \in Pulsed |-> 0]
  /\ samples' = [s \in Sources |-> Unknown]
  /\ origin' = [s \in Sources |-> Unknown]
  /\ verdict' = [s \in Pulsed |-> IF left[s] > 0 THEN "cancelled" ELSE verdict[s]]
  /\ line' = [s \in Pulsed |-> Unknown] /\ levels' = {}
  /\ credited' = {}
  /\ UNCHANGED <<eventId, pulseStatus, seen>>

IrqNext ==
  \/ \E s \in Sources, level \in {0, 1} : Observe(s, level)
  \/ \E masked \in {TRUE, FALSE, Unknown}, taken \in BOOLEAN : CpuStep(masked, taken)
  \/ Reset

\* The schedule steps every component again and again (schedule_order contains
\* every local harness), so every source is sampled and the CPU is stepped.
IrqFairness ==
  /\ \A s \in Sources : WF_irqVars(samples[s] = Unknown /\ \E level \in {0, 1} : Observe(s, level))
  /\ WF_irqVars(\E masked \in {TRUE, FALSE, Unknown}, taken \in BOOLEAN : CpuStep(masked, taken))

IrqSpec == IrqInit /\ [][IrqNext]_irqVars /\ IrqFairness

-----------------------------------------------------------------------------

\* "Map independent source rising edges to fixed CPU-local-tick pulses" (irq.py:9):
\* a pulse that expired was seen by the CPU for exactly Width ticks, whenever the
\* edge came between two CPU ticks and whatever the source did meanwhile.
PulseWidthExact ==
  \A s \in Pulsed :
    /\ left[s] > 0 => Len(seen[s]) = Width + 1 - left[s]
    /\ left[s] = 0 /\ verdict[s] \in {"pulse_expired", "expired_masked"} => Len(seen[s]) = Width

\* "masked is never inferred" (irq.py:11): a pulse is reported as masked away exactly
\* when the CPU reported the mask at each of its ticks.
MaskedVerdict ==
  \A s \in Pulsed : left[s] = 0 /\ verdict[s] \in {"pulse_expired", "expired_masked"} =>
    (verdict[s] = "expired_masked" <=> \A i \in 1..Len(seen[s]) : seen[s][i])

\* The end of a pulse is what the CPU saw of it: its width, and whether it was masked.
PulseAsSeen == PulseWidthExact /\ MaskedVerdict

\* "It does not replace or extend the first pulse" (irq.py:14): the CPU's line goes
\* low between two pulses of a source, so each of them is an edge for the CPU.
PulsesSeparate ==
  [][\A s \in Pulsed : line[s] # Unknown /\ line'[s] # Unknown => line'[s] = line[s]]_irqVars

\* The native reference the group gives for an active pulse is the sample whose edge
\* started this very pulse: the group and the policy, which remember levels
\* separately, never disagree, not even over a reset.
OriginIsThisPulse ==
  \A s \in Pulsed : left[s] > 0 /\ ~PulseFailed => origin[s] = eventId[s]

\* A take of the CPU is credited to one source at most, and never while another
\* member, pulsed or held, drove the line as well.
OneSourcePerTake ==
  /\ Cardinality(credited) <= 1
  /\ \A s \in credited :
       line[s] # Unknown /\ levels = {} /\ \A t \in Pulsed \ {s} : line[t] = Unknown

\* An interrupt is attributed to the edge that caused it, and only if that is certain.
TakesAreAttributed == OriginIsThisPulse /\ OneSourcePerTake

\* A pulse is over after finitely many steps (quiesce waits for that), or an overrun
\* ended the test.
PulseEnds ==
  \A s \in Pulsed : left[s] > 0 ~> (left[s] = 0 \/ PulseFailed)

\* Each pulse of a source is an edge for the CPU, and ends.
PulsesComeAndGo == PulsesSeparate /\ PulseEnds

=============================================================================
