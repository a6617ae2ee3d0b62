------------------------------- MODULE CustomBpm --------------------------------
(***************************************************************************)
(* The effect "Custom BPM" (misc/effect_custom_bpm.cpp): replaces the beat *)
(* of a frame by one at a fixed tempo, by every n-th beat or by its        *)
(* opposite, and passes it through a BeatGate.                             *)
(*                                                                         *)
(* Time is counted in ticks: the arithmetic of doubles is taken as exact.  *)
(***************************************************************************)
EXTENDS Integers, BeatGate

CONSTANTS
  BpmSettings,    \* the settings presets ask for
  Ticks,          \* time a frame may take; one that is not positive counts as 0
  MaxBpmFrames    \* bound: frames rendered with the same settings

BpmModes == {"Arbitrary", "Skip", "Invert", "Passthrough"}

ASSUME CustomBpmAssumption ==
  /\ BpmSettings \subseteq
       [enabled : BOOLEAN, mode : BpmModes, interval : Nat \ {0},
        skipInterval : Nat \ {0}, skipFirst : Nat, gate : GateOptions]
  /\ Ticks \subseteq Int
  /\ MaxBpmFrames \in Nat

VARIABLES
  bpm,         \* the settings
  beatsSeen, skipCounter, accumulator,   \* accumulatorSeconds_, in ticks
  gate,        \* gate_
  audioBeat,   \* what the last frame passes on
  rendered,    \* history, since the settings changed: frames
  elapsed,     \* time
  late,        \* some frame took longer than the interval
  beats,       \* beats given
  pulses,      \* pulses given to the gate
  sincePulse   \* frames since the last of them

customBpmVars == <<bpm, beatsSeen, skipCounter, accumulator, gate, audioBeat,
                   rendered, elapsed, late, beats, pulses, sincePulse>>

CustomBpmInit ==
  /\ bpm \in BpmSettings
  /\ beatsSeen = 0 /\ skipCounter = 0 /\ accumulator = 0
  /\ gate = GateReset
  /\ audioBeat = FALSE
  /\ rendered = 0 /\ elapsed = 0 /\ late = FALSE
  /\ beats = 0 /\ pulses = 0 /\ sincePulse = 0

-------------------------------------------------------------------------------
\* setParams: settings that differ start all over, the same ones change nothing.
CustomBpmSetParams(wanted) ==
  /\ bpm' = wanted
  /\ IF wanted = bpm
       THEN UNCHANGED <<beatsSeen, skipCounter, accumulator, gate,
                        rendered, elapsed, late, beats, pulses, sincePulse>>
       ELSE /\ beatsSeen' = 0 /\ skipCounter' = 0 /\ accumulator' = 0
            /\ gate' = GateReset
            /\ rendered' = 0 /\ elapsed' = 0 /\ late' = FALSE
            /\ beats' = 0 /\ pulses' = 0 /\ sincePulse' = 0
  /\ UNCHANGED audioBeat

\* Fixed tempo: a frame gives one pulse at most, and keeps the time left over.
\* mutant: the time left over is dropped at a pulse
PulseDropsRest(delta) ==
  [pulse |-> accumulator + delta >= bpm.interval,
   rest  |-> IF accumulator + delta >= bpm.interval THEN 0 ELSE accumulator + delta]

Pulse(delta) ==
  [pulse |-> accumulator + delta >= bpm.interval,
   rest  |-> (accumulator + delta) % bpm.interval]

FirstBeats(baseBeat) == baseBeat /\ beatsSeen + 1 <= bpm.skipFirst

\* Skip: the counter leaves the first beats out.
Skipping(baseBeat) ==
  LET n == skipCounter + (IF baseBeat /\ ~FirstBeats(baseBeat) THEN 1 ELSE 0)
  IN  [counter |-> IF n >= bpm.skipInterval THEN 0 ELSE n,
       pulse   |-> n >= bpm.skipInterval]

PulseOf(baseBeat, delta) ==
  CASE bpm.mode = "Arbitrary"   -> Pulse(delta).pulse
    [] bpm.mode = "Skip"        -> Skipping(baseBeat).pulse
    [] bpm.mode = "Invert"      -> ~baseBeat
    [] bpm.mode = "Passthrough" -> baseBeat /\ ~FirstBeats(baseBeat)

\* Passing through, the gate follows but the beat is not changed.
Overrides(baseBeat) == bpm.mode # "Passthrough" \/ FirstBeats(baseBeat)

CustomBpmRender(baseBeat, ticks) ==
  LET delta == IF ticks > 0 THEN ticks ELSE 0
      pulse == PulseOf(baseBeat, delta)
      heard == baseBeat /\ bpm.mode # "Arbitrary"
  IN  /\ bpm.enabled /\ rendered < MaxBpmFrames
      /\ accumulator' = IF bpm.mode = "Arbitrary" THEN Pulse(delta).rest ELSE accumulator
      /\ beatsSeen' = IF heard THEN beatsSeen + 1 ELSE beatsSeen
      /\ skipCounter' = IF bpm.mode = "Skip" THEN Skipping(baseBeat).counter ELSE skipCounter
      /\ gate' = Stepped(gate, bpm.gate, pulse)
      /\ audioBeat' = IF Overrides(baseBeat) THEN Renders(gate', bpm.gate, pulse)
                      ELSE Flag(gate', bpm.gate, pulse) = "Beat" \/ baseBeat
      /\ rendered' = rendered + 1
      /\ elapsed' = elapsed + delta
      /\ late' = (late \/ delta > bpm.interval)
      /\ beats' = IF baseBeat THEN beats + 1 ELSE beats
      /\ pulses' = IF pulse THEN pulses + 1 ELSE pulses
      /\ sincePulse' = IF pulse THEN 0 ELSE sincePulse + 1
      /\ UNCHANGED bpm

CustomBpmNext ==
  \/ \E s \in BpmSettings : CustomBpmSetParams(s)
  \/ \E b \in BOOLEAN, t \in Ticks : CustomBpmRender(b, t)

CustomBpmSpec == CustomBpmInit /\ [][CustomBpmNext]_customBpmVars

-------------------------------------------------------------------------------
\* At a fixed tempo no pulse is lost or added over any sequence of frame times,
\* negative ones and ones longer than the interval included (a frame gives one
\* pulse at most, the remainder stays exact); in skip mode every n-th of the beats
\* after the first ones gives a pulse, and no other.
PulsesExact ==
  /\ bpm.mode = "Arbitrary" =>
       /\ accumulator = elapsed % bpm.interval
       /\ ~late => pulses = elapsed \div bpm.interval
  /\ bpm.mode = "Skip" =>
       LET counted == IF beats > bpm.skipFirst THEN beats - bpm.skipFirst ELSE 0
       IN  pulses = counted \div bpm.skipInterval

\* The beat passed on in the modes that override it: sticky from every odd pulse
\* to the next, else for the frames the gate holds, one at least.  The countdown
\* that stood still while the latch was engaged never shows; the one that the pulse
\* releasing the latch starts does.  That is what the code does and not what is
\* documented: docs/effects/gating.md:29 has the toggle replace the countdown
\* ("instead of using a transient countdown"), and there, line 33, and in
\* docs/effects/misc/custom_bpm.md:21 frames are held only without the toggle.
GateWindow ==
  (rendered > 0 /\ bpm.gate.enableOnBeat /\ bpm.mode \in {"Arbitrary", "Skip", "Invert"}) =>
    LET held == IF bpm.gate.holdFrames < 1 THEN 1 ELSE bpm.gate.holdFrames
    IN  audioBeat <=> \/ bpm.gate.stickyToggle /\ pulses % 2 = 1
                      \/ /\ ~(bpm.gate.stickyToggle /\ bpm.gate.onlySticky)
                         /\ pulses > 0 /\ sincePulse < held

===============================================================================
