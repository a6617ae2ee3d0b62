-------------------------------- MODULE BeatGate --------------------------------
(***************************************************************************)
(* BeatGate (avs-effects-legacy, core/gating.cpp): turns the beats an      *)
(* effect is given into whether it renders, for a number of frames after a *)
(* beat or, with the sticky toggle, from one beat to the next.             *)
(***************************************************************************)
EXTENDS Naturals

CONSTANT MaxHold   \* bound: frames a gate is held

ASSUME BeatGateAssumption == MaxHold \in Nat

GateOptions == [enableOnBeat : BOOLEAN, stickyToggle : BOOLEAN, onlySticky : BOOLEAN,
                holdFrames : 0..MaxHold]

\* holdCounter_, stickyActive_
Gates == [hold : 0..MaxHold, sticky : BOOLEAN]

GateReset == [hold |-> 0, sticky |-> FALSE]

\* mutant: the countdown goes on while the sticky latch is engaged, and a beat
\* that releases the latch does not start it again
SteppedWithoutRestart(gate, options, beatEvent) ==
  LET sticky == IF beatEvent /\ options.stickyToggle THEN ~gate.sticky ELSE gate.sticky
  IN  IF ~options.enableOnBeat THEN gate
      ELSE [sticky |-> sticky,
            hold   |-> IF beatEvent /\ ~gate.sticky THEN options.holdFrames
                       ELSE IF gate.hold > 0 THEN gate.hold - 1 ELSE 0]

\* The state step leaves: the countdown stands still while the latch is engaged.
Stepped(gate, options, beatEvent) ==
  LET sticky == IF beatEvent /\ options.stickyToggle THEN ~gate.sticky ELSE gate.sticky
  IN  IF ~options.enableOnBeat THEN gate
      ELSE [sticky |-> sticky,
            hold   |-> IF beatEvent THEN options.holdFrames
                       ELSE IF gate.hold > 0 /\ ~(options.stickyToggle /\ sticky)
                              THEN gate.hold - 1 ELSE gate.hold]

\* What step answers in the state it leaves.
Renders(gate, options, beatEvent) ==
  \/ ~options.enableOnBeat
  \/ options.stickyToggle /\ gate.sticky
  \/ ~(options.stickyToggle /\ options.onlySticky) /\ (beatEvent \/ gate.hold > 0)

Flag(gate, options, beatEvent) ==
  CASE ~options.enableOnBeat                -> "Hold"
    [] options.enableOnBeat /\ options.stickyToggle /\ gate.sticky -> "Sticky"
    [] options.enableOnBeat /\ ~(options.stickyToggle /\ gate.sticky) /\ beatEvent -> "Beat"
    [] OTHER -> IF Renders(gate, options, beatEvent) THEN "Hold" ELSE "Off"

===============================================================================
