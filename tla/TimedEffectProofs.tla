-------------------------- MODULE TimedEffectProofs --------------------------
(* The effects that count frames or milliseconds, for every length, size and setting. *)
EXTENDS CustomBpm, VideoDelay, MultiDelay, Framebuffers, Transition, BeatDecay,
        SharedLemmas, FiniteSetTheorems, TLAPS

(* CustomBpm and BeatGate: the pulses and the gate. *)

\* Time that is added carries over to the remainder, and to the quotient once if it
\* is no more than the divisor.
LEMMA CarryOver ==
  ASSUME NEW R \in Nat \ {0}, NEW a \in Nat, NEW d \in Nat
  PROVE  /\ ((a % R) + d) % R = (a + d) % R
         /\ d <= R => (a + d) \div R = (a \div R) + (IF (a % R) + d >= R THEN 1 ELSE 0)
<1>1. ((a % R) + d) % R = (a + d) % R
  BY WrappedPlus
<1>2. ASSUME d <= R PROVE (a + d) \div R = (a \div R) + (IF (a % R) + d >= R THEN 1 ELSE 0)
  <2>1. /\ a = R * (a \div R) + (a % R) /\ a % R \in 0..(R - 1) /\ a \div R \in Nat
        /\ a + d = R * ((a + d) \div R) + ((a + d) % R) /\ (a + d) % R \in 0..(R - 1)
        /\ (a + d) \div R \in Nat
    BY DivideNat, a + d \in Nat
  <2>2. PICK q \in Nat, r \in 0..(R - 1), p \in Nat, s \in 0..(R - 1) :
          q = a \div R /\ r = a % R /\ p = (a + d) \div R /\ s = (a + d) % R
    BY <2>1
  <2>3. R * q + r + d = R * p + s
    BY <2>1, <2>2
  <2>4. CASE r + d >= R
    <3>1. R * (q + 1) + (r + d - R) = R * p + s
      BY <2>3, SMT
    <3>2. r + d - R \in 0..(R - 1)
      BY <1>2, <2>4
    <3>3. p = q + 1
      BY <3>1, <3>2, RemainderUnique, q + 1 \in Int
    <3> QED
      BY <2>2, <2>4, <3>3
  <2>5. CASE r + d < R
    <3>1. R * q + (r + d) = R * p + s /\ r + d \in 0..(R - 1)
      BY <2>3, <2>5
    <3>2. p = q
      BY <3>1, RemainderUnique
    <3> QED
      BY <2>2, <2>5, <3>2
  <2> QED
    BY <2>4, <2>5
<1> QED
  BY <1>1, <1>2

\* One more beat wraps the counter of beats, or not.
LEMMA OneMore ==
  ASSUME NEW R \in Nat \ {0}, NEW a \in Nat
  PROVE  /\ (a + 1) % R = (IF (a % R) + 1 >= R THEN 0 ELSE (a % R) + 1)
         /\ (a + 1) \div R = (a \div R) + (IF (a % R) + 1 >= R THEN 1 ELSE 0)
<1>1. a % R \in 0..(R - 1) /\ a = R * (a \div R) + (a % R) /\ a \div R \in Nat
  BY DivideNat
<1>2. ((a % R) + 1) % R = (a + 1) % R
  BY WrappedPlus
<1>3. (a + 1) \div R = (a \div R) + (IF (a % R) + 1 >= R THEN 1 ELSE 0)
  BY CarryOver, 1 \in Nat, 1 <= R
<1>4. PICK r \in 0..(R - 1) : r = a % R
  BY <1>1
<1>5. CASE r + 1 >= R
  <2>1. r + 1 = R
    BY <1>5
  <2>2. 0 % R = R % R
    BY SameSlot, R = 0 + R * 1
  <2>3. 0 % R = 0
    BY SMT
  <2> QED
    BY <1>2, <1>3, <1>4, <2>1, <2>2, <2>3
<1>6. CASE r + 1 < R
  <2>1. (r + 1) % R = r + 1
    <3>1. /\ r + 1 = R * ((r + 1) \div R) + ((r + 1) % R) /\ (r + 1) % R \in 0..(R - 1)
          /\ (r + 1) \div R \in Nat
      BY DivideNat, r + 1 \in Nat
    <3>2. PICK p \in Nat, s \in 0..(R - 1) : p = (r + 1) \div R /\ s = (r + 1) % R
      BY <3>1
    <3>3. R * 0 + (r + 1) = R * p + s /\ r + 1 \in 0..(R - 1)
      BY <3>1, <3>2, <1>6
    <3> QED
      BY <3>2, <3>3, RemainderUnique
  <2> QED
    BY <1>2, <1>3, <1>4, <1>6, <2>1
<1> QED
  BY <1>5, <1>6

-------------------------------------------------------------------------------
\* The beats after the first ones.
BeatsCounted == IF beats > bpm.skipFirst THEN beats - bpm.skipFirst ELSE 0

\* What the effect keeps is a function of the time, the beats and the pulses since
\* the settings changed.
BpmInv ==
  /\ bpm \in BpmSettings
  /\ accumulator \in Nat /\ beatsSeen \in Nat /\ skipCounter \in Nat
  /\ elapsed \in Nat /\ beats \in Nat /\ pulses \in Nat /\ sincePulse \in Nat /\ rendered \in Nat
  /\ late \in BOOLEAN /\ gate.sticky \in BOOLEAN /\ gate.hold \in Nat
  /\ bpm.mode # "Arbitrary" => beatsSeen = beats
  /\ bpm.mode = "Arbitrary" =>
       /\ accumulator = elapsed % bpm.interval
       /\ ~late => pulses = elapsed \div bpm.interval
  /\ bpm.mode = "Skip" =>
       /\ skipCounter = BeatsCounted % bpm.skipInterval
       /\ pulses = BeatsCounted \div bpm.skipInterval
  /\ gate = [sticky |-> gate.sticky, hold |-> gate.hold]

LEMMA SettingsTyped ==
  ASSUME NEW s \in BpmSettings
  PROVE  /\ s.mode \in BpmModes /\ s.interval \in Nat \ {0} /\ s.skipInterval \in Nat \ {0}
         /\ s.skipFirst \in Nat
         /\ s.gate.enableOnBeat \in BOOLEAN /\ s.gate.stickyToggle \in BOOLEAN
         /\ s.gate.onlySticky \in BOOLEAN /\ s.gate.holdFrames \in Nat
<1>1. s \in [enabled : BOOLEAN, mode : BpmModes, interval : Nat \ {0},
             skipInterval : Nat \ {0}, skipFirst : Nat, gate : GateOptions]
  BY CustomBpmAssumption
<1>2. s.gate \in [enableOnBeat : BOOLEAN, stickyToggle : BOOLEAN, onlySticky : BOOLEAN, holdFrames : 0..MaxHold]
  BY <1>1 DEF GateOptions
<1> QED
  BY <1>1, <1>2, BeatGateAssumption

\* The effect and its gate start anew when the settings change.
LEMMA Anew ==
  ASSUME NEW s \in BpmSettings
  PROVE  /\ 0 % s.interval = 0 /\ 0 \div s.interval = 0
         /\ 0 % s.skipInterval = 0 /\ 0 \div s.skipInterval = 0
<1>1. s.interval \in Nat \ {0} /\ s.skipInterval \in Nat \ {0}
  BY SettingsTyped
<1>2. ASSUME NEW R \in Nat \ {0} PROVE 0 % R = 0 /\ 0 \div R = 0
  <2>1. 0 = R * (0 \div R) + (0 % R) /\ 0 % R \in 0..(R - 1) /\ 0 \div R \in Nat
    BY DivideNat
  <2>2. PICK q \in Nat, r \in 0..(R - 1) : q = 0 \div R /\ r = 0 % R
    BY <2>1
  <2>3. R * 0 + 0 = R * q + r
    BY <2>1, <2>2
  <2> QED
    BY <2>2, <2>3, RemainderUnique, 0 \in 0..(R - 1)
<1> QED
  BY <1>1, <1>2

LEMMA BpmStart == CustomBpmInit => BpmInv
<1> SUFFICES ASSUME CustomBpmInit PROVE BpmInv
  OBVIOUS
<1>1. BeatsCounted = 0
  BY SettingsTyped DEF CustomBpmInit, BeatsCounted
<1> QED
  BY <1>1, Anew DEF CustomBpmInit, BpmInv, GateReset

LEMMA BpmParamsStep ==
  ASSUME BpmInv, NEW wanted \in BpmSettings, CustomBpmSetParams(wanted)
  PROVE  BpmInv'
<1>1. CASE wanted = bpm
  BY <1>1 DEF CustomBpmSetParams, BpmInv, BeatsCounted
<1>2. CASE wanted # bpm
  <2>1. BeatsCounted' = 0
    BY <1>2, SettingsTyped DEF CustomBpmSetParams, BeatsCounted
  <2>2. /\ bpm' \in BpmSettings
        /\ beatsSeen' = 0 /\ skipCounter' = 0 /\ accumulator' = 0
        /\ gate' = [hold |-> 0, sticky |-> FALSE]
        /\ rendered' = 0 /\ elapsed' = 0 /\ late' = FALSE
        /\ beats' = 0 /\ pulses' = 0 /\ sincePulse' = 0
    BY <1>2 DEF CustomBpmSetParams, GateReset
  <2>3. /\ 0 % bpm'.interval = 0 /\ 0 \div bpm'.interval = 0
        /\ 0 % bpm'.skipInterval = 0 /\ 0 \div bpm'.skipInterval = 0
    BY <2>2, Anew
  <2> QED
    BY <2>1, <2>2, <2>3 DEF BpmInv
<1> QED
  BY <1>1, <1>2

LEMMA PulseIsBoolean ==
  ASSUME bpm.mode \in BpmModes, NEW baseBeat \in BOOLEAN, NEW delta
  PROVE  PulseOf(baseBeat, delta) \in BOOLEAN
<1>1. CASE bpm.mode = "Arbitrary"
  BY <1>1 DEF PulseOf, Pulse
<1>2. CASE bpm.mode = "Skip"
  BY <1>2 DEF PulseOf, Skipping
<1>3. CASE bpm.mode = "Invert"
  BY <1>3 DEF PulseOf
<1>4. CASE bpm.mode = "Passthrough"
  BY <1>4 DEF PulseOf, FirstBeats
<1> QED
  BY <1>1, <1>2, <1>3, <1>4 DEF BpmModes

LEMMA BpmRenderStep ==
  ASSUME BpmInv, NEW baseBeat \in BOOLEAN, NEW ticks \in Ticks, CustomBpmRender(baseBeat, ticks)
  PROVE  BpmInv'
<1> DEFINE delta == IF ticks > 0 THEN ticks ELSE 0
           pulse == PulseOf(baseBeat, delta)
<1>1. /\ bpm.mode \in BpmModes /\ bpm.interval \in Nat \ {0} /\ bpm.skipInterval \in Nat \ {0}
      /\ bpm.skipFirst \in Nat
      /\ bpm.gate.enableOnBeat \in BOOLEAN /\ bpm.gate.stickyToggle \in BOOLEAN
      /\ bpm.gate.holdFrames \in Nat
  BY SettingsTyped DEF BpmInv
<1>2. delta \in Nat
  BY CustomBpmAssumption
<1>3. /\ accumulator' = IF bpm.mode = "Arbitrary" THEN Pulse(delta).rest ELSE accumulator
      /\ beatsSeen' = IF baseBeat /\ bpm.mode # "Arbitrary" THEN beatsSeen + 1 ELSE beatsSeen
      /\ skipCounter' = IF bpm.mode = "Skip" THEN Skipping(baseBeat).counter ELSE skipCounter
      /\ gate' = Stepped(gate, bpm.gate, pulse)
      /\ rendered' = rendered + 1
      /\ elapsed' = elapsed + delta
      /\ late' = (late \/ delta > bpm.interval)
      /\ beats' = IF baseBeat THEN beats + 1 ELSE beats
      /\ pulses' = IF pulse THEN pulses + 1 ELSE pulses
      /\ sincePulse' = IF pulse THEN 0 ELSE sincePulse + 1
      /\ bpm' = bpm
  BY DEF CustomBpmRender
<1> HIDE DEF delta
<1>4. pulse \in BOOLEAN
  BY <1>1, PulseIsBoolean
<1>5. bpm.mode = "Arbitrary" =>
        /\ accumulator' = elapsed' % bpm.interval
        /\ ~late' => pulses' = elapsed' \div bpm.interval
  <2> SUFFICES ASSUME bpm.mode = "Arbitrary"
               PROVE  /\ accumulator' = elapsed' % bpm.interval
                      /\ ~late' => pulses' = elapsed' \div bpm.interval
    OBVIOUS
  <2>1. pulse = (accumulator + delta >= bpm.interval)
        /\ accumulator' = (accumulator + delta) % bpm.interval
    BY <1>3 DEF PulseOf, Pulse
  <2>2. accumulator = elapsed % bpm.interval /\ (~late => pulses = elapsed \div bpm.interval)
        /\ elapsed \in Nat /\ pulses \in Nat /\ late \in BOOLEAN
    BY DEF BpmInv
  <2>3. /\ ((elapsed % bpm.interval) + delta) % bpm.interval = (elapsed + delta) % bpm.interval
        /\ delta <= bpm.interval =>
             (elapsed + delta) \div bpm.interval =
               (elapsed \div bpm.interval) + (IF (elapsed % bpm.interval) + delta >= bpm.interval THEN 1 ELSE 0)
    BY <1>1, <1>2, <2>2, CarryOver
  <2>4. accumulator' = elapsed' % bpm.interval
    BY <1>3, <2>1, <2>2, <2>3
  <2>5. ASSUME ~late' PROVE pulses' = elapsed' \div bpm.interval
    <3>1. ~late /\ delta <= bpm.interval
      <4>1. ~(late \/ delta > bpm.interval)
        BY <1>3, <2>5, Zenon
      <4> QED
        BY <1>1, <1>2, <4>1
    <3>2. elapsed' \div bpm.interval =
            pulses + (IF accumulator + delta >= bpm.interval THEN 1 ELSE 0)
      BY <1>3, <2>2, <2>3, <3>1
    <3>3. CASE accumulator + delta >= bpm.interval
      <4>1. pulses' = pulses + 1
        BY <1>3, <2>1, <3>3, Zenon
      <4> QED
        BY <3>2, <3>3, <4>1
    <3>4. CASE ~(accumulator + delta >= bpm.interval)
      <4>1. pulses' = pulses
        BY <1>3, <2>1, <3>4, Zenon
      <4> QED
        BY <2>2, <3>2, <3>4, <4>1
    <3> QED
      BY <3>3, <3>4
  <2> QED
    BY <2>4, <2>5
<1>6. bpm.mode = "Skip" =>
        /\ skipCounter' = BeatsCounted' % bpm.skipInterval
        /\ pulses' = BeatsCounted' \div bpm.skipInterval
  <2> SUFFICES ASSUME bpm.mode = "Skip"
               PROVE  /\ skipCounter' = BeatsCounted' % bpm.skipInterval
                      /\ pulses' = BeatsCounted' \div bpm.skipInterval
    OBVIOUS
  <2> DEFINE k == skipCounter + (IF baseBeat /\ ~FirstBeats(baseBeat) THEN 1 ELSE 0)
  <2>1. /\ skipCounter = BeatsCounted % bpm.skipInterval /\ pulses = BeatsCounted \div bpm.skipInterval
        /\ beatsSeen = beats /\ beats \in Nat /\ skipCounter \in Nat /\ pulses \in Nat
    BY DEF BpmInv
  <2>2. BeatsCounted \in Nat
    BY <1>1, <2>1 DEF BeatsCounted
  <2>3. /\ pulse = (k >= bpm.skipInterval)
        /\ skipCounter' = IF k >= bpm.skipInterval THEN 0 ELSE k
    BY <1>3 DEF PulseOf, Skipping
  <2>4. CASE baseBeat /\ ~FirstBeats(baseBeat)
    <3>1. k = skipCounter + 1
      BY <2>4
    <3>2. BeatsCounted' = BeatsCounted + 1
      BY <1>1, <1>3, <2>1, <2>4 DEF FirstBeats, BeatsCounted
    <3>3. /\ (BeatsCounted + 1) % bpm.skipInterval =
               (IF skipCounter + 1 >= bpm.skipInterval THEN 0 ELSE skipCounter + 1)
          /\ (BeatsCounted + 1) \div bpm.skipInterval =
               pulses + (IF skipCounter + 1 >= bpm.skipInterval THEN 1 ELSE 0)
      BY <1>1, <2>1, <2>2, OneMore
    <3> HIDE DEF k
    <3>4. CASE k >= bpm.skipInterval
      <4>1. pulses' = pulses + 1 /\ skipCounter' = 0
        BY <1>3, <2>3, <3>4, Zenon
      <4>2. skipCounter + 1 >= bpm.skipInterval
        BY <3>1, <3>4
      <4> QED
        BY <1>3, <3>2, <3>3, <4>1, <4>2
    <3>5. CASE ~(k >= bpm.skipInterval)
      <4>1. pulses' = pulses /\ skipCounter' = k
        BY <1>3, <2>3, <3>5, Zenon
      <4>2. ~(skipCounter + 1 >= bpm.skipInterval)
        BY <3>1, <3>5
      <4> QED
        BY <1>3, <2>1, <3>1, <3>2, <3>3, <4>1, <4>2
    <3> QED
      BY <3>4, <3>5
  <2>5. CASE ~(baseBeat /\ ~FirstBeats(baseBeat))
    <3>1. k = skipCounter
      BY <2>1, <2>5
    <3>2. BeatsCounted' = BeatsCounted
      BY <1>1, <1>3, <2>1, <2>5 DEF FirstBeats, BeatsCounted
    <3>3. skipCounter < bpm.skipInterval
      BY <1>1, <2>1, <2>2, DivideNat
    <3> HIDE DEF k
    <3>4. ~(k >= bpm.skipInterval)
      BY <1>1, <2>1, <3>1, <3>3
    <3>5. pulses' = pulses /\ skipCounter' = k
      BY <1>3, <2>3, <3>4, Zenon
    <3> QED
      BY <1>3, <2>1, <3>1, <3>2, <3>5
  <2> QED
    BY <2>4, <2>5
<1>7. gate' = [sticky |-> gate'.sticky, hold |-> gate'.hold]
      /\ gate'.sticky \in BOOLEAN /\ gate'.hold \in Nat
  <2> HIDE DEF pulse
  <2>1. CASE ~bpm.gate.enableOnBeat
    BY <1>3, <2>1 DEF Stepped, BpmInv
  <2>2. CASE bpm.gate.enableOnBeat
    <3>1. gate' = [sticky |-> IF pulse /\ bpm.gate.stickyToggle THEN ~gate.sticky ELSE gate.sticky,
                   hold   |-> IF pulse THEN bpm.gate.holdFrames
                              ELSE IF gate.hold > 0
                                      /\ ~(bpm.gate.stickyToggle
                                           /\ (IF pulse /\ bpm.gate.stickyToggle THEN ~gate.sticky ELSE gate.sticky))
                                     THEN gate.hold - 1 ELSE gate.hold]
      BY <1>3, <2>2 DEF Stepped
    <3>2. gate.sticky \in BOOLEAN /\ gate.hold \in Nat
      BY DEF BpmInv
    <3>3. gate'.sticky \in BOOLEAN
      BY <1>4, <3>1, <3>2
    <3>4. gate'.hold \in Nat
      BY <1>1, <3>1, <3>2
    <3> QED
      BY <3>1, <3>3, <3>4
  <2> QED
    BY <2>1, <2>2
<1>8. accumulator' \in Nat
  <2>1. CASE bpm.mode = "Arbitrary"
    <3>1. accumulator + delta \in Nat
      BY <1>2 DEF BpmInv
    <3> QED
      <4>1. accumulator' = (accumulator + delta) % bpm.interval
        BY <1>3, <2>1 DEF Pulse
      <4> QED
        <5>1. (accumulator + delta) % bpm.interval \in 0..(bpm.interval - 1)
          BY <1>1, <3>1, DivideNat
        <5> QED
          BY <1>1, <4>1, <5>1
  <2>2. CASE bpm.mode # "Arbitrary"
    BY <1>3, <2>2 DEF BpmInv
  <2> QED
    BY <2>1, <2>2
<1>9. skipCounter' \in Nat
  BY <1>1, <1>3 DEF Skipping, BpmInv
<1>10. /\ elapsed' \in Nat /\ beats' \in Nat /\ pulses' \in Nat /\ sincePulse' \in Nat
       /\ rendered' \in Nat /\ beatsSeen' \in Nat /\ late' \in BOOLEAN
       /\ (bpm.mode # "Arbitrary" => beatsSeen' = beats')
  BY <1>2, <1>3 DEF BpmInv
<1> QED
  BY <1>3, <1>5, <1>6, <1>7, <1>8, <1>9, <1>10 DEF BpmInv

\* The gate: its latch is engaged after every odd pulse, and the frames it still
\* holds are those since the last pulse, except while the latch stood still.
GateInv ==
  bpm.gate.enableOnBeat =>
    /\ gate.sticky <=> bpm.gate.stickyToggle /\ pulses % 2 = 1
    /\ pulses = 0 => gate.hold = 0
    /\ pulses > 0 /\ ~gate.sticky =>
         gate.hold = IF sincePulse < bpm.gate.holdFrames THEN bpm.gate.holdFrames - sincePulse ELSE 0

LEMMA GateStart == CustomBpmInit => GateInv /\ GateWindow
BY DEF CustomBpmInit, GateInv, GateWindow, GateReset

LEMMA GateStep ==
  ASSUME BpmInv, GateInv, NEW baseBeat \in BOOLEAN, NEW ticks \in Ticks, CustomBpmRender(baseBeat, ticks)
  PROVE  GateInv' /\ GateWindow'
<1> DEFINE delta == IF ticks > 0 THEN ticks ELSE 0
           pulse == PulseOf(baseBeat, delta)
           H     == bpm.gate.holdFrames
<1>1. /\ bpm.gate.enableOnBeat \in BOOLEAN /\ bpm.gate.stickyToggle \in BOOLEAN
      /\ bpm.gate.onlySticky \in BOOLEAN /\ H \in Nat
      /\ bpm.mode \in BpmModes /\ bpm.skipFirst \in Nat /\ bpm.interval \in Nat \ {0}
      /\ bpm.skipInterval \in Nat \ {0} /\ delta \in Nat
      /\ pulses \in Nat /\ sincePulse \in Nat /\ gate.sticky \in BOOLEAN /\ gate.hold \in Nat
  BY SettingsTyped, CustomBpmAssumption DEF BpmInv
<1>2. /\ gate' = Stepped(gate, bpm.gate, pulse)
      /\ audioBeat' = IF Overrides(baseBeat) THEN Renders(gate', bpm.gate, pulse)
                      ELSE Flag(gate', bpm.gate, pulse) = "Beat" \/ baseBeat
      /\ pulses' = IF pulse THEN pulses + 1 ELSE pulses
      /\ sincePulse' = IF pulse THEN 0 ELSE sincePulse + 1
      /\ bpm' = bpm
  BY DEF CustomBpmRender
<1> HIDE DEF delta
<1>3. pulse \in BOOLEAN
  BY <1>1, PulseIsBoolean
<1> HIDE DEF pulse
<1> SUFFICES ASSUME bpm.gate.enableOnBeat PROVE GateInv' /\ GateWindow'
  BY <1>2 DEF GateInv, GateWindow
<1>4. /\ gate.sticky <=> bpm.gate.stickyToggle /\ pulses % 2 = 1
      /\ pulses = 0 => gate.hold = 0
      /\ pulses > 0 /\ ~gate.sticky => gate.hold = IF sincePulse < H THEN H - sincePulse ELSE 0
  BY DEF GateInv
<1>5. /\ gate'.sticky = IF pulse /\ bpm.gate.stickyToggle THEN ~gate.sticky ELSE gate.sticky
      /\ gate'.hold = IF pulse THEN H
                      ELSE IF gate.hold > 0 /\ ~(bpm.gate.stickyToggle /\ gate'.sticky)
                        THEN gate.hold - 1 ELSE gate.hold
      /\ gate'.sticky \in BOOLEAN
  BY <1>1, <1>2, <1>3 DEF Stepped
<1>6. CASE pulse
  <2>1. pulses' = pulses + 1 /\ sincePulse' = 0 /\ gate'.hold = H
    BY <1>2, <1>5, <1>6
  <2>2. pulses' % 2 = 1 <=> ~(pulses % 2 = 1)
    BY <1>1, <2>1
  <2>3. gate'.sticky <=> bpm.gate.stickyToggle /\ pulses' % 2 = 1
    BY <1>1, <1>4, <1>5, <1>6, <2>2
  <2>4. GateInv'
    BY <1>1, <1>2, <2>1, <2>3 DEF GateInv
  <2>5. GateWindow'
    <3> SUFFICES ASSUME bpm.mode \in {"Arbitrary", "Skip", "Invert"}
                 PROVE  audioBeat' <=>
                          \/ bpm.gate.stickyToggle /\ pulses' % 2 = 1
                          \/ /\ ~(bpm.gate.stickyToggle /\ bpm.gate.onlySticky)
                             /\ pulses' > 0 /\ sincePulse' < (IF H < 1 THEN 1 ELSE H)
      BY <1>2 DEF GateWindow
    <3>1. audioBeat' = Renders(gate', bpm.gate, pulse)
      BY <1>2 DEF Overrides
    <3> QED
      BY <1>1, <1>6, <2>1, <2>3, <3>1 DEF Renders
  <2> QED
    BY <2>4, <2>5
<1>7. CASE ~pulse
  <2>1. pulses' = pulses /\ sincePulse' = sincePulse + 1 /\ gate'.sticky = gate.sticky
    BY <1>2, <1>5, <1>7
  <2>2. ~gate.sticky => gate'.hold = IF gate.hold > 0 THEN gate.hold - 1 ELSE gate.hold
    BY <1>5, <1>7, <2>1
  <2>3. pulses > 0 /\ ~gate.sticky => gate'.hold = IF sincePulse + 1 < H THEN H - (sincePulse + 1) ELSE 0
    BY <1>1, <1>4, <2>2
  <2>4. pulses = 0 => gate'.hold = 0
    BY <1>4, <1>5, <1>7
  <2>5. GateInv'
    BY <1>1, <1>2, <1>4, <2>1, <2>3, <2>4 DEF GateInv
  <2>6. GateWindow'
    <3> SUFFICES ASSUME bpm.mode \in {"Arbitrary", "Skip", "Invert"}
                 PROVE  audioBeat' <=>
                          \/ bpm.gate.stickyToggle /\ pulses' % 2 = 1
                          \/ /\ ~(bpm.gate.stickyToggle /\ bpm.gate.onlySticky)
                             /\ pulses' > 0 /\ sincePulse' < (IF H < 1 THEN 1 ELSE H)
      BY <1>2 DEF GateWindow
    <3>1. audioBeat' = Renders(gate', bpm.gate, pulse)
      BY <1>2 DEF Overrides
    <3>2. audioBeat' <=> \/ bpm.gate.stickyToggle /\ gate'.sticky
                         \/ ~(bpm.gate.stickyToggle /\ bpm.gate.onlySticky) /\ gate'.hold > 0
      BY <1>1, <1>7, <3>1 DEF Renders
    <3>3. gate.sticky => bpm.gate.stickyToggle
      BY <1>4
    <3>4. CASE gate.sticky
      BY <1>4, <2>1, <3>2, <3>4
    <3>5. CASE ~gate.sticky
      <4>1. gate'.hold > 0 <=> pulses > 0 /\ sincePulse + 1 < (IF H < 1 THEN 1 ELSE H)
        BY <1>1, <2>3, <2>4, <3>5
      <4> QED
        BY <1>4, <2>1, <3>2, <3>5, <4>1
    <3> QED
      BY <3>4, <3>5
  <2> QED
    BY <2>5, <2>6
<1> QED
  BY <1>6, <1>7

LEMMA BpmStep ==
  BpmInv /\ GateInv /\ GateWindow /\ [CustomBpmNext]_customBpmVars => BpmInv' /\ GateInv' /\ GateWindow'
<1> SUFFICES ASSUME BpmInv, GateInv, GateWindow, [CustomBpmNext]_customBpmVars
             PROVE  BpmInv' /\ GateInv' /\ GateWindow'
  OBVIOUS
<1>1. ASSUME NEW s \in BpmSettings, CustomBpmSetParams(s) PROVE BpmInv' /\ GateInv' /\ GateWindow'
  <2>1. BpmInv'
    BY <1>1, BpmParamsStep
  <2>2. CASE s = bpm
    BY <1>1, <2>1, <2>2 DEF CustomBpmSetParams, GateInv, GateWindow
  <2>3. CASE s # bpm
    BY <1>1, <2>1, <2>3 DEF CustomBpmSetParams, GateInv, GateWindow, GateReset
  <2> QED
    BY <2>2, <2>3
<1>2. ASSUME NEW b \in BOOLEAN, NEW t \in Ticks, CustomBpmRender(b, t) PROVE BpmInv' /\ GateInv' /\ GateWindow'
  BY <1>2, BpmRenderStep, GateStep
<1>3. CASE UNCHANGED customBpmVars
  BY <1>3 DEF customBpmVars, BpmInv, GateInv, GateWindow, BeatsCounted
<1> QED
  BY <1>1, <1>2, <1>3 DEF CustomBpmNext

\* No pulse of the beat generator is lost or added, for every tempo and every
\* sequence of frame times.
THEOREM PulsesAreExact == CustomBpmSpec => []PulsesExact
<1>1. BpmInv => PulsesExact
  BY DEF BpmInv, PulsesExact, BeatsCounted
<1> QED
  BY <1>1, BpmStart, GateStart, BpmStep, PTL DEF CustomBpmSpec

\* The gate is open in exactly the frames its pulses pay for.
THEOREM GateOpensItsWindow == CustomBpmSpec => []GateWindow
<1> QED
  BY BpmStart, GateStart, BpmStep, PTL DEF CustomBpmSpec

-------------------------------------------------------------------------------
(* VideoDelay: the frames of the line. *)

\* A ring of frames from X.
LineOf(l, X) ==
  /\ l = [size |-> l.size, count |-> l.count, head |-> l.head, filled |-> l.filled, slots |-> l.slots]
  /\ l.count \in Nat /\ l.filled \in Nat
  /\ l.count > 0 => l.head \in 0..(l.count - 1)
  /\ l.slots \in [0..(l.count - 1) -> X]

LEMMA EmptyLine == ASSUME NEW size, NEW X PROVE LineOf(NoLine(size), X) /\ NoLine(size).size = size
BY DEF LineOf, NoLine

\* The frames of the line are kept, or there are none.
LEMMA LineForFrames ==
  ASSUME NEW l, NEW X, LineOf(l, X), Black \in X, NEW size, NEW frames \in Nat
  PROVE  /\ LineOf(LineFor(l, size, frames), IF l.size = size THEN X ELSE {Black})
         /\ LineFor(l, size, frames).size = size
<1> DEFINE Y    == IF l.size = size THEN X ELSE {Black}
           old  == IF l.size = size THEN l ELSE NoLine(size)
           kept == Least(old.filled, Least(old.count, frames))
<1>1. LineOf(old, Y) /\ old.size = size /\ Black \in Y
  BY EmptyLine
<1> HIDE DEF old, Y
<1>2. CASE frames = 0
  <2>1. LineFor(l, size, frames) = NoLine(size)
    BY <1>2 DEF LineFor
  <2> QED
    BY <2>1, EmptyLine DEF Y
<1>3. CASE frames # 0 /\ old.count = frames
  <2>1. LineFor(l, size, frames) = old
    BY <1>3 DEF LineFor, old
  <2> QED
    BY <2>1, <1>1 DEF Y
<1>4. CASE frames # 0 /\ old.count # frames
  <2> DEFINE new == [size |-> size, count |-> frames, head |-> 0, filled |-> kept,
                     slots |-> [i \in 0..(frames - 1) |->
                                  IF i < kept THEN old.slots[(old.head + i) % old.count] ELSE Black]]
  <2>1. LineFor(l, size, frames) = new
    BY <1>4 DEF LineFor, old
  <2>2. kept \in Nat /\ kept <= old.count
    BY <1>1 DEF LineOf, Least
  <2>3. ASSUME NEW i \in 0..(frames - 1), i < kept
        PROVE  old.slots[(old.head + i) % old.count] \in Y
    <3>1. old.count \in Nat \ {0} /\ old.head + i \in Nat
      BY <1>1, <2>2, <2>3 DEF LineOf
    <3>2. (old.head + i) % old.count \in 0..(old.count - 1)
      BY <3>1, DivideNat
    <3> QED
      BY <1>1, <3>2 DEF LineOf
  <2>4. new.slots \in [0..(frames - 1) -> Y]
    BY <2>3, <1>1
  <2>5. LineOf(new, Y) /\ new.size = size
    <3> HIDE DEF kept
    <3> QED
      BY <2>2, <2>4, <1>4 DEF LineOf
  <2> QED
    BY <2>1, <2>5 DEF Y
<1> QED
  BY <1>2, <1>3, <1>4

LEMMA LineSet ==
  ASSUME NEW l, NEW X, LineOf(l, X), NEW i \in 0..(l.count - 1), NEW frame, NEW n \in Nat,
         NEW h \in 0..(l.count - 1)
  PROVE  LineOf([l EXCEPT !.slots[i] = frame, !.filled = n, !.head = h], X \cup {frame})
<1>1. PICK new : new = [l EXCEPT !.slots[i] = frame, !.filled = n, !.head = h]
  OBVIOUS
<1>2. new = [size |-> l.size, count |-> l.count, head |-> h, filled |-> n,
             slots |-> [l.slots EXCEPT ![i] = frame]]
  <2>1. PICK s, c, d, f, m : l = [size |-> s, count |-> c, head |-> d, filled |-> f, slots |-> m]
    BY DEF LineOf
  <2>2. PICK l1 : l1 = [l EXCEPT !.slots[i] = frame]
    OBVIOUS
  <2>3. l1 = [size |-> s, count |-> c, head |-> d, filled |-> f, slots |-> [m EXCEPT ![i] = frame]]
    BY <2>1, <2>2
  <2>4. PICK l2 : l2 = [l1 EXCEPT !.filled = n]
    OBVIOUS
  <2>5. l2 = [size |-> s, count |-> c, head |-> d, filled |-> n, slots |-> [m EXCEPT ![i] = frame]]
    BY <2>3, <2>4
  <2>6. new = [l2 EXCEPT !.head = h]
    BY <1>1, <2>2, <2>4
  <2> QED
    BY <2>1, <2>5, <2>6
<1>3. [l.slots EXCEPT ![i] = frame] \in [0..(l.count - 1) -> X \cup {frame}]
  BY DEF LineOf
<1>4. l.count \in Nat
  BY DEF LineOf
<1> QED
  BY <1>1, <1>2, <1>3, <1>4 DEF LineOf

LEMMA LineWritten ==
  ASSUME NEW l, NEW X, LineOf(l, X), l.count > 0, NEW frame
  PROVE  LineOf(Swapped(l, frame), X \cup {frame}) /\ LineOf(Recorded(l, frame), X \cup {frame})
<1>1. l.count \in Nat \ {0} /\ l.filled \in Nat /\ l.head \in 0..(l.count - 1)
  BY DEF LineOf
<1>2. (l.head + 1) % l.count \in 0..(l.count - 1) /\ (l.head + l.filled) % l.count \in 0..(l.count - 1)
  BY <1>1, DivideNat, l.head + 1 \in Nat, l.head + l.filled \in Nat
<1>3. Least(l.filled + 1, l.count) \in Nat
  BY <1>1 DEF Least
<1>4. (IF l.filled < l.count THEN l.head ELSE (l.head + 1) % l.count) \in 0..(l.count - 1)
  BY <1>1, <1>2
<1>5. LineOf(Swapped(l, frame), X \cup {frame})
  BY <1>1, <1>2, <1>3, LineSet DEF Swapped
<1>6. LineOf(Recorded(l, frame), X \cup {frame})
  BY <1>2, <1>3, <1>4, LineSet DEF Recorded
<1> QED
  BY <1>5, <1>6

\* What may be shown: nothing, or a frame processed since the size last changed.
Showable == {Black} \cup ((resized + 1)..processed)

DelayInv ==
  /\ processed \in Nat /\ resized \in Nat /\ resized <= processed
  /\ settings.useBeats \in BOOLEAN /\ settings.base \in Nat
  /\ beat.since \in Nat /\ beat.delay \in Nat
  /\ LineOf(line, Showable)
  /\ shown \in Showable

LEMMA ClampedNatural ==
  ASSUME NEW v \in Int, NEW lo \in Nat, NEW hi \in Nat
  PROVE  Clamped(v, lo, hi) \in Nat
BY DEF Clamped, Least, Greatest

LEMMA DelayStart == VideoDelayInit => DelayInv
BY EmptyLine, VideoDelayAssumption DEF VideoDelayInit, DelayInv, Showable

LEMMA DelayParamsStep ==
  ASSUME DelayInv, NEW e \in BOOLEAN, NEW b \in BOOLEAN, NEW asked \in DelaysAsked,
         VideoDelaySetParams(e, b, asked)
  PROVE  DelayInv'
<1> DEFINE base == Clamped(asked, 0, IF b THEN BeatDelayMax ELSE FrameDelayMax)
<1>1. base \in Nat /\ Clamped(base, 0, HistoryMax) \in Nat
  <2>1. asked \in Int /\ BeatDelayMax \in Nat /\ FrameDelayMax \in Nat /\ HistoryMax \in Nat
    BY VideoDelayAssumption
  <2>2. (IF b THEN BeatDelayMax ELSE FrameDelayMax) \in Nat
    BY <2>1
  <2>3. base \in Nat
    BY <2>1, <2>2, ClampedNatural
  <2> HIDE DEF base
  <2> QED
    BY <2>1, <2>3, ClampedNatural
<1> HIDE DEF base
<1>2. /\ settings' = [enabled |-> e, useBeats |-> b, base |-> base]
      /\ UNCHANGED <<processed, shown, resized>>
      /\ \/ UNCHANGED <<beat, line>>
         \/ beat' = [since |-> 0, delay |-> 0] /\ line' = [line EXCEPT !.head = 0, !.filled = 0]
         \/ beat' = [since |-> 0, delay |-> Clamped(base, 0, HistoryMax)] /\ UNCHANGED line
  BY DEF VideoDelaySetParams, base
<1>3. LineOf([line EXCEPT !.head = 0, !.filled = 0], Showable)
  <2>1. PICK l1 : l1 = [line EXCEPT !.head = 0]
    OBVIOUS
  <2>2. l1 = [size |-> line.size, count |-> line.count, head |-> 0, filled |-> line.filled, slots |-> line.slots]
    BY <2>1 DEF DelayInv, LineOf
  <2>4. [l1 EXCEPT !.filled = 0] =
          [size |-> line.size, count |-> line.count, head |-> 0, filled |-> 0, slots |-> line.slots]
    BY <2>2
  <2>3. [line EXCEPT !.head = 0, !.filled = 0] =
          [size |-> line.size, count |-> line.count, head |-> 0, filled |-> 0, slots |-> line.slots]
    BY <2>1, <2>4
  <2> QED
    BY <2>3 DEF DelayInv, LineOf
<1>4. Showable' = Showable
  BY <1>2 DEF Showable
<1>5. beat'.since \in Nat /\ beat'.delay \in Nat
  BY <1>1, <1>2 DEF DelayInv
<1>6. LineOf(line, Showable)'
  BY <1>2, <1>3, <1>4 DEF DelayInv, LineOf
<1> QED
  BY <1>1, <1>2, <1>4, <1>5, <1>6 DEF DelayInv

LEMMA DelayRenderStep ==
  ASSUME DelayInv, NEW size \in FrameSizes, NEW onBeat \in BOOLEAN, VideoDelayRender(size, onBeat)
  PROVE  DelayInv'
<1>1. Delayed(onBeat).since \in Nat /\ Delayed(onBeat).delay \in Nat
  <2>1. HistoryMax \in Nat /\ beat.since \in Nat /\ beat.delay \in Nat /\ settings.base \in Nat
        /\ settings.useBeats \in BOOLEAN
    BY VideoDelayAssumption DEF DelayInv
  <2>2. beat.since * settings.base \in Nat
    BY <2>1
  <2>3. Clamped(settings.base, 0, HistoryMax) \in Nat
    BY <2>1, ClampedNatural, settings.base \in Int, 0 \in Nat
  <2>4. PICK p \in Nat : p = beat.since * settings.base
    BY <2>2
  <2>5. /\ Least((IF onBeat THEN 0 ELSE beat.since) + 1, HistoryMax) \in Nat
        /\ (IF onBeat THEN Least(p, HistoryMax) ELSE beat.delay) \in Nat
    BY <2>1 DEF Least
  <2> QED
    BY <2>1, <2>3, <2>4, <2>5 DEF Delayed
<1>2. beat' = Delayed(onBeat) /\ UNCHANGED settings
  BY DEF VideoDelayRender
<1>3. beat'.since \in Nat /\ beat'.delay \in Nat
  BY <1>1, <1>2
<1>4. CASE size = 0 \/ ~settings.enabled
  <2>1. UNCHANGED <<line, processed, shown, resized>>
    BY <1>4 DEF VideoDelayRender
  <2> QED
    BY <1>2, <1>3, <2>1 DEF DelayInv, LineOf, Showable
<1>5. CASE ~(size = 0 \/ ~settings.enabled)
  <2> DEFINE wanted == IF settings.useBeats THEN Greatest(beat'.delay, beat'.since) ELSE beat'.delay
             l      == LineFor(line, size, wanted)
             frame  == processed + 1
             X      == IF line.size = size THEN Showable ELSE {Black}
  <2>1. /\ processed' = frame
        /\ resized' = IF line.size = size THEN resized ELSE processed
        /\ \/ l.count > 0 /\ line' = Swapped(l, frame) /\ shown' = l.slots[l.head]
           \/ l.count > 0 /\ line' = Recorded(l, frame) /\ shown' = frame
           \/ line' = l /\ shown' = frame
    BY <1>5 DEF VideoDelayRender
  <2>2. wanted \in Nat
    BY <1>3 DEF Greatest
  <2>3. LineOf(l, X)
    <3>1. LineOf(line, Showable) /\ Black \in Showable
      BY DEF DelayInv, Showable
    <3> HIDE DEF wanted
    <3> QED
      BY <2>2, <3>1, LineForFrames
  <2>4. X \cup {frame} = Showable' /\ X \subseteq Showable'
    <3>1. processed \in Nat /\ resized \in Nat /\ resized <= processed
      BY DEF DelayInv
    <3>2. CASE line.size = size
      BY <2>1, <3>1, <3>2 DEF Showable
    <3>3. CASE line.size # size
      BY <2>1, <3>1, <3>3 DEF Showable, Black
    <3> QED
      BY <3>2, <3>3
  <2> HIDE DEF l, X, wanted
  <2>5. LineOf(line', Showable')
    <3>1. CASE l.count > 0 /\ line' = Swapped(l, frame)
      BY <3>1, <2>3, <2>4, LineWritten
    <3>2. CASE l.count > 0 /\ line' = Recorded(l, frame)
      BY <3>2, <2>3, <2>4, LineWritten
    <3>3. CASE line' = l
      BY <3>3, <2>3, <2>4 DEF LineOf
    <3> QED
      BY <2>1, <3>1, <3>2, <3>3
  <2>6. shown' \in Showable'
    <3>1. ASSUME l.count > 0 PROVE l.slots[l.head] \in X
      BY <2>3, <3>1 DEF LineOf
    <3> QED
      BY <2>1, <2>4, <3>1
  <2>7. processed' \in Nat /\ resized' \in Nat /\ resized' <= processed'
    BY <2>1 DEF DelayInv
  <2> QED
    BY <1>2, <1>3, <2>5, <2>6, <2>7 DEF DelayInv, LineOf
<1> QED
  BY <1>4, <1>5

LEMMA DelayStep == DelayInv /\ [VideoDelayNext]_videoDelayVars => DelayInv'
<1> SUFFICES ASSUME DelayInv, [VideoDelayNext]_videoDelayVars PROVE DelayInv'
  OBVIOUS
<1>1. CASE VideoDelayNext
  BY <1>1, DelayParamsStep, DelayRenderStep DEF VideoDelayNext
<1>2. CASE UNCHANGED videoDelayVars
  BY <1>2 DEF videoDelayVars, DelayInv, LineOf, Showable
<1> QED
  BY <1>1, <1>2

\* A frame recorded in another size is never shown, whatever the sizes, the delays and
\* the limits of the line.
THEOREM OnlyOwnSizeIsShown == VideoDelaySpec => []OwnSizeOnly
<1>1. DelayInv => OwnSizeOnly
  BY DEF DelayInv, Showable, OwnSizeOnly, Black
<1> QED
  BY <1>1, DelayStart, DelayStep, PTL DEF VideoDelaySpec


\* No line is longer than kMaxHistoryFrames, nor filled beyond its length.
DelayBounded ==
  /\ settings \in [enabled : BOOLEAN, useBeats : BOOLEAN, base : 0..Greatest(FrameDelayMax, BeatDelayMax)]
  /\ beat \in [since : 0..HistoryMax, delay : 0..HistoryMax]
  /\ line.count \in 0..HistoryMax
  /\ line.filled \in 0..line.count

LEMMA ClampedWithin ==
  ASSUME NEW v \in Int, NEW hi \in Nat
  PROVE  Clamped(v, 0, hi) \in 0..hi
BY DEF Clamped, Least, Greatest

\* ensureBuffer keeps no more frames than there is room for.
LEMMA LineForBounds ==
  ASSUME NEW l, l.count \in Nat, l.filled \in 0..l.count, NEW size, NEW frames \in 0..HistoryMax
  PROVE  LET n == LineFor(l, size, frames) IN n.count = frames /\ n.filled \in 0..frames
<1> DEFINE old  == IF l.size = size THEN l ELSE NoLine(size)
           kept == Least(old.filled, Least(old.count, frames))
<1>1. old.count \in Nat /\ old.filled \in 0..old.count /\ frames \in Nat
  BY VideoDelayAssumption DEF NoLine
<1> HIDE DEF old
<1>2. kept \in 0..frames
  BY <1>1 DEF Least
<1> HIDE DEF kept
<1>3. CASE frames = 0
  BY <1>3 DEF LineFor, NoLine
<1>4. CASE frames # 0 /\ old.count = frames
  <2>1. LineFor(l, size, frames) = old
    BY <1>4 DEF LineFor, old
  <2> QED
    BY <2>1, <1>1, <1>4
<1>5. CASE frames # 0 /\ old.count # frames
  <2>1. LineFor(l, size, frames) =
          [size |-> size, count |-> frames, head |-> 0, filled |-> kept,
           slots |-> [i \in 0..(frames - 1) |->
                        IF i < kept THEN old.slots[(old.head + i) % old.count] ELSE Black]]
    BY <1>5 DEF LineFor, old, kept
  <2>2. LineFor(l, size, frames).count = frames /\ LineFor(l, size, frames).filled = kept
    BY <2>1
  <2> QED
    BY <2>2, <1>2
<1> QED
  BY <1>3, <1>4, <1>5

\* Writing a frame does not change the length and fills one slot at most.
LEMMA WrittenBounds ==
  ASSUME NEW l, NEW X, LineOf(l, X), NEW frame
  PROVE  /\ Swapped(l, frame).count = l.count /\ Recorded(l, frame).count = l.count
         /\ Swapped(l, frame).filled = Least(l.filled + 1, l.count)
         /\ Recorded(l, frame).filled = Least(l.filled + 1, l.count)
<1>1. PICK s, c, d, f, m : l = [size |-> s, count |-> c, head |-> d, filled |-> f, slots |-> m]
  BY DEF LineOf
<1> QED
  BY <1>1 DEF Swapped, Recorded

LEMMA DelayBoundedFirst == VideoDelayInit => DelayBounded
<1> SUFFICES ASSUME VideoDelayInit PROVE DelayBounded
  OBVIOUS
<1>1. DefaultDelay \in 0..FrameDelayMax /\ FrameDelayMax \in 0..HistoryMax /\ HistoryMax \in Nat
      /\ BeatDelayMax \in Nat
  BY VideoDelayAssumption
<1>2. DefaultDelay \in 0..HistoryMax /\ DefaultDelay \in 0..Greatest(FrameDelayMax, BeatDelayMax)
  BY <1>1 DEF Greatest
<1>3. line.count = 0 /\ line.filled = 0
  BY DEF VideoDelayInit, NoLine
<1> QED
  BY <1>1, <1>2, <1>3 DEF VideoDelayInit, DelayBounded

LEMMA DelayBoundedParams ==
  ASSUME DelayInv, DelayBounded, NEW e \in BOOLEAN, NEW b \in BOOLEAN, NEW asked \in DelaysAsked,
         VideoDelaySetParams(e, b, asked)
  PROVE  DelayBounded'
<1> DEFINE base == Clamped(asked, 0, IF b THEN BeatDelayMax ELSE FrameDelayMax)
<1>1. asked \in Int /\ BeatDelayMax \in Nat /\ FrameDelayMax \in Nat /\ HistoryMax \in Nat
  BY VideoDelayAssumption
<1>2. base \in 0..(IF b THEN BeatDelayMax ELSE FrameDelayMax)
  <2>1. (IF b THEN BeatDelayMax ELSE FrameDelayMax) \in Nat
    BY <1>1
  <2> QED
    BY <1>1, <2>1, ClampedWithin
<1> HIDE DEF base
<1>3. base \in 0..Greatest(FrameDelayMax, BeatDelayMax) /\ base \in Int
  BY <1>1, <1>2 DEF Greatest
<1>4. Clamped(base, 0, HistoryMax) \in 0..HistoryMax
  BY <1>1, <1>3, ClampedWithin
<1>5. /\ settings' = [enabled |-> e, useBeats |-> b, base |-> base]
      /\ \/ UNCHANGED <<beat, line>>
         \/ beat' = [since |-> 0, delay |-> 0] /\ line' = [line EXCEPT !.head = 0, !.filled = 0]
         \/ beat' = [since |-> 0, delay |-> Clamped(base, 0, HistoryMax)] /\ UNCHANGED line
  BY DEF VideoDelaySetParams, base
<1>6. beat' \in [since : 0..HistoryMax, delay : 0..HistoryMax]
  BY <1>1, <1>4, <1>5 DEF DelayBounded
<1>7. line'.count \in 0..HistoryMax /\ line'.filled \in 0..line'.count
  <2>1. CASE UNCHANGED line
    BY <2>1 DEF DelayBounded
  <2>2. CASE line' = [line EXCEPT !.head = 0, !.filled = 0]
    <3>1. PICK s, c, d, f, m : line = [size |-> s, count |-> c, head |-> d, filled |-> f, slots |-> m]
      BY DEF DelayInv, LineOf
    <3>2. line'.count = line.count /\ line'.filled = 0
      BY <3>1, <2>2
    <3> QED
      BY <3>2 DEF DelayBounded
  <2> QED
    BY <1>5, <2>1, <2>2
<1> QED
  BY <1>3, <1>5, <1>6, <1>7 DEF DelayBounded

LEMMA DelayBoundedRender ==
  ASSUME DelayInv, DelayBounded, NEW size \in FrameSizes, NEW onBeat \in BOOLEAN,
         VideoDelayRender(size, onBeat)
  PROVE  DelayBounded'
<1>1. /\ HistoryMax \in Nat /\ settings.base \in Nat /\ settings.useBeats \in BOOLEAN
      /\ beat.since \in 0..HistoryMax /\ beat.delay \in 0..HistoryMax
  BY VideoDelayAssumption DEF DelayInv, DelayBounded
<1>2. Delayed(onBeat) \in [since : 0..HistoryMax, delay : 0..HistoryMax]
  <2>1. PICK p \in Nat : p = beat.since * settings.base
    BY <1>1
  <2>2. /\ Least((IF onBeat THEN 0 ELSE beat.since) + 1, HistoryMax) \in 0..HistoryMax
        /\ (IF onBeat THEN Least(p, HistoryMax) ELSE beat.delay) \in 0..HistoryMax
    BY <1>1 DEF Least
  <2>3. Clamped(settings.base, 0, HistoryMax) \in 0..HistoryMax /\ 0 \in 0..HistoryMax
    <3>1. settings.base \in Int /\ HistoryMax \in Nat
      BY <1>1
    <3>2. Clamped(settings.base, 0, HistoryMax) \in 0..HistoryMax
      BY <3>1, ClampedWithin
    <3> QED
      BY <3>1, <3>2
  <2> QED
    BY <1>1, <2>1, <2>2, <2>3 DEF Delayed
<1>3. beat' \in [since : 0..HistoryMax, delay : 0..HistoryMax] /\ settings' = settings
  BY <1>2 DEF VideoDelayRender
<1>4. CASE UNCHANGED line
  BY <1>3, <1>4 DEF DelayBounded
<1>5. CASE ~(size = 0 \/ ~settings.enabled)
  <2> DEFINE wanted == IF settings.useBeats THEN Greatest(beat'.delay, beat'.since) ELSE beat'.delay
             l      == LineFor(line, size, wanted)
             frame  == processed + 1
  <2>1. \/ line' = Swapped(l, frame)
        \/ line' = Recorded(l, frame)
        \/ line' = l
    BY <1>5 DEF VideoDelayRender
  <2>2. wanted \in 0..HistoryMax
    BY <1>1, <1>3 DEF Greatest
  <2> HIDE DEF wanted
  <2>3. l.count \in 0..HistoryMax /\ l.filled \in 0..l.count
    BY <2>2, LineForBounds DEF DelayBounded
  <2>4. PICK X : LineOf(l, X)
    <3>1. LineOf(line, Showable) /\ Black \in Showable /\ wanted \in Nat
      BY <2>2 DEF DelayInv, Showable
    <3> QED
      BY <3>1, LineForFrames
  <2> HIDE DEF l
  <2>5. line'.count = l.count /\ line'.filled \in {l.filled, Least(l.filled + 1, l.count)}
    BY <2>1, <2>4, WrittenBounds
  <2>6. Least(l.filled + 1, l.count) \in 0..l.count
    BY <2>3 DEF Least
  <2> QED
    BY <1>3, <2>3, <2>5, <2>6 DEF DelayBounded
<1> QED
  BY <1>4, <1>5 DEF VideoDelayRender

\* The line holds at most kMaxHistoryFrames frames and its head is in it, however the
\* settings, the sizes and the beats change: no index of the ring is out of range.
THEOREM LineIsBounded == VideoDelaySpec => []VideoDelayTypeOK
<1>1. VideoDelayInit => DelayInv /\ DelayBounded
  BY DelayStart, DelayBoundedFirst
<1>2. DelayInv /\ DelayBounded /\ [VideoDelayNext]_videoDelayVars => DelayInv' /\ DelayBounded'
  <2>1. SUFFICES ASSUME DelayInv, DelayBounded, [VideoDelayNext]_videoDelayVars PROVE DelayBounded'
    BY DelayStep
  <2>2. CASE VideoDelayNext
    BY <2>1, <2>2, DelayBoundedParams, DelayBoundedRender DEF VideoDelayNext
  <2>3. CASE UNCHANGED videoDelayVars
    BY <2>1, <2>3 DEF DelayBounded, videoDelayVars
  <2> QED
    BY <2>1, <2>2, <2>3
<1>3. DelayInv /\ DelayBounded => VideoDelayTypeOK
  <2>1. SUFFICES ASSUME DelayInv, DelayBounded PROVE VideoDelayTypeOK
    OBVIOUS
  <2>2. Showable \subseteq 0..processed
    BY <2>1 DEF DelayInv, Showable, Black
  <2>3. line.slots \in [0..(line.count - 1) -> 0..processed]
    BY <2>1, <2>2 DEF DelayInv, LineOf
  <2> QED
    BY <2>1, <2>3 DEF DelayInv, DelayBounded, LineOf, VideoDelayTypeOK
<1> QED
  BY <1>1, <1>2, <1>3, PTL DEF VideoDelaySpec

\* The slot of the frame processed j frames before the last one.
Back(l, j) == IF l.head > j THEN l.head - 1 - j ELSE l.head + l.count - 1 - j

\* As long as the delay and the size have not changed, the last frames are in the line.
SteadyInv ==
  /\ steady \in Int /\ steady >= -1
  /\ steady >= 0 /\ beat.delay > 0 =>
       /\ line.count = beat.delay
       /\ \A j \in 0..(line.count - 1) : j <= steady => line.slots[Back(line, j)] = processed - j

\* What a line is after a frame took the place of the oldest one.
LEMMA SwappedLine ==
  ASSUME NEW l, NEW X, LineOf(l, X), l.count > 0, NEW frame
  PROVE  /\ Swapped(l, frame).count = l.count
         /\ Swapped(l, frame).head = IF l.head = l.count - 1 THEN 0 ELSE l.head + 1
         /\ Swapped(l, frame).slots = [l.slots EXCEPT ![l.head] = frame]
<1>1. l.count \in Nat \ {0} /\ l.head \in 0..(l.count - 1)
  BY DEF LineOf
<1>2. (l.head + 1) % l.count = IF l.head = l.count - 1 THEN 0 ELSE l.head + 1
  BY <1>1, OneFurther
<1>3. PICK m : m = (l.head + 1) % l.count
  OBVIOUS
<1>4. PICK f : f = Least(l.filled + 1, l.count)
  OBVIOUS
<1>5. Swapped(l, frame) = [l EXCEPT !.slots[l.head] = frame, !.filled = f, !.head = m]
  BY <1>3, <1>4 DEF Swapped
<1>6. PICK l1 : l1 = [l EXCEPT !.slots[l.head] = frame]
  OBVIOUS
<1>7. l1 = [size |-> l.size, count |-> l.count, head |-> l.head, filled |-> l.filled,
            slots |-> [l.slots EXCEPT ![l.head] = frame]]
  BY <1>6 DEF LineOf
<1>8. PICK l2 : l2 = [l1 EXCEPT !.filled = f]
  OBVIOUS
<1>9. l2 = [size |-> l.size, count |-> l.count, head |-> l.head, filled |-> f,
            slots |-> [l.slots EXCEPT ![l.head] = frame]]
  BY <1>7, <1>8
<1>10. [l2 EXCEPT !.head = m] =
         [size |-> l.size, count |-> l.count, head |-> m, filled |-> f,
          slots |-> [l.slots EXCEPT ![l.head] = frame]]
  BY <1>9
<1>11. Swapped(l, frame) =
         [size |-> l.size, count |-> l.count, head |-> m, filled |-> f,
          slots |-> [l.slots EXCEPT ![l.head] = frame]]
  BY <1>5, <1>6, <1>8, <1>10
<1> QED
  BY <1>2, <1>3, <1>11

LEMMA SteadyStart == VideoDelayInit => SteadyInv
BY DEF VideoDelayInit, SteadyInv

LEMMA SteadyParamsStep ==
  ASSUME DelayInv, SteadyInv, NEW e \in BOOLEAN, NEW b \in BOOLEAN, NEW asked \in DelaysAsked,
         VideoDelaySetParams(e, b, asked)
  PROVE  SteadyInv'
<1>1. /\ UNCHANGED <<processed, shown, resized>>
      /\ steady' = IF b = settings.useBeats /\ beat' = beat THEN steady ELSE -1
  BY DEF VideoDelaySetParams
<1>2. b = settings.useBeats => UNCHANGED line
  BY DEF VideoDelaySetParams, DelayInv
<1> QED
  BY <1>1, <1>2 DEF SteadyInv, Back

\* A frame that is processed is put into the line behind those before it, and shows the
\* one that the delay says if that was processed in the same steady stretch.
LEMMA SteadyRenderStep ==
  ASSUME DelayInv, SteadyInv, DelayInv', NEW size \in FrameSizes, NEW onBeat \in BOOLEAN,
         VideoDelayRender(size, onBeat)
  PROVE  /\ SteadyInv'
         /\ processed' > processed /\ steady' >= beat'.delay => shown' = processed' - beat'.delay
<1>0. beat'.since \in Nat /\ beat'.delay \in Nat /\ processed \in Nat
  BY DEF DelayInv
<1>1. CASE size = 0 \/ ~settings.enabled
  <2>1. /\ UNCHANGED <<line, processed, shown, resized>>
        /\ steady' = IF beat'.delay = beat.delay THEN steady ELSE -1
    BY <1>1 DEF VideoDelayRender
  <2> QED
    BY <2>1, <1>0 DEF SteadyInv, Back
<1>2. CASE ~(size = 0 \/ ~settings.enabled)
  <2> DEFINE wanted == IF settings.useBeats THEN Greatest(beat'.delay, beat'.since) ELSE beat'.delay
             l      == LineFor(line, size, wanted)
             frame  == processed + 1
  <2>1. /\ processed' = frame
        /\ steady' = IF wanted # beat'.delay THEN -1
                     ELSE IF line.size # size \/ beat'.delay # beat.delay THEN 0
                     ELSE steady + 1
        /\ IF l.count > 0 /\ beat'.delay > 0
             THEN line' = Swapped(l, frame) /\ shown' = l.slots[l.head]
             ELSE shown' = frame
    BY <1>2 DEF VideoDelayRender
  <2>2. PICK d \in Nat : d = beat'.delay
    BY <1>0
  <2>3. CASE wanted # d \/ d = 0
    <3>1. SteadyInv'
      BY <2>1, <2>2, <2>3 DEF SteadyInv
    <3> QED
      BY <3>1, <2>1, <2>2, <2>3, <1>0
  <2>4. CASE wanted = d /\ d > 0
    <3>1. PICK X : LineOf(l, X)
      <4>1. LineOf(line, Showable) /\ Black \in Showable
        BY DEF DelayInv, Showable
      <4> HIDE DEF wanted
      <4>2. LineOf(l, IF line.size = size THEN Showable ELSE {Black})
        BY <2>4, <4>1, LineForFrames
      <4> QED
        BY <4>2
    <3>2. l.count = d
      BY <2>4 DEF LineFor
    <3>3. steady + 1 >= 0 /\ steady \in Int
      BY DEF SteadyInv
    <3>4. CASE line.size = size /\ beat.delay = d /\ steady >= 0
      <4>1. l = line
        BY <2>4, <3>4 DEF LineFor, SteadyInv
      <4>2. /\ steady' = steady + 1
            /\ \A j \in 0..(d - 1) : j <= steady => l.slots[Back(l, j)] = processed - j
        BY <2>1, <2>2, <2>4, <3>2, <3>4, <4>1 DEF SteadyInv
      <4> HIDE DEF l, wanted
      <4>3. l.head \in 0..(d - 1) /\ l.slots \in [0..(d - 1) -> X]
        BY <3>1, <3>2, <2>4 DEF LineOf
      <4>4. /\ line'.count = d /\ line'.head = IF l.head = d - 1 THEN 0 ELSE l.head + 1
            /\ line'.slots = [l.slots EXCEPT ![l.head] = frame] /\ shown' = l.slots[l.head]
        BY <2>1, <2>2, <2>4, <3>1, <3>2, SwappedLine
      <4>5. ASSUME NEW j \in 0..(d - 1), j <= steady'
            PROVE  line'.slots[Back(line', j)] = processed' - j
        <5>1. CASE j = 0
          <6>1. Back(line', j) = l.head
            BY <4>3, <4>4, <5>1 DEF Back
          <6> QED
            BY <4>3, <4>4, <5>1, <6>1, <2>1, <1>0
        <5>2. CASE j > 0
          <6>1. PICK h : h = l.head
            OBVIOUS
          <6>2. h \in 0..(d - 1) /\ j \in 1..(d - 1)
            BY <6>1, <4>3, <5>2
          <6>3. Back(l, j - 1) = IF h > j - 1 THEN h - 1 - (j - 1) ELSE h + d - 1 - (j - 1)
            BY <6>1, <3>2 DEF Back
          <6>4. Back(line', j) = LET g == IF h = d - 1 THEN 0 ELSE h + 1
                                 IN IF g > j THEN g - 1 - j ELSE g + d - 1 - j
            BY <6>1, <4>4 DEF Back
          <6>5. Back(line', j) = Back(l, j - 1) /\ Back(l, j - 1) \in 0..(d - 1) /\ Back(l, j - 1) # h
            BY <6>2, <6>3, <6>4
          <6>6. l.slots[Back(l, j - 1)] = processed - (j - 1)
            BY <4>2, <4>5, <5>2, <3>3
          <6> QED
            BY <4>3, <4>4, <5>2, <6>1, <6>5, <6>6, <2>1, <1>0
        <5> QED
          BY <5>1, <5>2
      <4>6. SteadyInv'
        BY <2>2, <3>3, <4>2, <4>4, <4>5 DEF SteadyInv
      <4>7. ASSUME steady' >= d PROVE shown' = processed' - d
        <5>1. Back(l, d - 1) = l.head
          BY <4>3, <3>2, <2>4 DEF Back
        <5>2. l.slots[Back(l, d - 1)] = processed - (d - 1)
          BY <4>2, <4>7, <2>4, <3>3
        <5> QED
          BY <4>4, <5>1, <5>2, <2>1, <1>0, <2>4
      <4> QED
        BY <4>6, <4>7, <2>2
    <3>5. CASE ~(line.size = size /\ beat.delay = d /\ steady >= 0)
      <4>1. steady' = 0
        BY <2>1, <2>2, <2>4, <3>5, <3>3
      <4> HIDE DEF l, wanted
      <4>2. l.head \in 0..(d - 1) /\ l.slots \in [0..(d - 1) -> X]
        BY <3>1, <3>2, <2>4 DEF LineOf
      <4>3. /\ line'.count = d /\ line'.head = IF l.head = d - 1 THEN 0 ELSE l.head + 1
            /\ line'.slots = [l.slots EXCEPT ![l.head] = frame]
        BY <2>1, <2>2, <2>4, <3>1, <3>2, SwappedLine
      <4>4. Back(line', 0) = l.head
        BY <4>2, <4>3 DEF Back
      <4>5. line'.slots[Back(line', 0)] = processed' - 0
        BY <4>2, <4>3, <4>4, <2>1, <1>0
      <4>6. SteadyInv'
        BY <2>2, <4>1, <4>3, <4>5 DEF SteadyInv
      <4> QED
        BY <4>1, <4>6, <2>2, <2>4
    <3> QED
      BY <3>4, <3>5
  <2> QED
    BY <2>2, <2>3, <2>4
<1> QED
  BY <1>1, <1>2

LEMMA SteadyStep ==
  DelayInv /\ SteadyInv /\ DelayInv' /\ [VideoDelayNext]_videoDelayVars =>
    /\ SteadyInv'
    /\ ((processed' > processed /\ steady' >= beat'.delay) => shown' = processed' - beat'.delay)
<1> SUFFICES ASSUME DelayInv, SteadyInv, DelayInv', [VideoDelayNext]_videoDelayVars
             PROVE  /\ SteadyInv'
                    /\ (processed' > processed /\ steady' >= beat'.delay) => shown' = processed' - beat'.delay
  OBVIOUS
<1>0. processed \in Nat
  BY DEF DelayInv
<1>1. ASSUME NEW e \in BOOLEAN, NEW b \in BOOLEAN, NEW d \in DelaysAsked, VideoDelaySetParams(e, b, d)
      PROVE  SteadyInv' /\ ~(processed' > processed)
  <2>1. processed' = processed
    BY <1>1 DEF VideoDelaySetParams
  <2> QED
    BY <1>0, <1>1, <2>1, SteadyParamsStep
<1>2. CASE UNCHANGED videoDelayVars
  BY <1>0, <1>2 DEF videoDelayVars, SteadyInv, Back
<1> QED
  BY <1>1, <1>2, SteadyRenderStep DEF VideoDelayNext

\* With a steady delay and size, each frame shows the one that the delay says, for every
\* length of the line and whatever happened before.
THEOREM DelayIsKept == VideoDelaySpec => ShownIsDelayed
BY DelayStart, DelayStep, SteadyStart, SteadyStep, PTL DEF VideoDelaySpec, ShownIsDelayed

-------------------------------------------------------------------------------
(* MultiDelay: the frames of the rings. *)

\* A ring of frames from X: where it can be used, both its positions are inside it.
RingOf(b, X) ==
  /\ b = [stride |-> b.stride, count |-> b.count, read |-> b.read, write |-> b.write, slots |-> b.slots]
  /\ b.stride \in Nat /\ b.count \in Nat
  /\ Usable(b) => /\ b.read \in 0..(b.count - 1) /\ b.write \in 0..(b.count - 1)
                  /\ b.slots \in [0..(b.count - 1) -> X]

LEMMA NoRingOf == ASSUME NEW X PROVE RingOf(NoRing, X)
BY DEF RingOf, NoRing, Usable

LEMMA AdvancedRing ==
  ASSUME NEW b, NEW X, RingOf(b, X)
  PROVE  RingOf(Advanced(b), X)
<1>1. CASE ~Usable(b)
  <2>1. Advanced(b) = b
    BY <1>1 DEF Advanced, Usable, RingOf
  <2> QED
    BY <2>1
<1>2. CASE Usable(b)
  <2>1. PICK r, w : r = (b.read + 1) % b.count /\ w = (b.write + 1) % b.count
    OBVIOUS
  <2>2. r \in 0..(b.count - 1) /\ w \in 0..(b.count - 1)
    <3>1. b.count \in Nat \ {0} /\ b.read + 1 \in Nat /\ b.write + 1 \in Nat
      BY <1>2 DEF Usable, RingOf
    <3> QED
      BY <2>1, <3>1, DivideNat
  <2>3. PICK b1 : b1 = [b EXCEPT !.read = r]
    OBVIOUS
  <2>4. b1 = [stride |-> b.stride, count |-> b.count, read |-> r, write |-> b.write, slots |-> b.slots]
    BY <2>3 DEF RingOf
  <2>5. [b1 EXCEPT !.write = w] =
          [stride |-> b.stride, count |-> b.count, read |-> r, write |-> w, slots |-> b.slots]
    BY <2>4
  <2>6. Advanced(b) = [b EXCEPT !.read = r, !.write = w]
    BY <1>2, <2>1 DEF Advanced, Usable, RingOf
  <2>7. Advanced(b) =
          [stride |-> b.stride, count |-> b.count, read |-> r, write |-> w, slots |-> b.slots]
    BY <2>3, <2>5, <2>6
  <2> QED
    BY <1>2, <2>2, <2>7 DEF RingOf, Usable
<1> QED
  BY <1>1, <1>2

LEMMA ConfiguredRing ==
  ASSUME NEW b, NEW X, RingOf(b, X), NoFrame \in X,
         NEW stride \in Nat, NEW count \in Nat \ {0}, NEW force \in BOOLEAN
  PROVE  RingOf(Configured(b, stride, count, force), IF force THEN {NoFrame} ELSE X)
<1> DEFINE Y == IF force THEN {NoFrame} ELSE X
<1>1. CASE stride = 0 \/ count <= 1
  <2>1. PICK b1 : b1 = [NoRing EXCEPT !.stride = stride]
    OBVIOUS
  <2>2. b1 = [stride |-> stride, count |-> 0, read |-> 0, write |-> 0, slots |-> [i \in {} |-> NoFrame]]
    BY <2>1 DEF NoRing
  <2>3. PICK b2 : b2 = [b1 EXCEPT !.count = count]
    OBVIOUS
  <2>4. b2 = [stride |-> stride, count |-> count, read |-> 0, write |-> 0, slots |-> [i \in {} |-> NoFrame]]
    BY <2>2, <2>3
  <2>5. [b2 EXCEPT !.write = count - 1] =
          [stride |-> stride, count |-> count, read |-> 0, write |-> count - 1, slots |-> [i \in {} |-> NoFrame]]
    BY <2>4
  <2>6. Configured(b, stride, count, force) = [b2 EXCEPT !.write = count - 1]
    BY <1>1, <2>1, <2>3 DEF Configured
  <2> QED
    BY <1>1, <2>5, <2>6 DEF RingOf, Usable
<1>2. CASE ~(stride = 0 \/ count <= 1) /\ ~force /\ b.stride = stride /\ b.count = count
  BY <1>2 DEF Configured
<1>3. CASE ~(stride = 0 \/ count <= 1) /\ ~(~force /\ b.stride = stride /\ b.count = count)
  <2> DEFINE old(i) == ~force /\ b.stride > 0 /\ b.count > 1 /\ i < b.count
             new == [stride |-> stride, count |-> count, read |-> 0, write |-> count - 1,
                     slots |-> [i \in 0..(count - 1) |->
                                  IF old(i) THEN b.slots[(b.read + i) % b.count] ELSE NoFrame]]
  <2>1. Configured(b, stride, count, force) = new
    BY <1>3 DEF Configured
  <2>2. ASSUME NEW i \in 0..(count - 1), old(i)
        PROVE  b.slots[(b.read + i) % b.count] \in Y
    <3>1. b.count \in Nat \ {0} /\ b.read + i \in Nat /\ Usable(b)
      BY <2>2 DEF RingOf, Usable
    <3>2. (b.read + i) % b.count \in 0..(b.count - 1)
      BY <3>1, DivideNat
    <3> QED
      BY <2>2, <3>1, <3>2 DEF RingOf
  <2>3. NoFrame \in Y
    OBVIOUS
  <2> HIDE DEF old, Y
  <2>4. new.slots \in [0..(count - 1) -> Y]
    BY <2>2, <2>3
  <2>5. RingOf(new, Y)
    BY <2>4, <1>3 DEF RingOf, Usable
  <2> QED
    BY <2>1, <2>5 DEF Y
<1> QED
  BY <1>1, <1>2, <1>3

LEMMA SlotWritten ==
  ASSUME NEW stride, NEW count, NEW read, NEW write, NEW ss, NEW w, NEW frame
  PROVE  [[stride |-> stride, count |-> count, read |-> read, write |-> write, slots |-> ss]
            EXCEPT !.slots[w] = frame]
           = [stride |-> stride, count |-> count, read |-> read, write |-> write,
              slots |-> [ss EXCEPT ![w] = frame]]
BY SMT

LEMMA StoredRing ==
  ASSUME NEW b, NEW X, RingOf(b, X), Usable(b), NEW frame
  PROVE  RingOf([b EXCEPT !.slots[b.write] = frame], X \cup {frame})
<1>1. [b EXCEPT !.slots[b.write] = frame] =
        [stride |-> b.stride, count |-> b.count, read |-> b.read, write |-> b.write,
         slots |-> [b.slots EXCEPT ![b.write] = frame]]
  <2>1. b = [stride |-> b.stride, count |-> b.count, read |-> b.read, write |-> b.write,
             slots |-> b.slots]
    BY DEF RingOf
  <2>2. [[stride |-> b.stride, count |-> b.count, read |-> b.read, write |-> b.write,
          slots |-> b.slots] EXCEPT !.slots[b.write] = frame] =
        [stride |-> b.stride, count |-> b.count, read |-> b.read, write |-> b.write,
         slots |-> [b.slots EXCEPT ![b.write] = frame]]
    BY SlotWritten
  <2> QED
    BY <2>1, <2>2, Zenon
<1>2. [b.slots EXCEPT ![b.write] = frame] \in [0..(b.count - 1) -> X \cup {frame}]
  BY DEF RingOf
<1> QED
  BY <1>1, <1>2 DEF RingOf, Usable

-------------------------------------------------------------------------------
SharedTyped(s) ==
  /\ s = [dirty |-> s.dirty, haveFrame |-> s.haveFrame, lastFrame |-> s.lastFrame,
          lastSize |-> s.lastSize, since |-> s.since, perBeat |-> s.perBeat]
  /\ s.dirty \in BOOLEAN /\ s.haveFrame \in BOOLEAN
  /\ s.since \in Nat /\ s.perBeat \in Nat

\* Each ring holds only frames that were stored to it since all rings were emptied.
StoredInv ==
  /\ context.size \in Nat
  /\ configs \in [Rings -> [useBeat : BOOLEAN, delay : Nat]]
  /\ SharedTyped(shared)
  /\ begun \in Nat /\ emptied \in 0..begun
  /\ DOMAIN rings = Rings /\ rings = [r \in Rings |-> rings[r]]
  /\ stores = [r \in Rings |-> stores[r]]
  /\ \A r \in Rings : /\ RingOf(rings[r], {NoFrame} \cup stores[r])
                      /\ stores[r] \subseteq emptied..begun

LEMMA StoredStart == MultiDelayInit => StoredInv /\ FetchedSinceEmptied
<1> SUFFICES ASSUME MultiDelayInit PROVE StoredInv /\ FetchedSinceEmptied
  OBVIOUS
<1>1. SharedTyped(shared)
  BY DEF MultiDelayInit, Fresh, SharedTyped
<1>2. ASSUME NEW r \in Rings
      PROVE  RingOf(rings[r], {NoFrame} \cup stores[r]) /\ stores[r] \subseteq emptied..begun
  BY NoRingOf DEF MultiDelayInit
<1>3. configs \in [Rings -> [useBeat : BOOLEAN, delay : Nat]]
  BY DEF MultiDelayInit, NoConfig
<1>4. context.size \in Nat /\ begun \in Nat /\ emptied \in 0..begun
  BY DEF MultiDelayInit
<1>5. DOMAIN rings = Rings /\ rings = [r \in Rings |-> rings[r]] /\ stores = [r \in Rings |-> stores[r]]
  BY DEF MultiDelayInit
<1>6. FetchedSinceEmptied
  BY DEF MultiDelayInit, FetchedSinceEmptied, NoFetch
<1> QED
  BY <1>1, <1>2, <1>3, <1>4, <1>5, <1>6 DEF StoredInv

\* What a new frame does to the counters.
LEMMA SharedBegunTyped ==
  ASSUME SharedTyped(shared)
  PROVE  SharedTyped(SharedBegun)
<1>0. PICK d, h, f, z, n, p :
        /\ d = shared.dirty /\ h = shared.haveFrame /\ f = shared.lastFrame
        /\ z = shared.lastSize /\ n = shared.since /\ p = shared.perBeat
  OBVIOUS
<1>1. /\ shared = [dirty |-> d, haveFrame |-> h, lastFrame |-> f, lastSize |-> z, since |-> n, perBeat |-> p]
      /\ d \in BOOLEAN /\ h \in BOOLEAN /\ n \in Nat /\ p \in Nat
  BY <1>0, Zenon DEF SharedTyped
<1>2. CASE ~NewFrame
  <2>1. PICK s1 : s1 = [shared EXCEPT !.lastSize = context.size]
    OBVIOUS
  <2>2. s1 = [dirty |-> d, haveFrame |-> h, lastFrame |-> f, lastSize |-> context.size, since |-> n, perBeat |-> p]
    BY <1>1, <2>1
  <2>5. PICK s2 : s2 = [s1 EXCEPT !.dirty = FALSE]
    OBVIOUS
  <2>3. s2 =
          [dirty |-> FALSE, haveFrame |-> h, lastFrame |-> f, lastSize |-> context.size, since |-> n, perBeat |-> p]
    BY <2>2, <2>5
  <2>4. SharedBegun = s2
    BY <1>2, <2>1, <2>5 DEF SharedBegun
  <2> QED
    BY <1>1, <2>3, <2>4, Zenon DEF SharedTyped
<1>3. CASE NewFrame
  <2>1. PICK s1 : s1 = [shared EXCEPT !.haveFrame = TRUE]
    OBVIOUS
  <2>2. PICK s2 : s2 = [s1 EXCEPT !.lastFrame = context.frameIndex]
    OBVIOUS
  <2>3. PICK s3 : s3 = [s2 EXCEPT !.lastSize = context.size]
    OBVIOUS
  <2>4. PICK s4 : s4 = [s3 EXCEPT !.dirty = FALSE]
    OBVIOUS
  <2>5. s1 = [dirty |-> d, haveFrame |-> TRUE, lastFrame |-> f, lastSize |-> z, since |-> n, perBeat |-> p]
    BY <1>1, <2>1
  <2>6. s2 = [dirty |-> d, haveFrame |-> TRUE, lastFrame |-> context.frameIndex, lastSize |-> z,
              since |-> n, perBeat |-> p]
    BY <2>2, <2>5
  <2>7. s3 = [dirty |-> d, haveFrame |-> TRUE, lastFrame |-> context.frameIndex,
              lastSize |-> context.size, since |-> n, perBeat |-> p]
    BY <2>3, <2>6
  <2>8. s4 = [dirty |-> FALSE, haveFrame |-> TRUE, lastFrame |-> context.frameIndex,
              lastSize |-> context.size, since |-> n, perBeat |-> p]
    BY <2>4, <2>7
  <2>9. SharedBegun = Counted(s4, context.beat)
    BY <1>3, <2>1, <2>2, <2>3, <2>4 DEF SharedBegun
  <2>10. PICK a \in Nat, b \in Nat :
           /\ a = IF context.beat THEN AtMost(s4.since, RingHistoryMax) ELSE s4.perBeat
           /\ b = AtMost((IF context.beat THEN 0 ELSE s4.since) + 1, RingHistoryMax)
    <3>1. RingHistoryMax \in Nat /\ s4.since \in Nat /\ s4.perBeat \in Nat
      BY <1>1, <2>8, MultiDelayAssumption
    <3> QED
      BY <3>1 DEF AtMost
  <2>11. PICK s5 : s5 = [s4 EXCEPT !.perBeat = a]
    OBVIOUS
  <2>12. s5 = [dirty |-> FALSE, haveFrame |-> TRUE, lastFrame |-> context.frameIndex,
               lastSize |-> context.size, since |-> n, perBeat |-> a]
    BY <2>8, <2>11
  <2>15. PICK s6 : s6 = [s5 EXCEPT !.since = b]
    OBVIOUS
  <2>13. s6 =
            [dirty |-> FALSE, haveFrame |-> TRUE, lastFrame |-> context.frameIndex,
             lastSize |-> context.size, since |-> b, perBeat |-> a]
    BY <2>12, <2>15
  <2>14. Counted(s4, context.beat) = s6
    BY <2>10, <2>11, <2>15 DEF Counted
  <2> QED
    <3>1. /\ s6.dirty = FALSE /\ s6.haveFrame = TRUE /\ s6.lastFrame = context.frameIndex
          /\ s6.lastSize = context.size /\ s6.since = b /\ s6.perBeat = a
      BY <2>13
    <3>2. s6 = [dirty |-> s6.dirty, haveFrame |-> s6.haveFrame, lastFrame |-> s6.lastFrame,
                lastSize |-> s6.lastSize, since |-> s6.since, perBeat |-> s6.perBeat]
      BY <3>1, <2>13, Zenon
    <3>3. SharedTyped(s6)
      BY <3>1, <3>2, <2>10, Zenon DEF SharedTyped
    <3> QED
      BY <2>9, <2>14, <3>3, Zenon
<1> QED
  BY <1>2, <1>3

\* What beginFrame leaves behind, ring by ring.
LEMMA RingsBegunOf ==
  ASSUME StoredInv
  PROVE  /\ RingsBegun = [r \in Rings |-> RingsBegun[r]]
         /\ \A r \in Rings : RingOf(RingsBegun[r], {NoFrame} \cup (IF Forced THEN {} ELSE stores[r]))
<1> DEFINE old == IF NewFrame /\ shared.haveFrame THEN [r \in Rings |-> Advanced(rings[r])] ELSE rings
<1>1. old = [r \in Rings |-> old[r]] /\ \A r \in Rings : RingOf(old[r], {NoFrame} \cup stores[r])
  <2>1. CASE NewFrame /\ shared.haveFrame
    BY <2>1, AdvancedRing DEF StoredInv
  <2>2. CASE ~(NewFrame /\ shared.haveFrame)
    <3>1. old = rings
      BY <2>2
    <3> QED
      BY <3>1 DEF StoredInv
  <2> QED
    BY <2>1, <2>2
<1> HIDE DEF old
<1>2. CASE NewFrame \/ Forced
  <2>1. RingsBegun = [r \in Rings |-> Configured(old[r], context.size, Length(configs[r], SharedBegun), Forced)]
    BY <1>2 DEF RingsBegun, Reconfigured, old
  <2>2. ASSUME NEW r \in Rings
        PROVE  RingOf(Configured(old[r], context.size, Length(configs[r], SharedBegun), Forced),
                      {NoFrame} \cup (IF Forced THEN {} ELSE stores[r]))
    <3>1. Length(configs[r], SharedBegun) \in Nat \ {0}
      <4>1. RingHistoryMax \in Nat /\ configs[r] \in [useBeat : BOOLEAN, delay : Nat]
        BY MultiDelayAssumption DEF StoredInv
      <4>2. SharedBegun.perBeat \in Nat
        BY SharedBegunTyped DEF StoredInv, SharedTyped
      <4> QED
        BY <4>1, <4>2 DEF Length, AtMost
    <3>2. Forced \in BOOLEAN /\ context.size \in Nat
      BY DEF StoredInv, SharedTyped, Forced, Resized
    <3>3. PICK X : X = {NoFrame} \cup stores[r]
      OBVIOUS
    <3>4. RingOf(old[r], X) /\ NoFrame \in X
      BY <1>1, <3>3
    <3>5. RingOf(Configured(old[r], context.size, Length(configs[r], SharedBegun), Forced),
                 IF Forced THEN {NoFrame} ELSE X)
      BY <3>1, <3>2, <3>4, ConfiguredRing
    <3>6. (IF Forced THEN {NoFrame} ELSE X) = {NoFrame} \cup (IF Forced THEN {} ELSE stores[r])
      BY <3>3
    <3> QED
      BY <3>5, <3>6
  <2> QED
    BY <2>1, <2>2
<1>3. CASE ~(NewFrame \/ Forced)
  BY <1>1, <1>3 DEF RingsBegun, old
<1> QED
  BY <1>2, <1>3

LEMMA StoredRenderStep ==
  ASSUME StoredInv, NEW e \in Instances, NEW op \in {"store", "fetch", "pass"}, NEW r \in Rings,
         Render(e, op, r)
  PROVE  StoredInv' /\ FetchedSinceEmptied'
<1> DEFINE now     == IF shared.haveFrame /\ context.frameIndex = shared.lastFrame THEN begun ELSE begun + 1
           b       == RingsBegun[r]
           kept(q) == IF Forced THEN {} ELSE stores[q]
           new(q)  == IF q = r /\ op = "store" /\ Usable(b) THEN {now} ELSE {}
<1>1. /\ shared' = SharedBegun /\ begun' = now
      /\ emptied' = IF Forced THEN now ELSE emptied
      /\ rings' = IF op = "store" /\ Usable(b) THEN [RingsBegun EXCEPT ![r].slots[b.write] = now] ELSE RingsBegun
      /\ stores' = [q \in Rings |-> kept(q) \cup new(q)]
      /\ fetched' = IF op = "fetch" /\ Usable(b) THEN [ring |-> r, frame |-> now, value |-> b.slots[b.read]]
                    ELSE NoFetch
      /\ UNCHANGED <<context, alive, configs>>
  BY DEF Render
<1>2. begun \in Nat /\ now \in Nat /\ begun <= now /\ emptied \in Nat /\ emptied <= begun
  BY DEF StoredInv
<1>3. RingsBegun = [q \in Rings |-> RingsBegun[q]]
      /\ \A q \in Rings : RingOf(RingsBegun[q], {NoFrame} \cup kept(q))
  BY RingsBegunOf
<1> HIDE DEF now, b, kept, new
<1>4. /\ rings' = [q \in Rings |-> rings'[q]]
      /\ \A q \in Rings : RingOf(rings'[q], {NoFrame} \cup stores'[q])
  <2>1. CASE op = "store" /\ Usable(b)
    <3>1. rings' = [RingsBegun EXCEPT ![r].slots[b.write] = now]
      BY <1>1, <2>1
    <3>2. rings' = [q \in Rings |-> IF q = r THEN [b EXCEPT !.slots[b.write] = now] ELSE RingsBegun[q]]
      BY <3>1, <1>3 DEF b
    <3>3. RingOf([b EXCEPT !.slots[b.write] = now], ({NoFrame} \cup kept(r)) \cup {now})
      BY <2>1, <1>3, StoredRing DEF b
    <3>4. \A q \in Rings : stores'[q] = IF q = r THEN kept(q) \cup {now} ELSE kept(q)
      BY <1>1, <2>1 DEF new
    <3>5. {NoFrame} \cup stores'[r] = ({NoFrame} \cup kept(r)) \cup {now}
      BY <3>4
    <3> QED
      BY <1>3, <3>2, <3>3, <3>4, <3>5
  <2>2. CASE ~(op = "store" /\ Usable(b))
    <3>1. rings' = RingsBegun
      BY <1>1, <2>2
    <3>2. \A q \in Rings : stores'[q] = kept(q)
      BY <1>1, <2>2 DEF new
    <3> QED
      BY <1>3, <3>1, <3>2
  <2> QED
    BY <2>1, <2>2
<1>5. \A q \in Rings : stores'[q] \subseteq emptied'..begun'
  <2>1. ASSUME NEW q \in Rings PROVE kept(q) \subseteq emptied'..now
    <3>1. CASE Forced
      BY <3>1 DEF kept
    <3>2. CASE ~Forced
      <4>1. kept(q) = stores[q] /\ emptied' = emptied
        BY <3>2, <1>1 DEF kept
      <4>2. stores[q] \subseteq emptied..begun
        BY DEF StoredInv
      <4> QED
        BY <4>1, <4>2, <1>2
    <3> QED
      BY <3>1, <3>2
  <2>2. ASSUME NEW q \in Rings PROVE new(q) \subseteq emptied'..now
    BY <1>1, <1>2 DEF new
  <2> QED
    BY <1>1, <2>1, <2>2
<1>6. emptied' \in 0..begun' /\ begun' \in Nat
  BY <1>1, <1>2
<1>7. SharedTyped(shared)'
  BY <1>1, SharedBegunTyped DEF StoredInv, SharedTyped
<1>8. stores' = [q \in Rings |-> stores'[q]] /\ DOMAIN rings' = Rings
  BY <1>1, <1>4
<1>9. StoredInv'
  BY <1>1, <1>4, <1>5, <1>6, <1>7, <1>8 DEF StoredInv, RingOf, Usable
<1>10. FetchedSinceEmptied'
  <2>1. SUFFICES ASSUME fetched'.frame > 0
                 PROVE  fetched'.value = NoFrame
                          \/ (fetched'.value >= emptied' /\ fetched'.value \in stores'[fetched'.ring])
    BY DEF FetchedSinceEmptied
  <2>2. op = "fetch" /\ Usable(b) /\ fetched'.value = b.slots[b.read] /\ fetched'.ring = r
    BY <1>1, <2>1 DEF NoFetch
  <2>3. b.slots[b.read] \in {NoFrame} \cup kept(r)
    BY <1>3, <2>2 DEF RingOf, b
  <2>4. kept(r) \subseteq stores'[r]
    BY <1>1
  <2> QED
    BY <1>2, <1>5, <1>6, <2>2, <2>3, <2>4
<1> QED
  BY <1>9, <1>10

LEMMA StoredStep ==
  StoredInv /\ FetchedSinceEmptied /\ [MultiDelayNext]_multiDelayVars => StoredInv' /\ FetchedSinceEmptied'
<1> SUFFICES ASSUME StoredInv, FetchedSinceEmptied, [MultiDelayNext]_multiDelayVars
             PROVE  StoredInv' /\ FetchedSinceEmptied'
  OBVIOUS
<1>0. ASSUME UNCHANGED <<configs, rings, shared, begun, emptied, stores>>, context'.size \in Nat
      PROVE  StoredInv'
  BY <1>0 DEF StoredInv, SharedTyped, RingOf, Usable
<1>f. ASSUME UNCHANGED <<emptied, stores, fetched>> \/ fetched' = NoFetch
      PROVE  FetchedSinceEmptied'
  BY <1>f DEF FetchedSinceEmptied, NoFetch
<1>1. ASSUME NEW size \in Resolutions, NEW onBeat \in BOOLEAN, NewContext(size, onBeat)
      PROVE  StoredInv' /\ FetchedSinceEmptied'
  BY <1>0, <1>f, <1>1, MultiDelayAssumption DEF NewContext
<1>2. ASSUME NEW size \in Resolutions, SameFrame(size)
      PROVE  StoredInv' /\ FetchedSinceEmptied'
  <2>1. context'.size \in Nat
    <3>1. size \in Nat /\ context' = [context EXCEPT !.size = size]
      BY <1>2, MultiDelayAssumption DEF SameFrame
    <3> QED
      BY <3>1 DEF StoredInv
  <2> QED
    BY <1>0, <1>f, <1>2, <2>1 DEF SameFrame
<1>3. ASSUME NEW e \in Instances, AddInstance(e)
      PROVE  StoredInv' /\ FetchedSinceEmptied'
  BY <1>0, <1>f, <1>3 DEF AddInstance, StoredInv
<1>4. ASSUME NEW e \in Instances, RemoveInstance(e)
      PROVE  StoredInv' /\ FetchedSinceEmptied'
  <2>1. FetchedSinceEmptied'
    BY <1>f, <1>4 DEF RemoveInstance
  <2>2. CASE alive # {e}
    BY <1>0, <1>4, <2>1, <2>2 DEF RemoveInstance, StoredInv
  <2>3. CASE alive = {e}
    <3>1. /\ configs' = [r \in Rings |-> NoConfig] /\ rings' = [r \in Rings |-> NoRing]
          /\ shared' = Fresh /\ emptied' = begun /\ stores' = [r \in Rings |-> {}]
          /\ UNCHANGED <<context, begun>>
      BY <1>4, <2>3 DEF RemoveInstance
    <3>2. SharedTyped(shared)'
      BY <3>1 DEF Fresh, SharedTyped
    <3>3. \A r \in Rings : RingOf(rings'[r], {NoFrame} \cup stores'[r]) /\ stores'[r] \subseteq emptied'..begun'
      BY <3>1, NoRingOf
    <3>4. configs' \in [Rings -> [useBeat : BOOLEAN, delay : Nat]]
      BY <3>1 DEF NoConfig
    <3>5. context'.size \in Nat /\ begun' \in Nat /\ emptied' \in 0..begun'
      BY <3>1 DEF StoredInv
    <3>6. /\ DOMAIN rings' = Rings /\ rings' = [r \in Rings |-> rings'[r]]
          /\ stores' = [r \in Rings |-> stores'[r]]
      BY <3>1
    <3> QED
      BY <2>1, <3>2, <3>3, <3>4, <3>5, <3>6 DEF StoredInv, RingOf, Usable
  <2> QED
    BY <2>2, <2>3
<1>5. ASSUME NEW c \in RingConfigs, ApplyParams(c)
      PROVE  StoredInv' /\ FetchedSinceEmptied'
  <2>1. FetchedSinceEmptied'
    BY <1>f, <1>5 DEF ApplyParams
  <2>2. PICK s : s = [shared EXCEPT !.dirty = shared.dirty \/ c # configs]
    OBVIOUS
  <2>3. PICK w \in BOOLEAN : w = (shared.dirty \/ c # configs)
    BY Zenon DEF StoredInv, SharedTyped
  <2>4. s = [dirty |-> w, haveFrame |-> shared.haveFrame, lastFrame |-> shared.lastFrame,
             lastSize |-> shared.lastSize, since |-> shared.since, perBeat |-> shared.perBeat]
    BY <2>2, <2>3, Zenon DEF StoredInv, SharedTyped
  <2>5. SharedTyped(s)
    BY <2>4, Zenon DEF StoredInv, SharedTyped
  <2>6. /\ shared' = s /\ configs' = c
        /\ UNCHANGED <<context, rings, begun, emptied, stores>>
    BY <1>5, <2>2 DEF ApplyParams
  <2>7. configs' \in [Rings -> [useBeat : BOOLEAN, delay : Nat]]
    BY <2>6, MultiDelayAssumption
  <2>8. SharedTyped(shared)'
    BY <2>5, <2>6, Zenon DEF SharedTyped
  <2> QED
    BY <2>1, <2>6, <2>7, <2>8 DEF StoredInv, RingOf, Usable
<1>6. ASSUME NEW e \in Instances, NEW op \in {"store", "fetch", "pass"}, NEW r \in Rings, Render(e, op, r)
      PROVE  StoredInv' /\ FetchedSinceEmptied'
  BY <1>6, StoredRenderStep
<1>7. CASE UNCHANGED multiDelayVars
  BY <1>0, <1>f, <1>7 DEF multiDelayVars, StoredInv
<1> QED
  BY <1>1, <1>2, <1>3, <1>4, <1>5, <1>6, <1>7 DEF MultiDelayNext

\* What is fetched was stored to the same ring since the rings were last emptied, for
\* any number of instances and rings, and every configuration and size.
THEOREM FetchesAreFresh == MultiDelaySpec => []FetchedSinceEmptied
BY StoredStart, StoredStep, PTL DEF MultiDelaySpec

-------------------------------------------------------------------------------
\* The slot that was written j frames ago.
SlotAgo(b, j) == IF b.write >= j THEN b.write - j ELSE b.write - j + b.count

\* The frames in S, from one on, that were stored where the frame `last` was.
SameTurn(S, from, last, c) == {n \in S : from <= n /\ n <= last /\ (last - n) % c = 0}

NewestOf(v, S) == S # {} => v \in S /\ \A n \in S : n <= v

\* What is due next lies behind what is written, and a slot has the newest of the frames
\* stored in its turns.
RingTurns(b, S, from, now) ==
  Usable(b) => /\ b.read = IF b.write = b.count - 1 THEN 0 ELSE b.write + 1
               /\ \A j \in 0..(b.count - 1) :
                    NewestOf(b.slots[SlotAgo(b, j)], SameTurn(S, from, now - j, b.count))

DelayedInv ==
  /\ changed \in [Rings -> Nat]
  /\ \A r \in Rings : /\ ~shared.haveFrame => rings[r].count = 0
                      /\ rings[r].count > 0 => rings[r].stride = shared.lastSize
                      /\ RingTurns(rings[r], stores[r], changed[r], begun)

\* A new frame has the slot of the one a whole turn before.
LEMMA TurnsMoveOn ==
  ASSUME NEW c \in Nat \ {0}, NEW now \in Nat, NEW S, S \subseteq 0..now, NEW from \in Nat
  PROVE  SameTurn(S, from, now + 1, c) = SameTurn(S, from, now + 1 - c, c)
<1>1. ASSUME NEW n \in S
      PROVE  (n <= now + 1 /\ (now + 1 - n) % c = 0) <=> (n <= now + 1 - c /\ (now + 1 - c - n) % c = 0)
  <2>1. n \in Nat /\ n <= now
    OBVIOUS
  <2>2. PICK x \in Nat : x = now + 1 - n /\ x >= 1
    BY <2>1
  <2>3. x % c = 0 => x >= c
    <3>1. ASSUME x < c PROVE x % c # 0
      <4>1. x \in Nat /\ 0 % c # x % c
        BY <2>2, <3>1, OtherSlot, 0 \in Nat
      <4>2. 0 % c = 0
        BY ZeroSlot
      <4> QED
        BY <4>1, <4>2
    <3> QED
      BY <2>2, <3>1
  <2>4. ASSUME x >= c PROVE x % c = (x - c) % c
    BY <2>2, <2>4, SameSlot, x - c \in Nat, x = (x - c) + c * 1, 1 \in Int
  <2>5. now + 1 - n = x /\ now + 1 - c - n = x - c /\ n <= now + 1 /\ (n <= now + 1 - c <=> x >= c)
    BY <2>1, <2>2
  <2> QED
    BY <2>3, <2>4, <2>5
<1>2. PICK a, b : a = now + 1 /\ b = now + 1 - c
  OBVIOUS
<1>3. \A n \in S : (n <= a /\ (a - n) % c = 0) <=> (n <= b /\ (b - n) % c = 0)
  BY <1>1, <1>2
<1>4. SameTurn(S, from, a, c) = SameTurn(S, from, b, c)
  BY <1>3, Zenon DEF SameTurn
<1> QED
  BY <1>2, <1>4

LEMMA AdvancedTurns ==
  ASSUME NEW b, NEW X, RingOf(b, X), NEW now \in Nat, NEW S, S \subseteq 0..now, NEW from \in Nat,
         Usable(b), RingTurns(b, S, from, now)
  PROVE  RingTurns(Advanced(b), S, from, now + 1)
<1> DEFINE d == Advanced(b)
<1>1. PICK c, w : /\ c = b.count /\ w = b.write /\ c \in Nat \ {0} /\ c > 1 /\ w \in 0..(c - 1)
                  /\ b.read \in 0..(c - 1)
  BY DEF RingOf, Usable
<1>2. /\ d.stride = b.stride /\ d.count = c /\ d.slots = b.slots
      /\ d.write = (w + 1) % c /\ d.read = (b.read + 1) % c
  <2>1. PICK x, y : x = (b.read + 1) % b.count /\ y = (b.write + 1) % b.count
    OBVIOUS
  <2>2. PICK b1 : b1 = [b EXCEPT !.read = x]
    OBVIOUS
  <2>3. b1 = [stride |-> b.stride, count |-> b.count, read |-> x, write |-> b.write, slots |-> b.slots]
    BY <2>2 DEF RingOf
  <2>4. [b1 EXCEPT !.write = y] =
          [stride |-> b.stride, count |-> b.count, read |-> x, write |-> y, slots |-> b.slots]
    BY <2>3
  <2>5. d = [b EXCEPT !.read = x, !.write = y]
    BY <2>1 DEF Advanced, Usable, RingOf
  <2>6. d = [stride |-> b.stride, count |-> b.count, read |-> x, write |-> y, slots |-> b.slots]
    BY <2>2, <2>4, <2>5
  <2> QED
    BY <1>1, <2>1, <2>6
<1>3. /\ d.write = IF w = c - 1 THEN 0 ELSE w + 1
      /\ d.read = IF b.read = c - 1 THEN 0 ELSE b.read + 1
  BY <1>1, <1>2, OneFurther
<1> HIDE DEF d
<1>4. b.read = IF w = c - 1 THEN 0 ELSE w + 1
  BY <1>1 DEF RingTurns
<1>5. ASSUME NEW j \in 0..(c - 1)
      PROVE  NewestOf(d.slots[SlotAgo(d, j)], SameTurn(S, from, now + 1 - j, c))
  <2> DEFINE i == IF j = 0 THEN c - 1 ELSE j - 1
  <2>1. i \in 0..(c - 1)
    BY <1>1
  <2>2. SlotAgo(d, j) = IF d.write >= j THEN d.write - j ELSE d.write - j + c
    BY <1>2 DEF SlotAgo
  <2>3. SlotAgo(b, i) = IF w >= i THEN w - i ELSE w - i + c
    BY <1>1 DEF SlotAgo
  <2>4. SlotAgo(d, j) = SlotAgo(b, i)
    BY <1>1, <1>3, <2>2, <2>3
  <2>5. SameTurn(S, from, now + 1 - j, c) = SameTurn(S, from, now - i, c)
    <3>1. CASE j = 0
      <4>1. now + 1 - j = now + 1 /\ now - i = now + 1 - c
        BY <1>1, <3>1
      <4>2. SameTurn(S, from, now + 1, c) = SameTurn(S, from, now + 1 - c, c)
        BY <1>1, TurnsMoveOn
      <4> QED
        BY <4>1, <4>2
    <3>2. CASE j # 0
      <4>1. now + 1 - j = now - i
        BY <3>2
      <4> QED
        BY <4>1
    <3> QED
      BY <3>1, <3>2
  <2>6. NewestOf(b.slots[SlotAgo(b, i)], SameTurn(S, from, now - i, c))
    BY <1>1, <2>1 DEF RingTurns
  <2> QED
    BY <1>2, <2>4, <2>5, <2>6
<1> QED
  BY <1>1, <1>2, <1>3, <1>4, <1>5 DEF RingTurns, d

\* A ring with a new length has no turns behind it.
LEMMA NoTurnsYet ==
  ASSUME NEW b, b.count \in Nat, NEW now \in Nat, NEW S, S \subseteq Nat, \A n \in S : n < now,
         Usable(b) => b.read = 0 /\ b.write = b.count - 1
  PROVE  RingTurns(b, S, now, now)
<1>1. ASSUME NEW j \in 0..(b.count - 1) PROVE SameTurn(S, now, now - j, b.count) = {}
  <2>1. ASSUME NEW n \in S, now <= n, n <= now - j PROVE FALSE
    <3>1. n \in Nat /\ n < now /\ j \in Nat
      BY <1>1
    <3> QED
      BY <2>1, <3>1
  <2> QED
    BY <2>1, Zenon DEF SameTurn
<1> QED
  BY <1>1 DEF RingTurns, NewestOf

\* configureBuffer leaves the ring alone.
StaysAsItIs(b, stride, count, force) ==
  ~(stride = 0 \/ count <= 1) /\ ~force /\ b.stride = stride /\ b.count = count

LEMMA ConfiguredAnew ==
  ASSUME NEW b, NEW stride \in Nat, NEW count \in Nat \ {0}, NEW force \in BOOLEAN, NEW d,
         d = Configured(b, stride, count, force), ~StaysAsItIs(b, stride, count, force)
  PROVE  d.stride = stride /\ d.count = count /\ (Usable(d) => d.read = 0 /\ d.write = d.count - 1)
<1>1. CASE stride = 0 \/ count <= 1
  <2>1. PICK b1 : b1 = [NoRing EXCEPT !.stride = stride]
    OBVIOUS
  <2>2. b1 = [stride |-> stride, count |-> 0, read |-> 0, write |-> 0, slots |-> [i \in {} |-> NoFrame]]
    BY <2>1 DEF NoRing
  <2>3. PICK b2 : b2 = [b1 EXCEPT !.count = count]
    OBVIOUS
  <2>4. b2 = [stride |-> stride, count |-> count, read |-> 0, write |-> 0, slots |-> [i \in {} |-> NoFrame]]
    BY <2>2, <2>3
  <2>5. [b2 EXCEPT !.write = count - 1] =
          [stride |-> stride, count |-> count, read |-> 0, write |-> count - 1, slots |-> [i \in {} |-> NoFrame]]
    BY <2>4
  <2>6. Configured(b, stride, count, force) = [b2 EXCEPT !.write = count - 1]
    BY <1>1, <2>1, <2>3 DEF Configured
  <2> QED
    BY <1>1, <2>5, <2>6 DEF Usable
<1>2. CASE ~(stride = 0 \/ count <= 1)
  <2>1. PICK m : Configured(b, stride, count, force) =
                   [stride |-> stride, count |-> count, read |-> 0, write |-> count - 1, slots |-> m]
    BY <1>2 DEF Configured, StaysAsItIs
  <2> QED
    BY <2>1
<1> QED
  BY <1>1, <1>2

LEMMA StoredTurns ==
  ASSUME NEW b, NEW X, RingOf(b, X), Usable(b), NEW now \in Nat, NEW S, S \subseteq 0..now,
         NEW from \in Nat, RingTurns(b, S, from, now)
  PROVE  RingTurns([b EXCEPT !.slots[b.write] = now], S \cup {now}, from, now)
<1>1. PICK d : d = [b EXCEPT !.slots[b.write] = now]
  OBVIOUS
<1>2. d = [stride |-> b.stride, count |-> b.count, read |-> b.read, write |-> b.write,
           slots |-> [b.slots EXCEPT ![b.write] = now]]
  BY <1>1 DEF RingOf
<1>3. PICK c, w : c = b.count /\ w = b.write /\ c \in Nat \ {0} /\ w \in 0..(c - 1) /\ DOMAIN b.slots = 0..(c - 1)
  BY DEF RingOf, Usable
<1>4. /\ d.count = c /\ d.write = w /\ d.read = b.read /\ d.slots = [b.slots EXCEPT ![w] = now]
  BY <1>2, <1>3
<1>5. \A j : SlotAgo(d, j) = SlotAgo(b, j)
  BY <1>3, <1>4 DEF SlotAgo
<1>6. ASSUME NEW j \in 0..(c - 1)
      PROVE  NewestOf(d.slots[SlotAgo(d, j)], SameTurn(S \cup {now}, from, now - j, c))
  <2>1. SlotAgo(b, j) = IF w >= j THEN w - j ELSE w - j + c
    BY <1>3 DEF SlotAgo
  <2>2. CASE j = 0
    <3>1. d.slots[SlotAgo(d, j)] = now
      BY <1>3, <1>4, <1>5, <2>1, <2>2
    <3>2. \A n \in SameTurn(S \cup {now}, from, now - j, c) : n \in Nat /\ from <= n /\ n <= now
      BY <2>2 DEF SameTurn
    <3>3. from <= now => now \in SameTurn(S \cup {now}, from, now - j, c)
      <4>1. now - 0 - now = 0 /\ 0 % c = 0 /\ now <= now - 0
        BY <1>3, ZeroSlot
      <4> QED
        BY <2>2, <4>1 DEF SameTurn
    <3>4. PICK T : T = SameTurn(S \cup {now}, from, now - j, c)
      OBVIOUS
    <3>5. T # {} => now \in T
      BY <3>2, <3>3, <3>4
    <3>6. NewestOf(now, T)
      BY <3>2, <3>4, <3>5 DEF NewestOf
    <3> QED
      BY <3>1, <3>4, <3>6, Zenon
  <2>3. CASE j > 0
    <3>1. SlotAgo(b, j) \in 0..(c - 1) /\ SlotAgo(b, j) # w
      BY <1>3, <2>1, <2>3, SMTT(30)
    <3>2. d.slots[SlotAgo(d, j)] = b.slots[SlotAgo(b, j)]
      BY <1>3, <1>4, <1>5, <3>1
    <3>3. SameTurn(S \cup {now}, from, now - j, c) = SameTurn(S, from, now - j, c)
      BY <2>3 DEF SameTurn
    <3>4. NewestOf(b.slots[SlotAgo(b, j)], SameTurn(S, from, now - j, c))
      BY <1>3 DEF RingTurns
    <3>5. PICK v, T : v = b.slots[SlotAgo(b, j)] /\ T = SameTurn(S, from, now - j, c)
      OBVIOUS
    <3>6. NewestOf(v, T)
      BY <3>4, <3>5
    <3>7. d.slots[SlotAgo(d, j)] = v /\ SameTurn(S \cup {now}, from, now - j, c) = T
      BY <3>2, <3>3, <3>5
    <3> QED
      BY <3>6, <3>7, Zenon
  <2> QED
    BY <2>2, <2>3
<1> QED
  BY <1>1, <1>3, <1>4, <1>6 DEF RingTurns

LEMMA SharedBegunFields ==
  ASSUME SharedTyped(shared)
  PROVE  SharedBegun.haveFrame /\ SharedBegun.lastSize = context.size
<1>1. PICK d, h, f, z, n, p :
        /\ shared = [dirty |-> d, haveFrame |-> h, lastFrame |-> f, lastSize |-> z, since |-> n, perBeat |-> p]
        /\ h = shared.haveFrame
  BY Zenon DEF SharedTyped
<1>2. CASE ~NewFrame
  <2>1. PICK s1 : s1 = [shared EXCEPT !.lastSize = context.size]
    OBVIOUS
  <2>2. s1 = [dirty |-> d, haveFrame |-> h, lastFrame |-> f, lastSize |-> context.size, since |-> n, perBeat |-> p]
    BY <1>1, <2>1
  <2>3. PICK s2 : s2 = [s1 EXCEPT !.dirty = FALSE]
    OBVIOUS
  <2>4. s2.haveFrame = h /\ s2.lastSize = context.size
    BY <2>2, <2>3
  <2>5. SharedBegun = s2
    BY <1>2, <2>1, <2>3 DEF SharedBegun
  <2> QED
    BY <1>1, <1>2, <2>4, <2>5, Zenon DEF NewFrame
<1>3. CASE NewFrame
  <2>1. PICK s1 : s1 = [shared EXCEPT !.haveFrame = TRUE, !.lastFrame = context.frameIndex,
                                      !.lastSize = context.size, !.dirty = FALSE]
    OBVIOUS
  <2>2. s1 = [dirty |-> FALSE, haveFrame |-> TRUE, lastFrame |-> context.frameIndex,
              lastSize |-> context.size, since |-> n, perBeat |-> p]
    BY <1>1, <2>1
  <2>3. PICK a, c : Counted(s1, context.beat) = [s1 EXCEPT !.perBeat = a, !.since = c]
    BY DEF Counted
  <2>4. PICK s2 : s2 = [s1 EXCEPT !.perBeat = a]
    OBVIOUS
  <2>5. s2 = [dirty |-> FALSE, haveFrame |-> TRUE, lastFrame |-> context.frameIndex,
              lastSize |-> context.size, since |-> n, perBeat |-> a]
    BY <2>2, <2>4
  <2>6. PICK s3 : s3 = [s2 EXCEPT !.since = c]
    OBVIOUS
  <2>7. s3.haveFrame = TRUE /\ s3.lastSize = context.size
    BY <2>5, <2>6
  <2>8. SharedBegun = s3
    BY <1>3, <2>1, <2>3, <2>4, <2>6 DEF SharedBegun
  <2> QED
    BY <2>7, <2>8, Zenon
<1> QED
  BY <1>2, <1>3

LEMMA DelayedStart == MultiDelayInit => DelayedInv /\ FetchedIsDelayed
<1> SUFFICES ASSUME MultiDelayInit PROVE DelayedInv /\ FetchedIsDelayed
  OBVIOUS
<1>1. changed \in [Rings -> Nat] /\ \A r \in Rings : rings[r] = NoRing
  BY DEF MultiDelayInit
<1>2. NoRing.count = 0 /\ ~Usable(NoRing)
  BY DEF NoRing, Usable
<1>3. DelayedInv
  BY <1>1, <1>2 DEF DelayedInv, RingTurns
<1>4. FetchedIsDelayed
  BY DEF MultiDelayInit, FetchedIsDelayed, NoFetch
<1> QED
  BY <1>3, <1>4

\* What a frame begins with.
LEMMA TurnsBegun ==
  ASSUME StoredInv, DelayedInv, NEW r \in Rings, NEW now \in Nat, NEW from \in Nat,
         now = IF NewFrame THEN begun + 1 ELSE begun,
         from = IF Forced \/ RingsBegun[r].count # rings[r].count THEN now ELSE changed[r]
  PROVE  /\ RingTurns(RingsBegun[r], IF Forced THEN {} ELSE stores[r], from, now)
         /\ RingsBegun[r].count > 0 => RingsBegun[r].stride = context.size
<1> DEFINE S      == IF Forced THEN {} ELSE stores[r]
           length == Length(configs[r], SharedBegun)
           moved  == NewFrame /\ shared.haveFrame
           old    == IF moved THEN Advanced(rings[r]) ELSE rings[r]
<1>1. /\ begun \in Nat /\ changed[r] \in Nat /\ context.size \in Nat
      /\ stores[r] \subseteq 0..begun /\ RingOf(rings[r], {NoFrame} \cup stores[r])
      /\ RingTurns(rings[r], stores[r], changed[r], begun)
      /\ rings[r].count \in Nat
      /\ rings[r].count > 0 => shared.haveFrame
      /\ rings[r].count > 0 => rings[r].stride = shared.lastSize
  <2>1. emptied \in 0..begun /\ stores[r] \subseteq emptied..begun
    BY DEF StoredInv
  <2>2. stores[r] \subseteq 0..begun
    BY <2>1
  <2> QED
    BY <2>2 DEF StoredInv, DelayedInv, RingOf
<1>2. length \in Nat \ {0} /\ Forced \in BOOLEAN
  <2>1. RingHistoryMax \in Nat /\ configs[r] \in [useBeat : BOOLEAN, delay : Nat]
    BY MultiDelayAssumption DEF StoredInv
  <2>2. SharedBegun.perBeat \in Nat
    BY SharedBegunTyped DEF StoredInv, SharedTyped
  <2> QED
    BY <2>1, <2>2 DEF Length, AtMost, StoredInv, SharedTyped, Forced, Resized
<1>3. NewFrame \/ Forced => RingsBegun[r] = Configured(old, context.size, length, Forced)
  BY DEF RingsBegun, Reconfigured
<1>4. old.stride = rings[r].stride /\ old.count = rings[r].count
  <2>1. Advanced(rings[r]).stride = rings[r].stride /\ Advanced(rings[r]).count = rings[r].count
    <3>1. PICK x, y : x = (rings[r].read + 1) % rings[r].count /\ y = (rings[r].write + 1) % rings[r].count
      OBVIOUS
    <3>2. PICK b : b = rings[r] /\ RingOf(b, {NoFrame} \cup stores[r])
      BY <1>1
    <3>3. PICK b1 : b1 = [b EXCEPT !.read = x]
      OBVIOUS
    <3>4. b1 = [stride |-> b.stride, count |-> b.count, read |-> x, write |-> b.write, slots |-> b.slots]
      BY <3>2, <3>3 DEF RingOf
    <3>5. [b1 EXCEPT !.write = y] =
            [stride |-> b.stride, count |-> b.count, read |-> x, write |-> y, slots |-> b.slots]
      BY <3>4
    <3>6. Advanced(b) = b \/ Advanced(b) = [b EXCEPT !.read = x, !.write = y]
      BY <3>1, <3>2 DEF Advanced
    <3> QED
      BY <3>2, <3>3, <3>5, <3>6
  <2> QED
    BY <2>1
<1>5. \A n \in S : Forced \/ n <= begun
  BY <1>1
<1> HIDE DEF length
<1>6. CASE ~NewFrame /\ ~Forced
  <2>1. RingsBegun[r] = rings[r] /\ S = stores[r] /\ now = begun
    BY <1>6 DEF RingsBegun
  <2>2. from = changed[r] /\ context.size = shared.lastSize
    BY <1>6, <2>1 DEF Forced, Resized
  <2>3. RingTurns(RingsBegun[r], S, from, now)
    BY <1>1, <2>1, <2>2, Zenon
  <2> QED
    BY <1>1, <2>1, <2>2, <2>3
<1>7. CASE (NewFrame \/ Forced) /\ ~StaysAsItIs(rings[r], context.size, length, Forced)
  <2> DEFINE d == RingsBegun[r]
  <2>1. d.stride = context.size /\ d.count = length /\ (Usable(d) => d.read = 0 /\ d.write = d.count - 1)
    <3> HIDE DEF old
    <3>1. ~StaysAsItIs(old, context.size, length, Forced)
      BY <1>4, <1>7 DEF StaysAsItIs
    <3>2. d = Configured(old, context.size, length, Forced)
      BY <1>3, <1>7
    <3> HIDE DEF d
    <3> QED
      BY <1>1, <1>2, <3>1, <3>2, ConfiguredAnew
  <2>2. CASE ~Usable(d)
    BY <2>1, <2>2 DEF RingTurns
  <2>3. CASE Usable(d)
    <3>1. from = now
      <4>1. CASE Forced
        BY <4>1
      <4>2. CASE ~Forced
        <5>1. context.size # 0 /\ length > 1 /\ context.size = shared.lastSize
          BY <2>1, <2>3, <4>2, <1>1, <1>2 DEF Usable, Forced, Resized
        <5>2. rings[r].count # length
          BY <1>1, <1>2, <1>7, <4>2, <5>1 DEF StaysAsItIs
        <5> QED
          BY <2>1, <5>2
      <4> QED
        BY <4>1, <4>2
    <3>2. S \subseteq Nat /\ \A n \in S : n < now
      <4>1. CASE Forced
        BY <4>1
      <4>2. CASE ~Forced
        <5>1. S = stores[r] /\ now = begun + 1
          BY <4>2, <1>7
        <5> QED
          BY <1>1, <5>1
      <4> QED
        BY <4>1, <4>2
    <3>3. d.count \in Nat
      BY <2>1, <1>2
    <3> HIDE DEF d, S
    <3>4. RingTurns(d, S, now, now)
      BY <2>1, <2>3, <3>2, <3>3, NoTurnsYet
    <3> QED
      BY <2>1, <3>1, <3>4 DEF d, S
  <2> QED
    BY <2>2, <2>3
<1>8. CASE (NewFrame \/ Forced) /\ StaysAsItIs(rings[r], context.size, length, Forced)
  <2>1. ~Forced /\ NewFrame /\ context.size # 0 /\ length > 1
        /\ rings[r].stride = context.size /\ rings[r].count = length
    BY <1>2, <1>8 DEF StaysAsItIs
  <2>2. moved /\ S = stores[r] /\ now = begun + 1
    <3>1. rings[r].count > 0
      BY <1>2, <2>1
    <3>2. shared.haveFrame
      BY <1>1, <3>1, Zenon
    <3>3. moved /\ S = stores[r]
      BY <2>1, <3>2, Zenon
    <3> QED
      BY <2>1, <3>3, Zenon
  <2>3. RingsBegun[r] = Advanced(rings[r])
    <3>1. RingsBegun[r] = Configured(old, context.size, length, FALSE) /\ old = Advanced(rings[r])
      <4>1. Forced = FALSE
        BY <1>2, <2>1, Zenon
      <4> QED
        BY <1>3, <2>1, <2>2, <4>1, Zenon
    <3> HIDE DEF old
    <3> QED
      BY <1>4, <2>1, <3>1, <1>2 DEF Configured
  <2>4. RingsBegun[r].count = rings[r].count /\ RingsBegun[r].stride = context.size /\ from = changed[r]
    BY <1>4, <2>1, <2>2, <2>3
  <2>5. Usable(rings[r])
    BY <1>1, <1>2, <2>1 DEF Usable
  <2>6. RingTurns(Advanced(rings[r]), stores[r], changed[r], begun + 1)
    <3>1. PICK b, X : b = rings[r] /\ X = {NoFrame} \cup stores[r]
      OBVIOUS
    <3> QED
      BY <1>1, <2>5, <3>1, AdvancedTurns
  <2> QED
    BY <2>2, <2>3, <2>4, <2>6
<1> QED
  BY <1>6, <1>7, <1>8

LEMMA DelayedRenderStep ==
  ASSUME StoredInv, DelayedInv, StoredInv', NEW e \in Instances, NEW op \in {"store", "fetch", "pass"},
         NEW r \in Rings, Render(e, op, r)
  PROVE  DelayedInv' /\ FetchedIsDelayed'
<1> DEFINE now     == IF shared.haveFrame /\ context.frameIndex = shared.lastFrame THEN begun ELSE begun + 1
           b       == RingsBegun[r]
           kept(q) == IF Forced THEN {} ELSE stores[q]
           new(q)  == IF q = r /\ op = "store" /\ Usable(b) THEN {now} ELSE {}
           from(q) == IF Forced \/ RingsBegun[q].count # rings[q].count THEN now ELSE changed[q]
<1>1. /\ shared' = SharedBegun /\ begun' = now
      /\ changed' = [q \in Rings |-> from(q)]
      /\ rings' = IF op = "store" /\ Usable(b) THEN [RingsBegun EXCEPT ![r].slots[b.write] = now] ELSE RingsBegun
      /\ stores' = [q \in Rings |-> kept(q) \cup new(q)]
      /\ fetched' = IF op = "fetch" /\ Usable(b) THEN [ring |-> r, frame |-> now, value |-> b.slots[b.read]]
                    ELSE NoFetch
  BY DEF Render
<1>2. begun \in Nat /\ now \in Nat /\ begun <= now /\ now = IF NewFrame THEN begun + 1 ELSE begun
  BY DEF StoredInv, NewFrame
<1>3. /\ RingsBegun = [q \in Rings |-> RingsBegun[q]]
      /\ \A q \in Rings : RingOf(RingsBegun[q], {NoFrame} \cup kept(q))
  BY RingsBegunOf
<1>4. \A q \in Rings : from(q) \in Nat /\ kept(q) \subseteq 0..now
  <2>1. \A q \in Rings : stores[q] \subseteq emptied..begun /\ emptied \in 0..begun
    BY DEF StoredInv
  <2>2. \A q \in Rings : changed[q] \in Nat
    BY DEF DelayedInv
  <2> QED
    BY <1>2, <2>1, <2>2
<1>5. ASSUME NEW q \in Rings
      PROVE  /\ RingTurns(RingsBegun[q], kept(q), from(q), now)
             /\ RingsBegun[q].count > 0 => RingsBegun[q].stride = context.size
  BY <1>2, <1>4, TurnsBegun
<1>6. SharedBegun.haveFrame /\ SharedBegun.lastSize = context.size
  BY SharedBegunFields DEF StoredInv
<1> HIDE DEF now, b, kept, new, from
<1>7. ASSUME NEW q \in Rings
      PROVE  /\ rings'[q].count = RingsBegun[q].count /\ rings'[q].stride = RingsBegun[q].stride
             /\ RingTurns(rings'[q], stores'[q], from(q), now)
  <2>1. CASE q = r /\ op = "store" /\ Usable(b)
    <3>1. rings'[q] = [b EXCEPT !.slots[b.write] = now] /\ stores'[q] = kept(q) \cup {now}
      BY <1>1, <1>3, <2>1 DEF b, new
    <3>2. [b EXCEPT !.slots[b.write] = now] =
            [stride |-> b.stride, count |-> b.count, read |-> b.read, write |-> b.write,
             slots |-> [b.slots EXCEPT ![b.write] = now]]
      BY <1>3 DEF RingOf, b
    <3>3. PICK X : X = {NoFrame} \cup kept(q)
      OBVIOUS
    <3>4. /\ RingOf(b, X) /\ RingTurns(b, kept(q), from(q), now)
          /\ kept(q) \subseteq 0..now /\ from(q) \in Nat
      BY <1>3, <1>4, <1>5, <2>1, <3>3 DEF b
    <3>5. RingTurns([b EXCEPT !.slots[b.write] = now], kept(q) \cup {now}, from(q), now)
      BY <1>2, <2>1, <3>4, StoredTurns
    <3> QED
      BY <2>1, <3>1, <3>2, <3>5 DEF b
  <2>2. CASE ~(q = r /\ op = "store" /\ Usable(b))
    <3>1. rings'[q] = RingsBegun[q]
      BY <1>1, <1>3, <2>2
    <3>2. stores'[q] = kept(q)
      BY <1>1, <2>2 DEF new
    <3> QED
      BY <1>5, <3>1, <3>2
  <2> QED
    BY <2>1, <2>2
<1>8. DelayedInv'
  <2>1. changed' \in [Rings -> Nat] /\ \A q \in Rings : changed'[q] = from(q)
    BY <1>1, <1>4
  <2>2. ASSUME NEW q \in Rings
        PROVE  /\ ~shared'.haveFrame => rings'[q].count = 0
               /\ rings'[q].count > 0 => rings'[q].stride = shared'.lastSize
               /\ RingTurns(rings'[q], stores'[q], changed'[q], begun')
    <3>1. shared'.haveFrame /\ shared'.lastSize = context.size
      BY <1>1, <1>6, Zenon
    <3>2. rings'[q].count > 0 => rings'[q].stride = shared'.lastSize
      BY <1>5, <1>7, <3>1
    <3>3. RingTurns(rings'[q], stores'[q], changed'[q], begun')
      BY <1>1, <1>7, <2>1, Zenon
    <3> QED
      BY <3>1, <3>2, <3>3, Zenon
  <2> QED
    BY <2>1, <2>2, Zenon DEF DelayedInv, RingTurns, Usable
<1>9. FetchedIsDelayed'
  <2>1. SUFFICES ASSUME fetched'.frame > 0 PROVE FetchedIsDelayed'
    BY Zenon DEF FetchedIsDelayed
  <2>2. op = "fetch" /\ Usable(b) /\ fetched' = [ring |-> r, frame |-> now, value |-> b.slots[b.read]]
    BY <1>1, <2>1 DEF NoFetch
  <2>3. fetched'.ring = r /\ fetched'.frame = now /\ fetched'.value = b.slots[b.read]
    BY <2>2
  <2>4. rings'[r] = b /\ stores'[r] = kept(r) /\ changed'[r] = from(r)
    BY <1>1, <2>2 DEF b, new
  <2>5. PICK c : c = b.count /\ c \in Nat \ {0} /\ c > 1 /\ b.write \in 0..(c - 1)
    BY <1>3, <2>2 DEF RingOf, Usable, b
  <2>6. SlotAgo(b, c - 1) = b.read
    <3>1. b.read = IF b.write = c - 1 THEN 0 ELSE b.write + 1
      BY <1>5, <2>2, <2>5 DEF RingTurns, b
    <3> QED
      BY <2>5, <3>1 DEF SlotAgo
  <2>7. NewestOf(b.slots[b.read], SameTurn(kept(r), from(r), now - (c - 1), c))
    <3>1. NewestOf(b.slots[SlotAgo(b, c - 1)], SameTurn(kept(r), from(r), now - (c - 1), c))
      BY <1>5, <2>2, <2>5, c - 1 \in 0..(c - 1) DEF RingTurns, b
    <3> QED
      BY <2>6, <3>1, Zenon
  <2> DEFINE due == {n \in stores'[r] : n <= now - (c - 1) /\ changed'[r] <= n /\ (now - (c - 1) - n) % ((c - 1) + 1) = 0}
  <2>8. due = SameTurn(kept(r), from(r), now - (c - 1), c)
    <3>1. (c - 1) + 1 = c
      BY <2>5
    <3> QED
      BY <2>4, <3>1, Zenon DEF SameTurn
  <2>9. due \subseteq Nat
    BY <1>4, <2>4
  <2>10. ASSUME due # {} PROVE fetched'.value = CHOOSE n \in due : \A k \in due : k <= n
    <3>1. PICK v : v = fetched'.value /\ v \in due /\ \A n \in due : n <= v
      BY <2>3, <2>7, <2>8, <2>10 DEF NewestOf
    <3> HIDE DEF due
    <3>2. \A n \in due : (\A k \in due : k <= n) => n = v
      BY <3>1, <2>9
    <3> QED
      BY <3>1, <3>2
  <2> QED
    <3>1. rings'[fetched'.ring].count = c
      BY <2>3, <2>4, <2>5
    <3> QED
      BY <2>3, <2>5, <2>10, <3>1, Zenon DEF FetchedIsDelayed
<1> QED
  BY <1>8, <1>9

LEMMA DelayedStep ==
  StoredInv /\ DelayedInv /\ FetchedIsDelayed /\ StoredInv' /\ [MultiDelayNext]_multiDelayVars
    => DelayedInv' /\ FetchedIsDelayed'
<1> SUFFICES ASSUME StoredInv, DelayedInv, FetchedIsDelayed, StoredInv', [MultiDelayNext]_multiDelayVars
             PROVE  DelayedInv' /\ FetchedIsDelayed'
  OBVIOUS
<1>1. ASSUME UNCHANGED <<rings, begun, changed, stores>>,
             shared'.haveFrame = shared.haveFrame, shared'.lastSize = shared.lastSize
      PROVE  DelayedInv'
  BY <1>1 DEF DelayedInv, RingTurns, Usable
<1>2. ASSUME UNCHANGED <<rings, changed, stores, fetched>> \/ fetched' = NoFetch
      PROVE  FetchedIsDelayed'
  BY <1>2 DEF FetchedIsDelayed, NoFetch
<1>3. ASSUME NEW size \in Resolutions, NEW onBeat \in BOOLEAN, NewContext(size, onBeat)
      PROVE  DelayedInv' /\ FetchedIsDelayed'
  BY <1>1, <1>2, <1>3 DEF NewContext
<1>4. ASSUME NEW size \in Resolutions, SameFrame(size)
      PROVE  DelayedInv' /\ FetchedIsDelayed'
  BY <1>1, <1>2, <1>4 DEF SameFrame
<1>5. ASSUME NEW e \in Instances, AddInstance(e)
      PROVE  DelayedInv' /\ FetchedIsDelayed'
  BY <1>1, <1>2, <1>5 DEF AddInstance
<1>6. ASSUME NEW e \in Instances, RemoveInstance(e)
      PROVE  DelayedInv' /\ FetchedIsDelayed'
  <2>1. FetchedIsDelayed'
    BY <1>2, <1>6 DEF RemoveInstance
  <2>2. CASE alive # {e}
    BY <1>1, <1>6, <2>1, <2>2 DEF RemoveInstance
  <2>3. CASE alive = {e}
    <3>1. \A r \in Rings : rings'[r] = NoRing
      BY <1>6, <2>3 DEF RemoveInstance
    <3>2. NoRing.count = 0 /\ ~Usable(NoRing)
      BY DEF NoRing, Usable
    <3>3. changed' \in [Rings -> Nat]
      BY <1>6 DEF RemoveInstance, DelayedInv
    <3>4. \A r \in Rings : /\ rings'[r].count = 0
                           /\ RingTurns(rings'[r], stores'[r], changed'[r], begun')
      BY <3>1, <3>2 DEF RingTurns
    <3>5. DelayedInv'
      BY <3>3, <3>4 DEF DelayedInv, RingTurns, Usable
    <3> QED
      BY <2>1, <3>5
  <2> QED
    BY <2>2, <2>3
<1>7. ASSUME NEW c \in RingConfigs, ApplyParams(c)
      PROVE  DelayedInv' /\ FetchedIsDelayed'
  <2>1. PICK s : s = [shared EXCEPT !.dirty = shared.dirty \/ c # configs]
    OBVIOUS
  <2>2. PICK w : s = [shared EXCEPT !.dirty = w]
    BY <2>1
  <2>3. s = [dirty |-> w, haveFrame |-> shared.haveFrame, lastFrame |-> shared.lastFrame,
             lastSize |-> shared.lastSize, since |-> shared.since, perBeat |-> shared.perBeat]
    BY <2>2, Zenon DEF StoredInv, SharedTyped
  <2>4. s.haveFrame = shared.haveFrame /\ s.lastSize = shared.lastSize
    BY <2>3
  <2>5. shared' = s /\ UNCHANGED <<rings, begun, changed, stores, fetched>>
    BY <1>7, <2>1 DEF ApplyParams
  <2> QED
    BY <1>1, <1>2, <2>4, <2>5
<1>8. ASSUME NEW e \in Instances, NEW op \in {"store", "fetch", "pass"}, NEW r \in Rings, Render(e, op, r)
      PROVE  DelayedInv' /\ FetchedIsDelayed'
  BY <1>8, DelayedRenderStep
<1>9. CASE UNCHANGED multiDelayVars
  BY <1>1, <1>2, <1>9 DEF multiDelayVars
<1> QED
  BY <1>3, <1>4, <1>5, <1>6, <1>7, <1>8, <1>9 DEF MultiDelayNext

\* A fetch gives what was stored to its ring exactly a delay ago, or a whole number of
\* turns before, for any number of instances and rings in whatever order they are rendered.
THEOREM FetchesAreDelayed == MultiDelaySpec => []FetchedIsDelayed
BY StoredStart, StoredStep, DelayedStart, DelayedStep, PTL DEF MultiDelaySpec

-------------------------------------------------------------------------------
(* Framebuffers: the overlays. *)

\* While there are pixels, an overlay has left what its last activation asked for less
\* the frames finished since.
OverlayInv ==
  /\ hasData \in BOOLEAN /\ frameIndex \in Nat
  /\ overlays \in [Overlays -> [remaining : Nat, duration : Nat]]
  /\ active \in [Overlays -> [from : Nat, for : Nat]]
  /\ \A o \in Overlays :
       /\ overlays[o].duration > 0 <=> overlays[o].remaining > 0
       /\ active[o].from <= frameIndex
       /\ hasData => overlays[o].remaining =
            IF frameIndex - active[o].from < active[o].for
              THEN active[o].for - (frameIndex - active[o].from) ELSE 0

\* An overlay that is painted is one whose activation has not run out.
LEMMA LastingOverlays ==
  ASSUME OverlayInv
  PROVE  hasData => Lasting = {o \in Overlays : frameIndex - active[o].from < active[o].for}
<1>1. ASSUME hasData, NEW o \in Overlays
      PROVE  (overlays[o].remaining > 0 /\ overlays[o].duration > 0)
               <=> frameIndex - active[o].from < active[o].for
  <2>1. overlays[o] \in [remaining : Nat, duration : Nat] /\ active[o] \in [from : Nat, for : Nat]
    BY DEF OverlayInv
  <2>2. PICK r \in Nat, d \in Nat, f \in Nat, n \in Nat :
          /\ overlays[o].remaining = r /\ overlays[o].duration = d
          /\ active[o].from = f /\ active[o].for = n
    BY <2>1
  <2>3. /\ d > 0 <=> r > 0
        /\ f <= frameIndex /\ frameIndex \in Nat
        /\ r = IF frameIndex - f < n THEN n - (frameIndex - f) ELSE 0
    BY <1>1, <2>2 DEF OverlayInv
  <2> QED
    BY <2>2, <2>3
<1> QED
  BY <1>1 DEF Lasting

LEMMA OverlayStart == FramebuffersInit => OverlayInv
<1> SUFFICES ASSUME FramebuffersInit PROVE OverlayInv
  OBVIOUS
<1>1. hasData \in BOOLEAN
  BY DEF FramebuffersInit
<1> QED
  BY <1>1 DEF FramebuffersInit, OverlayInv, NoOverlay

LEMMA OverlayStep == OverlayInv /\ [FramebuffersNext]_framebuffersVars => OverlayInv'
<1> SUFFICES ASSUME OverlayInv, [FramebuffersNext]_framebuffersVars PROVE OverlayInv'
  OBVIOUS
<1>u. ASSUME UNCHANGED <<hasData, frameIndex, overlays, active>> PROVE OverlayInv'
  BY <1>u DEF OverlayInv
<1>1. ASSUME NEW h \in Heights, FramebuffersResize(h) PROVE OverlayInv'
  <2>1. hasData' \in BOOLEAN
    BY <1>1 DEF FramebuffersResize, OverlayInv
  <2> QED
    BY <1>1, <2>1 DEF FramebuffersResize, OverlayInv, NoOverlay
<1>2. CASE BeginFrame
  BY <1>2, <1>u DEF BeginFrame
<1>3. CASE DrawCurrent \/ ClearFirstFrame
  BY <1>3, <1>u DEF DrawCurrent, ClearFirstFrame, histories
<1>4. ASSUME NEW s \in Slots, Save(s) \/ Restore(s) PROVE OverlayInv'
  BY <1>4, <1>u DEF Save, Restore, histories
<1>5. ASSUME NEW o \in Overlays, NEW d \in Durations, ActivateOverlay(o, d) PROVE OverlayInv'
  <2>0. d \in Nat
    BY FramebuffersAssumption
  <2>1. /\ overlays' \in [Overlays -> [remaining : Nat, duration : Nat]]
        /\ active' \in [Overlays -> [from : Nat, for : Nat]]
        /\ hasData' \in BOOLEAN /\ frameIndex' \in Nat
    BY <1>5, <2>0 DEF ActivateOverlay, OverlayInv
  <2>2. ASSUME NEW p \in Overlays
        PROVE  /\ overlays'[p].duration > 0 <=> overlays'[p].remaining > 0
               /\ active'[p].from <= frameIndex'
               /\ hasData' => overlays'[p].remaining =
                    IF frameIndex' - active'[p].from < active'[p].for
                      THEN active'[p].for - (frameIndex' - active'[p].from) ELSE 0
    <3>1. CASE p = o
      <4>1. overlays'[p] = [remaining |-> d, duration |-> d] /\ active'[p] = [from |-> frameIndex, for |-> d]
        BY <1>5, <3>1 DEF ActivateOverlay, OverlayInv
      <4> QED
        BY <4>1, <2>0, <1>5 DEF ActivateOverlay, OverlayInv
    <3>2. CASE p # o
      BY <1>5, <3>2 DEF ActivateOverlay, OverlayInv
    <3> QED
      BY <3>1, <3>2
  <2> QED
    BY <2>1, <2>2 DEF OverlayInv
<1>6. CASE FinishFrame
  <2>1. frameIndex' = frameIndex + 1 /\ UNCHANGED <<hasData, active>>
        /\ overlays' = IF hasData THEN [o \in Overlays |-> CountedDown(o)] ELSE overlays
    BY <1>6 DEF FinishFrame
  <2>2. ASSUME NEW o \in Overlays
        PROVE  LET left == IF hasData THEN CountedDown(o) ELSE overlays[o]
               IN  /\ left \in [remaining : Nat, duration : Nat]
                   /\ left.duration > 0 <=> left.remaining > 0
                   /\ active[o].from <= frameIndex + 1
                   /\ hasData => left.remaining =
                        IF frameIndex + 1 - active[o].from < active[o].for
                          THEN active[o].for - (frameIndex + 1 - active[o].from) ELSE 0
    <3>1. overlays[o] \in [remaining : Nat, duration : Nat] /\ active[o] \in [from : Nat, for : Nat]
      BY DEF OverlayInv
    <3>2. PICK r \in Nat, d \in Nat, f \in Nat, n \in Nat :
            /\ overlays[o] = [remaining |-> r, duration |-> d]
            /\ active[o] = [from |-> f, for |-> n]
      BY <3>1
    <3>3. /\ d > 0 <=> r > 0
          /\ f <= frameIndex /\ frameIndex \in Nat
          /\ hasData => r = IF frameIndex - f < n THEN n - (frameIndex - f) ELSE 0
      BY <3>2 DEF OverlayInv
    <3>4. CountedDown(o) = IF r > 0
                             THEN [remaining |-> r - 1, duration |-> IF r - 1 = 0 THEN 0 ELSE d]
                             ELSE [remaining |-> r, duration |-> d]
      BY <3>2, <3>3 DEF CountedDown, Lasting
    <3> QED
      BY <3>2, <3>3, <3>4
  <2>3. overlays' = [o \in Overlays |-> IF hasData THEN CountedDown(o) ELSE overlays[o]]
    <3>1. overlays = [o \in Overlays |-> overlays[o]]
      BY DEF OverlayInv
    <3> QED
      BY <2>1, <3>1
  <2>4. frameIndex' \in Nat /\ hasData' \in BOOLEAN /\ active' \in [Overlays -> [from : Nat, for : Nat]]
    BY <2>1 DEF OverlayInv
  <2>5. overlays' \in [Overlays -> [remaining : Nat, duration : Nat]]
    BY <2>2, <2>3
  <2> QED
    BY <2>1, <2>2, <2>3, <2>4, <2>5 DEF OverlayInv
<1>7. CASE UNCHANGED framebuffersVars
  BY <1>7, <1>u DEF framebuffersVars
<1> QED
  BY <1>1, <1>2, <1>3, <1>4, <1>5, <1>6, <1>7 DEF FramebuffersNext

\* Overlays are painted on as many frames as they were last activated for, with every
\* set of overlays, sizes and durations.
THEOREM OverlaysAlwaysLast == FramebuffersSpec => OverlaysLast
<1>1. OverlayInv /\ [FramebuffersNext]_framebuffersVars =>
        [frameIndex' = frameIndex + 1 =>
           painted' = {o \in Overlays : /\ hasData /\ o < height
                                        /\ frameIndex - active[o].from < active[o].for}]_framebuffersVars
  <2> SUFFICES ASSUME OverlayInv, [FramebuffersNext]_framebuffersVars, frameIndex' = frameIndex + 1
               PROVE  painted' = {o \in Overlays : /\ hasData /\ o < height
                                                   /\ frameIndex - active[o].from < active[o].for}
    OBVIOUS
  <2>1. frameIndex \in Nat
    BY DEF OverlayInv
  <2>2. FinishFrame
    BY <2>1 DEF FramebuffersNext, framebuffersVars, FramebuffersResize, BeginFrame, DrawCurrent,
         ClearFirstFrame, Save, Restore, ActivateOverlay
  <2>3. painted' = IF hasData THEN {o \in Lasting : o < height} ELSE {}
    BY <2>2 DEF FinishFrame
  <2> QED
    BY <2>3, LastingOverlays
<1> QED
  BY <1>1, OverlayStart, OverlayStep, PTL DEF FramebuffersSpec, OverlaysLast

-------------------------------------------------------------------------------
(* Transition: the blocks. *)

\* Each step that is counted has added one block.
BlocksInv ==
  /\ blocks \subseteq Blocks /\ steps \subseteq Blocks
  /\ Cardinality(blocks) = Cardinality(steps)

LEMMA BlocksFinite == IsFiniteSet(Blocks) /\ \A S \in SUBSET Blocks : IsFiniteSet(S)
<1>1. Side * Side - 1 \in Int
  BY TransitionAssumption
<1>2. IsFiniteSet(Blocks)
  BY <1>1, FS_Interval DEF Blocks
<1> QED
  BY <1>2, FS_Subset

\* Adding a block to a mask keeps their numbers equal.
LEMMA RevealedKeepsCount ==
  ASSUME NEW B \in SUBSET Blocks, NEW S \in SUBSET Blocks, Cardinality(B) = Cardinality(S),
         NEW t, NEW m \in Revealed(t, B, S)
  PROVE  m.blocks \subseteq Blocks /\ m.steps \subseteq Blocks /\ Cardinality(m.blocks) = Cardinality(m.steps)
<1> DEFINE step == (t * Side * Side) \div 1000
<1>1. CASE step \notin S /\ step \in Blocks
  <2>1. PICK b \in Blocks \ B : m = [blocks |-> B \cup {b}, steps |-> S \cup {step}]
    BY <1>1 DEF Revealed
  <2>2. IsFiniteSet(B) /\ IsFiniteSet(S)
    BY BlocksFinite
  <2>3. Cardinality(B \cup {b}) = Cardinality(B) + 1
    BY <2>2, b \notin B, FS_AddElement, Zenon
  <2>6. Cardinality(S \cup {step}) = Cardinality(S) + 1
    <3> HIDE DEF step
    <3> QED
      BY <2>2, <1>1, FS_AddElement, Zenon
  <2>4. m.blocks = B \cup {b} /\ m.steps = S \cup {step}
    BY <2>1
  <2> QED
    BY <2>3, <2>4, <2>6, <1>1
<1>2. CASE ~(step \notin S /\ step \in Blocks)
  BY <1>2 DEF Revealed
<1> QED
  BY <1>1, <1>2

LEMMA BlocksStart == TransitionInit => BlocksInv
BY FS_EmptySet DEF TransitionInit, BlocksInv

LEMMA BlocksStep == BlocksInv /\ [TransitionNext]_transitionVars => BlocksInv'
<1> SUFFICES ASSUME BlocksInv, [TransitionNext]_transitionVars PROVE BlocksInv'
  OBVIOUS
<1>u. ASSUME UNCHANGED <<blocks, steps>> PROVE BlocksInv'
  BY <1>u DEF BlocksInv
<1>e. ASSUME blocks' = {}, steps' = {} PROVE BlocksInv'
  BY <1>e DEF BlocksInv
<1>1. ASSUME NEW mode \in Modes, NEW d \in TransitionDurations, NEW e \in BOOLEAN,
             TransitionSetParams(mode, d, e)
      PROVE  BlocksInv'
  BY <1>1, <1>u, <1>e DEF TransitionSetParams
<1>2. ASSUME NEW size \in TransitionSizes, NEW delta \in Deltas, TransitionRender(size, delta)
      PROVE  BlocksInv'
  <2> DEFINE now   == number * delta
             began == IF started = 0 THEN now ELSE started
             over  == now - began >= fade.duration
             t     == Smooth(IF over THEN 0 ELSE ((now - began) * Steps) \div fade.duration)
             mask  == Restarted(over)
  <2>1. \/ UNCHANGED <<blocks, steps>>
        \/ \E m \in IF fade.mode = "NineRandomBlocks" THEN Revealed(t, mask.blocks, mask.steps) ELSE {mask} :
             blocks' = m.blocks /\ steps' = m.steps
    BY <1>2 DEF TransitionRender
  <2>2. /\ mask.blocks \in SUBSET Blocks /\ mask.steps \in SUBSET Blocks
        /\ Cardinality(mask.blocks) = Cardinality(mask.steps)
    BY DEF Restarted, BlocksInv
  <2>3. ASSUME NEW m \in IF fade.mode = "NineRandomBlocks" THEN Revealed(t, mask.blocks, mask.steps) ELSE {mask}
        PROVE  m.blocks \subseteq Blocks /\ m.steps \subseteq Blocks /\ Cardinality(m.blocks) = Cardinality(m.steps)
    <3> HIDE DEF t, mask
    <3>1. CASE fade.mode = "NineRandomBlocks"
      BY <3>1, <2>2, <2>3, RevealedKeepsCount
    <3>2. CASE fade.mode # "NineRandomBlocks"
      BY <3>2, <2>2, <2>3
    <3> QED
      BY <3>1, <3>2
  <2> HIDE DEF t, mask
  <2> QED
    BY <2>1, <2>3, <1>u DEF BlocksInv
<1>3. CASE UNCHANGED transitionVars
  BY <1>3, <1>u DEF transitionVars
<1> QED
  BY <1>1, <1>2, <1>3 DEF TransitionNext

\* A block that does not show the new picture can be found whenever a step looks for
\* one, whatever the number of blocks, the durations and the clock.
THEOREM BlockSearchesEnd == TransitionSpec => []BlockSearchEnds
<1>1. BlocksInv => BlockSearchEnds
  <2> SUFFICES ASSUME BlocksInv, NEW step \in Blocks \ steps, Blocks \ blocks = {} PROVE FALSE
    BY DEF BlockSearchEnds
  <2>1. blocks = Blocks
    BY DEF BlocksInv
  <2>2. Cardinality(steps) = Cardinality(Blocks)
    BY <2>1 DEF BlocksInv
  <2>3. steps = Blocks
    BY <2>2, BlocksFinite, FS_Subset DEF BlocksInv
  <2> QED
    BY <2>3
<1> QED
  BY <1>1, BlocksStart, BlocksStep, PTL DEF TransitionSpec

-------------------------------------------------------------------------------
(* Transition: the strips of a picture. *)

\* Every pixel of a strip is copied from inside the line.
Inside(s, n) ==
  /\ s.length >= 0
  /\ \A x \in 0..(s.length - 1) : s.from + (x * s.span) \div (2 * s.length) \in 0..(n - 1)

LEMMA TwoStrips ==
  ASSUME NEW n, NEW a, NEW b, Inside(a, n), Inside(b, n),
         a.to = 0, a.to + a.length = b.to, b.to + b.length = n
  PROVE  Tiled(<<a, b>>, n)
<1>1. \A i \in 1..2 : <<a, b>>[i] = IF i = 1 THEN a ELSE b
  OBVIOUS
<1>2. Len(<<a, b>>) = 2
  OBVIOUS
<1>3. \A i \in 1..2 : i = 1 \/ i = 2
  OBVIOUS
<1>4. <<a, b>>[1] = a /\ <<a, b>>[2] = b
  OBVIOUS
<1> QED
  BY <1>2, <1>3, <1>4 DEF Tiled, Inside

LEMMA ThreeStrips ==
  ASSUME NEW n, NEW a, NEW b, NEW c, Inside(a, n), Inside(b, n), Inside(c, n),
         a.to = 0, a.to + a.length = b.to, b.to + b.length = c.to, c.to + c.length = n
  PROVE  Tiled(<<a, b, c>>, n)
<1>2. Len(<<a, b, c>>) = 3
  OBVIOUS
<1>3. \A i \in 1..3 : i = 1 \/ i = 2 \/ i = 3
  OBVIOUS
<1>4. <<a, b, c>>[1] = a /\ <<a, b, c>>[2] = b /\ <<a, b, c>>[3] = c
  OBVIOUS
<1> QED
  BY <1>2, <1>3, <1>4 DEF Tiled, Inside

\* A quotient of products that share a factor.
LEMMA QuotientInside ==
  ASSUME NEW m \in Nat \ {0}, NEW p \in Nat, NEW k \in Nat, p < m * k
  PROVE  p \div m \in 0..(k - 1)
<1>1. PICK q \in Nat, r \in 0..(m - 1) : q = p \div m /\ p = m * q + r
  BY DivideNat
<1>2. q < k
  <2>1. SUFFICES ASSUME q >= k PROVE FALSE
    OBVIOUS
  <2>2. PICK d \in Nat : q = k + d
    <3>1. q - k \in Nat /\ q = k + (q - k)
      BY <2>1
    <3> QED
      BY <3>1
  <2>3. m * q = m * k + m * d /\ m * d \in Nat /\ m * k \in Nat
    BY <2>2
  <2> QED
    BY <1>1, <2>3
<1> QED
  BY <1>1, <1>2

LEMMA TimesStrict ==
  ASSUME NEW a \in Nat, NEW b \in Nat, NEW m \in Nat \ {0}, a < b
  PROVE  a * m < b * m
<1>1. PICK d \in Nat : b = a + 1 + d
  <2>1. b - a - 1 \in Nat /\ b = a + 1 + (b - a - 1)
    OBVIOUS
  <2> QED BY <2>1
<1>2. b * m = a * m + m + d * m /\ d * m \in Nat /\ a * m \in Nat
  BY <1>1
<1> QED
  BY <1>2

\* A strip that copies as many pixels as it fills.
LEMMA CopiedInside ==
  ASSUME NEW n \in Nat, NEW to, NEW of, NEW from \in Nat, NEW length \in Nat, from + length <= n
  PROVE  Inside(Strip(to, of, from, length), n)
<1> DEFINE s == Strip(to, of, from, length)
<1>1. s.length = length /\ s.from = from /\ s.span = 2 * length
  BY DEF Strip
<1>2. ASSUME NEW x \in 0..(length - 1)
      PROVE  from + (x * (2 * length)) \div (2 * length) \in 0..(n - 1)
  <2>1. 2 * length \in Nat \ {0} /\ x \in Nat /\ x < length
    OBVIOUS
  <2>2. x * (2 * length) < length * (2 * length) /\ x * (2 * length) \in Nat
    BY <2>1, TimesStrict
  <2>3. length * (2 * length) = (2 * length) * length
    OBVIOUS
  <2>4. (x * (2 * length)) \div (2 * length) \in 0..(length - 1)
    BY <2>1, <2>2, <2>3, QuotientInside
  <2> QED
    BY <2>4
<1> HIDE DEF s
<1> QED
  BY <1>1, <1>2 DEF Inside, s

\* A strip that squeezes half as many pixels, or all of them, into less.
LEMMA SqueezedInside ==
  ASSUME NEW n \in Nat, NEW to, NEW of, NEW from \in Nat, NEW length \in Nat, NEW span \in Nat,
         NEW k \in Nat, span <= 2 * k, length <= k, from + k <= n
  PROVE  Inside([to |-> to, of |-> of, from |-> from, length |-> length, span |-> span], n)
<1> DEFINE s == [to |-> to, of |-> of, from |-> from, length |-> length, span |-> span]
<1>1. s.length = length /\ s.from = from /\ s.span = span
  OBVIOUS
<1>2. ASSUME NEW x \in 0..(length - 1)
      PROVE  from + (x * span) \div (2 * length) \in 0..(n - 1)
  <2>1. 2 * length \in Nat \ {0} /\ x \in Nat /\ x < length /\ 2 * k \in Nat \ {0}
    OBVIOUS
  <2>2. PICK d \in Nat : 2 * k = span + d
    <3>1. 2 * k - span \in Nat /\ 2 * k = span + (2 * k - span)
      OBVIOUS
    <3> QED BY <3>1
  <2>3. x * (2 * k) = x * span + x * d /\ x * span \in Nat /\ x * d \in Nat
    BY <2>1, <2>2
  <2>4. x * (2 * k) < length * (2 * k)
    BY <2>1, TimesStrict
  <2>5. length * (2 * k) = (2 * length) * k /\ length * (2 * k) \in Nat
    OBVIOUS
  <2>6. x * span < (2 * length) * k
    BY <2>3, <2>4, <2>5
  <2>7. (x * span) \div (2 * length) \in 0..(k - 1)
    BY <2>1, <2>3, <2>6, QuotientInside
  <2> QED
    BY <2>7
<1> HIDE DEF s
<1> QED
  BY <1>1, <1>2 DEF Inside, s

\* The part of n that t thousandths, or half of them, stand for.
LEMMA PortionOf ==
  ASSUME NEW n \in Nat, NEW p \in Nat, p <= 1000 * n
  PROVE  p \div 1000 \in 0..n /\ p \div 2000 \in 0..(n \div 2)
<1>1. PICK a \in Nat, r \in 0..999 : a = p \div 1000 /\ p = 1000 * a + r
  BY DivideNat, 1000 \in Nat \ {0}
<1>2. PICK b \in Nat, s \in 0..1999 : b = p \div 2000 /\ p = 2000 * b + s
  BY DivideNat, 2000 \in Nat \ {0}
<1>3. PICK c \in Nat, u \in 0..1 : c = n \div 2 /\ n = 2 * c + u
  BY DivideNat, 2 \in Nat \ {0}
<1>4. a <= n
  BY <1>1
<1>5. b <= c
  BY <1>2, <1>3
<1> QED
  BY <1>1, <1>2, <1>3, <1>4, <1>5

LEMMA PushesTiled ==
  ASSUME NEW n \in Nat, NEW o \in 0..n
  PROVE  /\ Tiled(PushUp(n, o), n) /\ Tiled(WipeUp(n, o), n)
         /\ Tiled(PushDown(n, o), n) /\ Tiled(WipeDown(n, o), n)
         /\ Tiled(SplitUpper(n, o), n)
<1> USE DEF Strip
<1>1. /\ Inside(Strip(0, "A", n - o, o), n)     /\ Inside(Strip(o, "B", 0, n - o), n)
      /\ Inside(Strip(0, "A", 0, o), n)         /\ Inside(Strip(o, "B", o, n - o), n)
      /\ Inside(Strip(0, "B", o, n - o), n)     /\ Inside(Strip(n - o, "A", 0, o), n)
      /\ Inside(Strip(0, "B", 0, n - o), n)     /\ Inside(Strip(n - o, "A", n - o, o), n)
  <2> HIDE DEF Strip
  <2>1. n - o \in Nat /\ o \in Nat /\ 0 \in Nat /\ (n - o) + o <= n /\ 0 + (n - o) <= n
        /\ 0 + o <= n /\ o + (n - o) <= n
    OBVIOUS
  <2> QED
    BY <2>1, CopiedInside
<1>2. Tiled(PushUp(n, o), n)
  BY <1>1, TwoStrips DEF PushUp
<1>3. Tiled(WipeUp(n, o), n)
  BY <1>1, TwoStrips DEF WipeUp
<1>4. Tiled(PushDown(n, o), n)
  BY <1>1, TwoStrips DEF PushDown
<1>5. Tiled(WipeDown(n, o), n)
  BY <1>1, TwoStrips DEF WipeDown
<1>6. Tiled(SplitUpper(n, o), n)
  BY <1>1, TwoStrips DEF SplitUpper
<1> QED
  BY <1>2, <1>3, <1>4, <1>5, <1>6

LEMMA CentresTiled ==
  ASSUME NEW n \in Nat, NEW o \in 0..(n \div 2)
  PROVE  Tiled(ToCenter(n, o), n) /\ Tiled(Squeezed(n, o), n)
<1>1. PICK h \in Nat : h = n \div 2 /\ n - 2 * h \in {0, 1}
  <2>1. n \div 2 \in Nat /\ n - 2 * (n \div 2) \in {0, 1}
    OBVIOUS
  <2> QED BY <2>1
<1>2. /\ o \in Nat /\ n - 2 * o \in Nat /\ h - o \in Nat /\ (h - o) + o <= n
      /\ o + (n - 2 * o) <= n /\ h + o <= n /\ 0 \in Nat
      /\ n <= 2 * (n - h) /\ n - h \in Nat /\ o <= n - h /\ h + (n - h) <= n /\ 0 + (n - h) <= n
      /\ 2 * n \in Nat /\ n - 2 * o <= n /\ 0 + n <= n /\ 2 * n <= 2 * n
  BY <1>1
<1>3. Tiled(ToCenter(n, o), n)
  <2>1. /\ Inside(Strip(0, "A", h - o, o), n) /\ Inside(Strip(o, "B", o, n - 2 * o), n)
        /\ Inside(Strip(n - o, "A", h, o), n)
    BY <1>2, CopiedInside
  <2> QED
    BY <1>1, <1>2, <2>1, ThreeStrips DEF ToCenter, Strip
<1>4. Tiled(Squeezed(n, o), n)
  <2>1. Inside([to |-> 0, of |-> "A", from |-> 0, length |-> o, span |-> n], n)
    BY <1>2, SqueezedInside
  <2>2. Inside([to |-> o, of |-> "B", from |-> 0, length |-> n - 2 * o, span |-> 2 * n], n)
    BY <1>2, SqueezedInside
  <2>3. Inside([to |-> n - o, of |-> "A", from |-> h, length |-> o, span |-> n], n)
    BY <1>2, SqueezedInside
  <2> QED
    BY <1>1, <1>2, <2>1, <2>2, <2>3, ThreeStrips DEF Squeezed
<1> QED
  BY <1>3, <1>4

LEMMA TimesKeepsOrder ==
  ASSUME NEW a \in Nat, NEW b \in Nat, NEW m \in Nat, a <= b
  PROVE  a * m <= b * m /\ a * m \in Nat /\ b * m \in Nat
<1>1. PICK d \in Nat : b = a + d
  <2>1. b - a \in Nat /\ b = a + (b - a)
    OBVIOUS
  <2> QED BY <2>1
<1>2. b * m = a * m + d * m /\ d * m \in Nat /\ a * m \in Nat
  BY <1>1
<1> QED
  BY <1>2

\* The blocks of a line of any length, narrower than Side pixels or not.
LEMMA BlocksDivide == ASSUME NEW n \in Nat PROVE Divided(n)
<1>1. Side \in Nat \ {0}
  BY TransitionAssumption
<1>2. PICK w \in Nat, r \in 0..(Side - 1) : w = n \div Side /\ n = Side * w + r
  BY <1>1, DivideNat
<1> DEFINE From(i) == i * w
           Final == Side - 1
<1>3. Final \in Nat /\ From(Final) \in Nat /\ From(Final) <= n
  <2>1. Final \in Nat /\ Final <= Side
    BY <1>1
  <2>2. Final * w <= Side * w /\ Final * w \in Nat
    BY <1>1, <1>2, <2>1, TimesKeepsOrder
  <2> QED
    BY <1>1, <1>2, <2>1, <2>2
<1>4. \A i, j \in Nat : i <= j => From(i) <= From(j) /\ From(i) \in Nat /\ From(j) \in Nat
  BY <1>2, TimesKeepsOrder
<1>5. \A i \in 0..Final : BlockRange(i, n) = From(i)..(IF i = Final THEN n - 1 ELSE From(i + 1) - 1)
  BY <1>2 DEF BlockRange
<1>6. ASSUME NEW x \in 0..(n - 1), x < From(Final)
      PROVE  \E i \in 0..Final : i # Final /\ From(i) <= x /\ x < From(i + 1)
  <2>1. w # 0
    BY <1>2, <1>3, <1>6
  <2>2. PICK i \in Nat, rest \in 0..(w - 1) : i = x \div w /\ x = w * i + rest
    <3>1. w \in Nat \ {0} /\ x \in Nat
      BY <1>2, <2>1
    <3> HIDE DEF From, Final
    <3> QED
      BY <3>1, DivideNat
  <2>3. i \in 0..(Final - 1)
    <3>1. x < w * Final
      BY <1>2, <1>3, <1>6
    <3> HIDE DEF From, Final
    <3> QED
      BY <1>2, <1>3, <2>1, <2>2, <3>1, QuotientInside
  <2>4. From(i) <= x /\ x < From(i + 1)
    <3>1. (i + 1) * w = w * i + w /\ i * w = w * i /\ w * i \in Nat
      BY <1>2, <2>2
    <3> QED
      BY <1>2, <2>2, <3>1
  <2> HIDE DEF From
  <2>5. i \in 0..Final /\ i # Final
    BY <1>3, <2>3
  <2> QED
    BY <2>4, <2>5
<1> HIDE DEF From, Final
<1>7. ASSUME NEW i \in 0..Final PROVE BlockRange(i, n) \subseteq 0..(n - 1)
  <2>1. From(i) \in Nat
    BY <1>3, <1>4
  <2>2. i # Final => From(i + 1) <= From(Final) /\ From(i + 1) \in Nat
    BY <1>3, <1>4
  <2> QED
    BY <1>3, <1>5, <2>1, <2>2
<1>8. ASSUME NEW x \in 0..(n - 1)
      PROVE  \E i \in 0..Final : \A j \in 0..Final : x \in BlockRange(j, n) <=> j = i
  <2>1. PICK i \in 0..Final : From(i) <= x /\ (i # Final => x < From(i + 1))
    <3>1. CASE x < From(Final)
      BY <1>6, <3>1
    <3>2. CASE ~(x < From(Final))
      BY <1>3, <3>2
    <3> QED
      BY <3>1, <3>2
  <2>2. ASSUME NEW j \in 0..Final, j < i PROVE x \notin BlockRange(j, n)
    <3>1. From(j + 1) <= From(i) /\ From(j + 1) \in Nat /\ From(i) \in Nat
      BY <1>3, <1>4, <2>2
    <3>2. BlockRange(j, n) = From(j)..(From(j + 1) - 1)
      BY <1>3, <1>5, <2>2
    <3> QED
      BY <2>1, <3>1, <3>2
  <2>3. ASSUME NEW j \in 0..Final, i < j PROVE x \notin BlockRange(j, n)
    <3>1. From(i + 1) <= From(j) /\ From(i + 1) \in Nat /\ From(j) \in Nat
      BY <1>3, <1>4, <2>3
    <3>2. x < From(i + 1)
      BY <1>3, <2>1, <2>3
    <3>3. BlockRange(j, n) = From(j)..(IF j = Final THEN n - 1 ELSE From(j + 1) - 1)
      BY <1>5
    <3> QED
      BY <3>1, <3>2, <3>3
  <2>4. x \in BlockRange(i, n)
    <3>1. From(i) \in Nat /\ (i # Final => From(i + 1) \in Nat)
      BY <1>3, <1>4
    <3> QED
      BY <1>5, <2>1, <3>1
  <2>5. \A j \in 0..Final : j = i \/ j < i \/ i < j
    BY <1>3
  <2> QED
    BY <2>2, <2>3, <2>4, <2>5
<1> QED
  BY <1>7, <1>8 DEF Divided, Final

LineModes   == RowModes \cup ColumnModes
Thousandths == 0..1000
HalvesTiled(mode, n, t) == \A upper \in BOOLEAN : Tiled(Line(mode, n, t, upper), n)

\* Each line of a mode that moves rows or columns is tiled, in both halves.
LEMMA LinesTiled ==
  ASSUME NEW mode \in LineModes, NEW n \in Nat, NEW t \in Thousandths
  PROVE  HalvesTiled(mode, n, t)
<1> SUFFICES ASSUME NEW upper \in BOOLEAN PROVE Tiled(Line(mode, n, t, upper), n)
  BY DEF HalvesTiled
<1>0. mode \in RowModes \cup ColumnModes /\ t \in 0..1000
  BY DEF LineModes, Thousandths
<1>1. (t * n) \div 1000 \in 0..n /\ (t * n) \div 2000 \in 0..(n \div 2)
  <2>1. t * n \in Nat /\ 1000 * n = t * n + (1000 - t) * n /\ (1000 - t) * n \in Nat
    BY <1>0
  <2>2. t * n \in Nat /\ t * n <= 1000 * n
    BY <2>1
  <2> DEFINE p == t * n
  <2>3. p \in Nat /\ p <= 1000 * n
    BY <2>2
  <2>4. p \div 1000 \in 0..n /\ p \div 2000 \in 0..(n \div 2)
    <3> HIDE DEF p
    <3> QED
      BY <2>3, PortionOf
  <2> QED
    BY <2>4
<1>2. CASE mode \in {"LeftRightPush", "TopBottomPush"}
  BY <1>1, <1>2, PushesTiled DEF Line
<1>3. CASE mode \in {"RightLeftPush", "BottomTopPush"}
  BY <1>1, <1>3, PushesTiled DEF Line
<1>4. CASE mode \in {"LeftRightWipe", "TopBottomWipe"}
  BY <1>1, <1>4, PushesTiled DEF Line
<1>5. CASE mode \in {"RightLeftWipe", "BottomTopWipe"}
  BY <1>1, <1>5, PushesTiled DEF Line
<1>6. CASE mode = "SplitLeftRightPush"
  BY <1>1, <1>6, PushesTiled DEF Line
<1>7. CASE mode = "LeftRightToCenterPush"
  BY <1>1, <1>7, CentresTiled DEF Line
<1>8. CASE mode = "LeftRightToCenterSqueeze"
  BY <1>1, <1>8, CentresTiled DEF Line
<1> QED
  BY <1>0, <1>2, <1>3, <1>4, <1>5, <1>6, <1>7, <1>8 DEF RowModes, ColumnModes

\* What the pictures were drawn with, and the clock.
DrawnInv ==
  /\ fade.duration \in Nat \ {0}
  /\ started \in Int /\ number \in Nat
  /\ drawn.mode # "none" => drawn.size \in Nat \X Nat /\ drawn.t \in Thousandths

LEMMA SmoothInRange == ASSUME NEW progress \in Int PROVE Smooth(progress) \in Thousandths
<1> DEFINE p == (IF progress < 0 THEN -progress ELSE progress) % (2 * Steps)
<1>1. Steps \in Nat \ {0} /\ 2 * Steps \in Nat \ {0}
  BY TransitionAssumption
<1>2. (IF progress < 0 THEN -progress ELSE progress) \in Nat
  OBVIOUS
<1>3. p \in 0..(2 * Steps - 1)
  BY <1>1, <1>2, DivideNat
<1> HIDE DEF p
<1>4. IF p <= Steps THEN p \in 0..Steps ELSE 2 * Steps - p \in 0..Steps
  BY <1>1, <1>3
<1>5. Eased \in [0..Steps -> 0..1000]
  BY TransitionAssumption
<1>6. (IF p <= Steps THEN Eased[p] ELSE Eased[2 * Steps - p]) \in Thousandths
  BY <1>4, <1>5 DEF Thousandths
<1> QED
  BY <1>6 DEF Smooth, p

LEMMA DrawnStart == TransitionInit => DrawnInv
BY DEF TransitionInit, DrawnInv

LEMMA DrawnStep == DrawnInv /\ [TransitionNext]_transitionVars => DrawnInv'
<1> SUFFICES ASSUME DrawnInv, [TransitionNext]_transitionVars PROVE DrawnInv'
  OBVIOUS
<1>1. ASSUME NEW mode \in Modes, NEW d \in TransitionDurations, NEW e \in BOOLEAN,
             TransitionSetParams(mode, d, e)
      PROVE  DrawnInv'
  <2>1. fade'.duration \in Nat \ {0}
    BY <1>1, TransitionAssumption DEF TransitionSetParams
  <2>2. started' \in Int /\ number' \in Nat
    BY <1>1 DEF TransitionSetParams, DrawnInv
  <2>3. drawn'.mode = "none"
    BY <1>1 DEF TransitionSetParams
  <2> QED
    BY <2>1, <2>2, <2>3 DEF DrawnInv
<1>2. ASSUME NEW size \in TransitionSizes, NEW delta \in Deltas, TransitionRender(size, delta)
      PROVE  DrawnInv'
  <2> DEFINE now      == number * delta
             began    == IF started = 0 THEN now ELSE started
             over     == now - began >= fade.duration
             progress == IF over THEN 0 ELSE ((now - began) * Steps) \div fade.duration
             t        == Smooth(progress)
  <2>1. now \in Int /\ began \in Int /\ number + 1 \in Nat
    <3>1. number \in Nat /\ delta \in Nat /\ started \in Int
      BY TransitionAssumption DEF DrawnInv
    <3> QED
      BY <3>1
  <2>2. progress \in Int
    <3>1. fade.duration \in Nat \ {0} /\ Steps \in Nat /\ now - began \in Int
      BY <2>1, TransitionAssumption DEF DrawnInv
    <3> HIDE DEF now, began, over
    <3>2. (now - began) * Steps \in Int
      BY <3>1
    <3>3. ((now - began) * Steps) \div fade.duration \in Int
      BY <3>1, <3>2
    <3> QED
      BY <3>3
  <2>3. t \in Thousandths
    <3> HIDE DEF progress
    <3> QED
      BY <2>2, SmoothInRange
  <2>4. size \in Nat \X Nat
    BY TransitionAssumption
  <2>5. UNCHANGED fade /\ number' = number + 1
        /\ \/ UNCHANGED <<started, drawn>>
           \/ started' \in {now, began} /\ drawn' = [mode |-> fade.mode, size |-> size, t |-> t]
    BY <1>2 DEF TransitionRender
  <2> HIDE DEF t, now, began
  <2> QED
    BY <2>1, <2>3, <2>4, <2>5 DEF DrawnInv
<1>3. CASE UNCHANGED transitionVars
  BY <1>3 DEF transitionVars, DrawnInv
<1> QED
  BY <1>1, <1>2, <1>3 DEF TransitionNext

\* For every size, easing table, duration, clock and number of blocks: a mode that moves
\* rows or columns draws each pixel exactly once and from inside a buffer, and the
\* blocks of NineRandomBlocks part the picture.
THEOREM PicturesAreTiled == TransitionSpec => []PictureTiled
<1>1. DrawnInv => PictureTiled
  <2> SUFFICES ASSUME DrawnInv PROVE PictureTiled
    OBVIOUS
  <2>1. ASSUME drawn.mode \in LineModes
        PROVE  HalvesTiled(drawn.mode, drawn.size[1], drawn.t) /\ HalvesTiled(drawn.mode, drawn.size[2], drawn.t)
    <3>1. drawn.size[1] \in Nat /\ drawn.size[2] \in Nat /\ drawn.t \in Thousandths
      BY <2>1 DEF DrawnInv, LineModes, RowModes, ColumnModes
    <3> QED
      BY <2>1, <3>1, LinesTiled
  <2>2. drawn.mode \in RowModes => HalvesTiled(drawn.mode, drawn.size[1], drawn.t)
    BY <2>1 DEF LineModes
  <2>3. drawn.mode \in ColumnModes => HalvesTiled(drawn.mode, drawn.size[2], drawn.t)
    BY <2>1 DEF LineModes
  <2>4. drawn.mode = "NineRandomBlocks" => Divided(drawn.size[1]) /\ Divided(drawn.size[2])
    BY BlocksDivide DEF DrawnInv
  <2> QED
    BY <2>2, <2>3, <2>4, Zenon DEF PictureTiled, HalvesTiled
<1> QED
  BY <1>1, DrawnStart, DrawnStep, PTL DEF TransitionSpec

FadeTyped ==
  /\ fade \in [enabled : BOOLEAN, mode : Modes, duration : {1} \cup TransitionDurations]
  /\ started \in Int /\ number \in 0..MaxFrameNumber

LEMMA FadeTypedStep == FadeTyped /\ [TransitionNext]_transitionVars => FadeTyped'
<1> SUFFICES ASSUME FadeTyped, [TransitionNext]_transitionVars PROVE FadeTyped'
  OBVIOUS
<1>1. ASSUME NEW mode \in Modes, NEW d \in TransitionDurations, NEW e \in BOOLEAN,
             TransitionSetParams(mode, d, e)
      PROVE  FadeTyped'
  BY <1>1 DEF TransitionSetParams, FadeTyped
<1>2. ASSUME NEW size \in TransitionSizes, NEW delta \in Deltas, TransitionRender(size, delta)
      PROVE  FadeTyped'
  <2>1. number \in Nat /\ delta \in Nat /\ started \in Int
    BY TransitionAssumption DEF FadeTyped
  <2>2. number * delta \in Int
    BY <2>1
  <2>3. number' \in 0..MaxFrameNumber /\ fade' = fade
    BY <1>2, TransitionAssumption DEF TransitionRender, FadeTyped
  <2>4. started' \in {started, number * delta}
    BY <1>2 DEF TransitionRender
  <2> QED
    BY <2>1, <2>2, <2>3, <2>4 DEF FadeTyped
<1>3. CASE UNCHANGED transitionVars
  BY <1>3 DEF transitionVars, FadeTyped
<1> QED
  BY <1>1, <1>2, <1>3 DEF TransitionNext

\* The mask never has a block, nor counts a step, that the picture does not have.
THEOREM TransitionTypes == TransitionSpec => []TransitionTypeOK
<1>1. TransitionInit => BlocksInv /\ FadeTyped
  <2>1. TransitionInit => FadeTyped
    BY TransitionAssumption DEF TransitionInit, FadeTyped, Modes
  <2> QED
    BY <2>1, BlocksStart
<1>2. BlocksInv /\ FadeTyped => TransitionTypeOK
  BY DEF BlocksInv, FadeTyped, TransitionTypeOK
<1> QED
  BY <1>1, <1>2, BlocksStep, FadeTypedStep, PTL DEF TransitionSpec

-------------------------------------------------------------------------------
(* BeatDecay: a beat's value wears off. *)

WornTyped ==
  /\ worn \in [kind : DecayKinds, set : Asked, current : 1..MaxLevel, remaining : 0..Slowest]
  /\ level \in 1..MaxLevel /\ beaten \in 1..MaxLevel
  /\ since \in -1..Longest /\ calm \in 0..Longest /\ undisturbed \in BOOLEAN
  /\ worn.kind # "MovingParticle" => since >= 0
  /\ undisturbed => worn.set.triggered /\ (worn.kind # "Colorfade" => beaten = worn.set.onBeat)

Between(v, a, b) == v \in Lower(a, b)..Higher(a, b)

\* Mosaic: the steps that are left do not lead past the base.
MosaicWears ==
  LET s == worn.set
  IN  /\ worn.remaining <= Higher(Slowest - calm, 0)
      /\ calm > Slowest => level = s.base
      /\ undisturbed =>
           /\ worn.remaining <= Higher(s.duration - 1 - since, 0)
           /\ Between(level, s.base, s.onBeat)
           /\ since >= Higher(1, s.duration) => level = s.base
           /\ worn.remaining > 0 =>
                /\ Between(worn.current, s.base, s.onBeat)
                /\ worn.remaining * (Distance(s.base, s.onBeat) \div s.duration)
                     <= Distance(worn.current, s.base)

\* RotoBlitter: three closer with each frame, on the side where the beat's value is.
Beyond(v, base, onBeat, far) ==
  IF base < onBeat THEN v <= Higher(base, base + far) ELSE v >= Lower(base, base - far)

RotoWears ==
  LET s == worn.set
  IN  /\ Beyond(worn.current, s.base, s.onBeat, MaxLevel - 3 * calm)
      /\ calm > 0 => /\ Beyond(level, s.base, s.onBeat, MaxLevel - 3 * (calm - 1))
                     /\ IF s.base < s.onBeat THEN level >= s.base ELSE level <= s.base
      /\ undisturbed =>
           /\ Between(worn.current, s.base, s.onBeat) /\ Between(level, s.base, s.onBeat)
           /\ Beyond(worn.current, s.base, s.onBeat, Distance(s.base, s.onBeat) - 3 * (since + 1))
           /\ Beyond(level, s.base, s.onBeat, Distance(s.base, s.onBeat) - 3 * since)

\* Colorfade and MovingParticle: one closer, or more; the particle may stay one below.
NearBase(v, base, n, low) == v <= base + Higher(n, 0) /\ v >= base - Higher(n, low)

FadeWears ==
  LET base == worn.set.base
  IN  /\ NearBase(worn.current, base, MaxLevel - calm, 0)
      /\ calm > 0 => NearBase(level, base, MaxLevel - calm, 0)
      /\ undisturbed =>
           /\ worn.current = level /\ Between(level, beaten, base)
           /\ NearBase(level, base, Distance(beaten, base) - since, 0)

ParticleWears ==
  LET base == worn.set.base
  IN  /\ NearBase(worn.current, base, MaxLevel - calm, 1)
      /\ calm > 0 => NearBase(level, base, MaxLevel - (calm - 1), 1)
      /\ undisturbed =>
           /\ Between(worn.current, beaten, base)
           /\ NearBase(worn.current, base, Distance(beaten, base) - (since + 1), 1)
           /\ since >= 0 => /\ Between(level, beaten, base)
                            /\ NearBase(level, base, Distance(beaten, base) - since, 1)

WornInv ==
  /\ WornTyped
  /\ worn.kind = "Mosaic" => MosaicWears
  /\ worn.kind = "RotoBlitter" => RotoWears
  /\ worn.kind = "Colorfade" => FadeWears
  /\ worn.kind = "MovingParticle" => ParticleWears

LEMMA SlowestIsLongest ==
  /\ Slowest \in Nat /\ WearFrames \subseteq 0..Slowest
  /\ Longest \in Nat /\ Longest = Slowest + MaxLevel + 1
<1>1. PICK d \in WearFrames : \A e \in WearFrames : e <= d
  BY BeatDecayAssumption
<1>2. Slowest \in WearFrames /\ \A e \in WearFrames : e <= Slowest
  BY <1>1 DEF Slowest
<1> QED
  BY <1>2, BeatDecayAssumption DEF Longest

LEMMA WornStarts == BeatDecayInit => WornInv
<1> SUFFICES ASSUME BeatDecayInit PROVE WornInv
  OBVIOUS
<1>1. PICK kind \in DecayKinds, s \in Asked :
        worn = [kind |-> kind, set |-> s, current |-> s.base, remaining |-> 0]
  BY DEF BeatDecayInit, AtRest
<1>2. s.base \in 1..MaxLevel /\ MaxLevel \in Nat
  BY BeatDecayAssumption DEF Asked
<1>3. level = s.base /\ beaten = s.base /\ since = 0 /\ calm = 0 /\ undisturbed = FALSE
  BY <1>1 DEF BeatDecayInit
<1>4. /\ worn.kind = kind /\ worn.set = s /\ worn.current = s.base /\ worn.remaining = 0
  BY <1>1
<1>5. WornTyped
  <2>1. worn \in [kind : DecayKinds, set : Asked, current : 1..MaxLevel, remaining : 0..Slowest]
    BY <1>1, <1>2, SlowestIsLongest
  <2>2. /\ level \in 1..MaxLevel /\ beaten \in 1..MaxLevel
        /\ since \in -1..Longest /\ calm \in 0..Longest /\ since >= 0
    BY <1>2, <1>3, SlowestIsLongest
  <2> QED
    BY <1>3, <2>1, <2>2 DEF WornTyped
<1>6. MosaicWears /\ RotoWears /\ FadeWears /\ ParticleWears
  BY <1>2, <1>3, <1>4, SlowestIsLongest
     DEF MosaicWears, RotoWears, FadeWears, ParticleWears, Beyond, NearBase, Higher, Lower
<1> QED
  BY <1>5, <1>6 DEF WornInv

\* What is known of a setting and of a frame's history.
LEMMA AskedIsLevel ==
  ASSUME NEW s \in Asked
  PROVE  /\ s.base \in 1..MaxLevel /\ s.onBeat \in 1..MaxLevel /\ s.duration \in 0..Slowest
         /\ s.triggered \in BOOLEAN /\ MaxLevel \in Nat
BY BeatDecayAssumption, SlowestIsLongest DEF Asked

LEMMA SetParamsKeeps ==
  ASSUME WornInv, NEW s \in Asked, DecaySetParams(s)
  PROVE  WornInv'
<1>0. WornTyped /\ worn.set \in Asked
  BY DEF WornInv, WornTyped
<1>1. PICK c \in 1..MaxLevel :
        /\ c = (IF FallsBack(s) THEN s.base ELSE worn.current)
        /\ worn' = [worn EXCEPT !.set = s, !.current = c]
  <2>1. s.base \in 1..MaxLevel /\ worn.current \in 1..MaxLevel
    BY <1>0, AskedIsLevel DEF WornTyped
  <2>2. worn' = [worn EXCEPT !.set = s, !.current = IF FallsBack(s) THEN s.base ELSE worn.current]
    BY DEF DecaySetParams
  <2> QED
    BY <2>1, <2>2
<1>2. /\ worn'.kind = worn.kind /\ worn'.set = s /\ worn'.current = c
      /\ worn'.remaining = worn.remaining
      /\ worn' \in [kind : DecayKinds, set : Asked, current : 1..MaxLevel, remaining : 0..Slowest]
  BY <1>0, <1>1 DEF WornTyped
<1>3. /\ undisturbed' = (undisturbed /\ s = worn.set) /\ calm' = (IF s = worn.set THEN calm ELSE 0)
      /\ level' = level /\ since' = since /\ beaten' = beaten
  BY DEF DecaySetParams
<1>4. WornTyped'
  <2>1. /\ level' \in 1..MaxLevel /\ beaten' \in 1..MaxLevel /\ since' \in -1..Longest
        /\ worn'.kind # "MovingParticle" => since' >= 0
    BY <1>0, <1>2, <1>3 DEF WornTyped
  <2>2. calm' \in 0..Longest
    BY <1>0, <1>3, SlowestIsLongest DEF WornTyped
  <2>3. /\ undisturbed' \in BOOLEAN
        /\ undisturbed' => worn'.set.triggered /\ (worn'.kind # "Colorfade" => beaten' = worn'.set.onBeat)
    <3>1. undisturbed' \in BOOLEAN
      BY <1>3, Zenon
    <3>2. undisturbed' => undisturbed /\ s = worn.set
      BY <1>3, Zenon
    <3>3. undisturbed => worn.set.triggered /\ (worn.kind # "Colorfade" => beaten = worn.set.onBeat)
      BY <1>0 DEF WornTyped
    <3> QED
      BY <1>2, <1>3, <3>1, <3>2, <3>3, Zenon
  <2> QED
    BY <1>2, <2>1, <2>2, <2>3 DEF WornTyped
<1>5. /\ s.base \in 1..MaxLevel /\ s.onBeat \in 1..MaxLevel /\ MaxLevel \in Nat /\ c \in 1..MaxLevel
      /\ Slowest \in Nat /\ Longest \in Nat /\ worn.remaining \in 0..Slowest /\ level \in 1..MaxLevel
      /\ s.duration \in 0..Slowest
  BY <1>0, AskedIsLevel, SlowestIsLongest DEF WornTyped
<1>6. CASE s # worn.set
  <2>1. calm' = 0 /\ undisturbed' = FALSE
    BY <1>3, <1>6
  <2>2. MosaicWears' /\ RotoWears' /\ FadeWears' /\ ParticleWears'
    BY <2>1, <1>2, <1>3, <1>5
       DEF MosaicWears, RotoWears, FadeWears, ParticleWears, Beyond, NearBase, Higher, Lower
  <2> QED
    BY <1>4, <2>2 DEF WornInv
<1>7. CASE s = worn.set
  <2>1. calm' = calm /\ undisturbed' = undisturbed
    BY <1>0, <1>3, <1>7 DEF WornTyped
  <2>2. ASSUME worn.kind = "Mosaic" PROVE MosaicWears'
    <3>1. MosaicWears /\ (c = worn.current \/ worn.remaining = 0)
      BY <2>2, <1>1, SMTT(30) DEF WornInv, FallsBack
    <3>2. CASE c = worn.current
      BY <3>1, <3>2, <2>1, <1>2, <1>3, <1>7, ZenonT(30) DEF MosaicWears
    <3>3. CASE worn.remaining = 0
      <4>1. ~(worn'.remaining > 0)
        BY <3>3, <1>2
      <4> QED
        BY <3>1, <4>1, <2>1, <1>2, <1>3, <1>7 DEF MosaicWears
    <3> QED
      BY <3>1, <3>2, <3>3
  <2>3. ASSUME worn.kind = "RotoBlitter" PROVE RotoWears'
    <3>1. RotoWears /\ (c = worn.current \/ (c = s.base /\ ~s.triggered))
      BY <2>3, <1>1, <1>7, SMTT(30) DEF WornInv, FallsBack
    <3>2. CASE c = worn.current
      BY <3>1, <3>2, <2>1, <1>2, <1>3, <1>7, ZenonT(30) DEF RotoWears
    <3>3. CASE c = s.base /\ ~s.triggered
      <4>1. ~undisturbed /\ calm \in Nat
        BY <3>3, <1>0, <1>7, SlowestIsLongest DEF WornTyped
      <4>2. Beyond(c, s.base, s.onBeat, MaxLevel - 3 * calm)
        BY <3>3, <4>1, <1>5 DEF Beyond, Higher, Lower
      <4> QED
        BY <3>1, <4>1, <4>2, <2>1, <1>2, <1>3, <1>7 DEF RotoWears
    <3> QED
      BY <3>1, <3>2, <3>3
  <2>4. ASSUME worn.kind = "Colorfade" PROVE FadeWears'
    <3>1. FadeWears /\ (c = worn.current \/ (c = s.base /\ ~s.triggered))
      BY <2>4, <1>1, <1>7, SMTT(30) DEF WornInv, FallsBack
    <3>2. CASE c = worn.current
      BY <3>1, <3>2, <2>1, <1>2, <1>3, <1>7 DEF FadeWears
    <3>3. CASE c = s.base /\ ~s.triggered
      <4>1. ~undisturbed /\ calm \in Nat
        BY <3>3, <1>0, <1>7, SlowestIsLongest DEF WornTyped
      <4>2. NearBase(c, s.base, MaxLevel - calm, 0)
        BY <3>3, <4>1, <1>5, SMTT(30) DEF NearBase, Higher
      <4> QED
        BY <3>1, <4>1, <4>2, <2>1, <1>2, <1>3, <1>7 DEF FadeWears
    <3> QED
      BY <3>1, <3>2, <3>3
  <2>5. ASSUME worn.kind = "MovingParticle" PROVE ParticleWears'
    <3>1. ParticleWears /\ c = worn.current
      BY <2>5, <1>1 DEF WornInv, FallsBack
    <3> QED
      BY <3>1, <2>1, <1>2, <1>3, <1>7 DEF ParticleWears
  <2> QED
    BY <1>2, <1>4, <2>2, <2>3, <2>4, <2>5 DEF WornInv
<1> QED
  BY <1>6, <1>7


LEMMA TooSmallKeeps ==
  ASSUME WornInv, NEW heard \in BOOLEAN, RenderTooSmall(heard)
  PROVE  WornInv'
<1>0. WornTyped /\ worn.set \in Asked /\ worn.kind = "MovingParticle" /\ worn.set.triggered
  BY DEF WornInv, WornTyped, RenderTooSmall
<1>1. PICK b \in 1..MaxLevel : b = worn.set.onBeat /\ worn' = [worn EXCEPT !.current = b]
  BY <1>0, AskedIsLevel DEF RenderTooSmall
<1>2. /\ worn'.kind = worn.kind /\ worn'.set = worn.set /\ worn'.current = b
      /\ worn' \in [kind : DecayKinds, set : Asked, current : 1..MaxLevel, remaining : 0..Slowest]
  BY <1>0, <1>1 DEF WornTyped
<1>3. since' = -1 /\ calm' = 0 /\ beaten' = b /\ undisturbed' = TRUE /\ level' = level
  BY <1>1 DEF RenderTooSmall
<1>4. PICK base \in 1..MaxLevel : base = worn.set.base
  BY <1>0, AskedIsLevel
<1>5. WornTyped'
  BY <1>0, <1>1, <1>2, <1>3, SlowestIsLongest DEF WornTyped
<1>6. ParticleWears'
  <2>1. Between(b, b, base) /\ NearBase(b, base, MaxLevel - 0, 1)
        /\ NearBase(b, base, Distance(b, base) - (-1 + 1), 1)
    BY <1>4, BeatDecayAssumption DEF Between, NearBase, Distance, Higher, Lower
  <2> QED
    BY <1>1, <1>2, <1>3, <1>4, <2>1 DEF ParticleWears
<1> QED
  BY <1>0, <1>2, <1>5, <1>6 DEF WornInv

(* A frame of each effect. *)

\* The steps of Mosaic, none of which leads past the base.
LEMMA StepsFit ==
  ASSUME NEW d \in Nat, NEW n \in Nat \ {0}
  PROVE  d \div n \in Nat /\ n * (d \div n) <= d
<1>1. PICK q, r : q = d \div n /\ r = d % n
  OBVIOUS
<1>2. d = n * q + r /\ r \in 0..(n - 1) /\ q \in Nat
  BY <1>1, DivideNat
<1>3. n * q \in Int
  BY <1>2, SMT
<1> QED
  BY <1>1, <1>2, <1>3, SMT

LEMMA OneStepFewer ==
  ASSUME NEW r \in Nat \ {0}, NEW q \in Nat
  PROVE  (r - 1) * q \in Nat /\ r * q = (r - 1) * q + q
BY SMT

\* What a frame drawn does to the fields and to the history.
Framed(hit, value, d) ==
  /\ d = DrawnFrame(hit, value)
  /\ worn' = [worn EXCEPT !.current = d.current, !.remaining = d.remaining]
  /\ level' = d.shown
  /\ since' = IF hit THEN 0 ELSE UpToLongest(since + 1)
  /\ calm'  = IF hit THEN 0 ELSE UpToLongest(calm + 1)
  /\ beaten' = IF hit THEN value ELSE beaten
  /\ undisturbed' = (hit \/ undisturbed)
  /\ value \in 1..MaxLevel /\ (worn.kind # "Colorfade" => value = worn.set.onBeat)
  /\ hit \in BOOLEAN /\ (hit => worn.set.triggered)

LEMMA RenderIsFramed ==
  ASSUME WornInv, NEW heard \in BOOLEAN, DecayRender(heard)
  PROVE  \E hit, value, d : Framed(hit, value, d)
<1>1. worn.set \in Asked /\ worn.set.onBeat \in 1..MaxLevel /\ worn.set.triggered \in BOOLEAN
  BY AskedIsLevel DEF WornInv, WornTyped
<1> DEFINE hit == heard /\ worn.set.triggered
<1>2. PICK value \in (IF worn.kind = "Colorfade" THEN Levels ELSE {worn.set.onBeat}) :
        LET d == DrawnFrame(hit, value)
        IN  /\ worn' = [worn EXCEPT !.current = d.current, !.remaining = d.remaining]
            /\ level' = d.shown
            /\ since' = IF hit THEN 0 ELSE UpToLongest(since + 1)
            /\ calm'  = IF hit THEN 0 ELSE UpToLongest(calm + 1)
            /\ beaten' = IF hit THEN value ELSE beaten
            /\ undisturbed' = (hit \/ undisturbed)
  BY DEF DecayRender
<1>3. value \in 1..MaxLevel /\ (worn.kind # "Colorfade" => value = worn.set.onBeat)
  BY <1>1, <1>2, BeatDecayAssumption
<1>4. hit \in BOOLEAN /\ (hit => worn.set.triggered)
  BY <1>1, Zenon
<1>5. Framed(hit, value, DrawnFrame(hit, value))
  <2> HIDE DEF hit
  <2> QED
    BY <1>2, <1>3, <1>4, Zenon DEF Framed
<1> QED
  BY <1>5, Zenon

\* All that is left to show of a frame is about the value drawn.
LEMMA FramedKeepsType ==
  ASSUME WornInv, NEW hit, NEW value, NEW d, Framed(hit, value, d),
         d.shown \in 1..MaxLevel, d.current \in 1..MaxLevel, d.remaining \in 0..Slowest
  PROVE  /\ WornTyped'
         /\ worn'.kind = worn.kind /\ worn'.set = worn.set /\ worn'.current = d.current
         /\ worn'.remaining = d.remaining /\ level' = d.shown
<1>0. WornTyped
  BY DEF WornInv
<1>1. /\ worn'.kind = worn.kind /\ worn'.set = worn.set /\ worn'.current = d.current
      /\ worn'.remaining = d.remaining /\ level' = d.shown
      /\ worn' \in [kind : DecayKinds, set : Asked, current : 1..MaxLevel, remaining : 0..Slowest]
  BY <1>0 DEF Framed, WornTyped
<1>2. since \in -1..Longest /\ calm \in 0..Longest /\ Longest \in Nat /\ beaten \in 1..MaxLevel
      /\ undisturbed \in BOOLEAN /\ hit \in BOOLEAN /\ value \in 1..MaxLevel
  BY <1>0, SlowestIsLongest DEF WornTyped, Framed
<1>3. since' \in 0..Longest /\ calm' \in 0..Longest
  <2>1. CASE hit
    BY <2>1, <1>2 DEF Framed
  <2>2. CASE ~hit
    <3>1. since' = UpToLongest(since + 1) /\ calm' = UpToLongest(calm + 1)
      BY <2>2 DEF Framed
    <3> QED
      BY <3>1, <1>2 DEF UpToLongest
  <2> QED
    BY <2>1, <2>2
<1>4. beaten' \in 1..MaxLevel
  <2>1. beaten' = IF hit THEN value ELSE beaten
    BY DEF Framed
  <2> QED
    BY <1>2, <2>1
<1>5. /\ undisturbed' \in BOOLEAN
      /\ undisturbed' => worn.set.triggered /\ (worn.kind # "Colorfade" => beaten' = worn.set.onBeat)
  <2>1. undisturbed' = (hit \/ undisturbed)
    BY DEF Framed
  <2>2. /\ hit => worn.set.triggered /\ beaten' = value
        /\ ~hit => beaten' = beaten
        /\ worn.kind # "Colorfade" => value = worn.set.onBeat
    BY DEF Framed
  <2>3. undisturbed => worn.set.triggered /\ (worn.kind # "Colorfade" => beaten = worn.set.onBeat)
    BY <1>0 DEF WornTyped
  <2>4. undisturbed' \in BOOLEAN /\ (undisturbed' => hit \/ (~hit /\ undisturbed))
    BY <2>1, Zenon
  <2> QED
    BY <2>2, <2>3, <2>4, Zenon
<1> QED
  BY <1>1, <1>2, <1>3, <1>4, <1>5 DEF WornTyped

\* How the history of a frame without a beat follows from the frame before.
LEMMA HistoryMovesOn ==
  ASSUME WornInv, NEW hit, NEW value, NEW d, Framed(hit, value, d)
  PROVE  /\ since \in -1..Longest /\ calm \in 0..Longest /\ Longest \in Nat
         /\ hit => since' = 0 /\ calm' = 0 /\ beaten' = value
         /\ ~hit => /\ beaten' = beaten
                    /\ since' = since + 1 \/ (since' = Longest /\ since = Longest)
                    /\ calm' = calm + 1 \/ (calm' = Longest /\ calm = Longest)
         /\ undisturbed' => hit \/ (~hit /\ undisturbed)
<1>1. since \in -1..Longest /\ calm \in 0..Longest /\ Longest \in Nat
  BY SlowestIsLongest DEF WornInv, WornTyped
<1>2. hit => since' = 0 /\ calm' = 0 /\ beaten' = value
  BY DEF Framed
<1>3. ASSUME ~hit
      PROVE  /\ beaten' = beaten
             /\ since' = since + 1 \/ (since' = Longest /\ since = Longest)
             /\ calm' = calm + 1 \/ (calm' = Longest /\ calm = Longest)
  <2>1. beaten' = beaten /\ since' = UpToLongest(since + 1) /\ calm' = UpToLongest(calm + 1)
    BY <1>3 DEF Framed
  <2> QED
    BY <2>1, <1>1 DEF UpToLongest
<1>4. undisturbed' => hit \/ (~hit /\ undisturbed)
  <2>1. undisturbed' = (hit \/ undisturbed)
    BY DEF Framed
  <2> QED
    BY <2>1, Zenon
<1> QED
  BY <1>1, <1>2, <1>3, <1>4

\* What is left goes down with each frame.
LEMMA OneLess ==
  ASSUME NEW r \in Nat, NEW most \in Nat, NEW k \in Nat, NEW l \in Nat,
         l <= k + 1, r <= Higher(most - k, 0)
  PROVE  Higher(r - 1, 0) <= Higher(most - l, 0)
<1>1. r <= most - k \/ r = 0
  BY DEF Higher
<1>2. CASE r = 0
  BY <1>2 DEF Higher
<1>3. CASE r > 0 /\ r <= most - k
  BY <1>3 DEF Higher
<1> QED
  BY <1>1, <1>2, <1>3

LEMMA MosaicKeeps ==
  ASSUME WornInv, NEW hit, NEW value, NEW d, Framed(hit, value, d), worn.kind = "Mosaic"
  PROVE  WornInv'
<1>0. WornTyped /\ worn.set \in Asked /\ MosaicWears /\ hit \in BOOLEAN /\ MaxLevel \in Nat \ {0}
      /\ since >= 0
  BY BeatDecayAssumption DEF WornInv, WornTyped, Framed
<1>1. PICK base \in 1..MaxLevel, onBeat \in 1..MaxLevel, n \in 0..Slowest :
        base = worn.set.base /\ onBeat = worn.set.onBeat /\ n = worn.set.duration
  BY <1>0, AskedIsLevel
<1>2. PICK c \in 1..MaxLevel, r \in 0..Slowest : c = worn.current /\ r = worn.remaining
  BY <1>0 DEF WornTyped
<1>3. PICK start \in 1..MaxLevel, left \in 0..Slowest :
        /\ start = (IF hit THEN onBeat ELSE IF r = 0 THEN base ELSE c)
        /\ left = (IF hit THEN n ELSE r)
  BY <1>1, <1>2
<1>4. PICK way \in Nat : way = Distance(base, onBeat)
  BY <1>1 DEF Distance, Higher, Lower
<1>5. PICK step : step = way \div n
  OBVIOUS
<1>6. n > 0 => step \in Nat /\ n * step <= way
  BY <1>1, <1>4, <1>5, StepsFit, SlowestIsLongest
<1>7. d = IF left <= 1 \/ n = 0 THEN Drawn(start, start, Higher(left - 1, 0))
          ELSE Drawn(start, ToLevel(IF onBeat > base THEN start - step ELSE start + step), left - 1)
  <2>1. d = MosaicFrame(hit)
    BY DEF Framed, DrawnFrame
  <2> QED
    BY <2>1, <1>1, <1>2, <1>3, <1>4, <1>5 DEF MosaicFrame
<1>8. Slowest \in Nat /\ Longest = Slowest + MaxLevel + 1
  BY SlowestIsLongest
<1>9. /\ d.shown = start /\ d.remaining = Higher(left - 1, 0) /\ d.remaining \in 0..Slowest
      /\ d.current \in 1..MaxLevel
  <2>1. CASE left <= 1 \/ n = 0
    BY <2>1, <1>3, <1>7, <1>8 DEF Drawn, Higher
  <2>2. CASE ~(left <= 1 \/ n = 0)
    <3>1. PICK v \in Int : v = (IF onBeat > base THEN start - step ELSE start + step)
      BY <2>2, <1>1, <1>3, <1>6
    <3>2. ToLevel(v) \in 1..MaxLevel
      BY <3>1, <1>0 DEF ToLevel, Higher, Lower
    <3>3. d = Drawn(start, ToLevel(v), left - 1)
      BY <2>2, <3>1, <1>7
    <3> QED
      BY <2>2, <3>2, <3>3, <1>3, <1>8 DEF Drawn, Higher
  <2> QED
    BY <2>1, <2>2
<1>10. /\ WornTyped' /\ worn'.kind = worn.kind /\ worn'.set = worn.set /\ level' = start
       /\ worn'.current = d.current /\ worn'.remaining = Higher(left - 1, 0)
  BY <1>3, <1>9, FramedKeepsType
<1>11. r <= Higher(Slowest - calm, 0)
  BY <1>0, <1>2 DEF MosaicWears
<1>12. worn'.remaining <= Higher(Slowest - calm', 0)
  <2>1. CASE hit
    <3>1. calm' = 0
      BY <2>1, HistoryMovesOn
    <3> QED
      BY <3>1, <1>3, <1>8, <1>10 DEF Higher
  <2>2. CASE ~hit
    <3>1. calm \in Nat /\ calm' \in Nat /\ calm' <= calm + 1
      BY <2>2, HistoryMovesOn
    <3>2. left = r /\ worn'.remaining = Higher(r - 1, 0)
      BY <2>2, <1>3, <1>10
    <3>3. PICK k \in Nat, l \in Nat : k = calm /\ l = calm' /\ l <= k + 1
      BY <3>1
    <3>4. Higher(r - 1, 0) <= Higher(Slowest - l, 0)
      <4>1. r \in Nat /\ Slowest \in Nat /\ r <= Higher(Slowest - k, 0)
        BY <3>3, <1>2, <1>8, <1>11
      <4>2. l <= k + 1
        BY <3>3
      <4> QED
        BY <4>1, <4>2, OneLess
    <3> QED
      BY <3>2, <3>3, <3>4
  <2> QED
    BY <2>1, <2>2
<1>13. calm' > Slowest => level' = base
  <2>1. CASE hit
    <3>1. calm' = 0
      BY <2>1, HistoryMovesOn
    <3> QED
      BY <3>1, <1>8
  <2>2. CASE ~hit
    <3>1. calm \in Nat /\ calm' \in Nat /\ calm' <= calm + 1
      BY <2>2, HistoryMovesOn
    <3> QED
      BY <3>1, <2>2, <1>2, <1>3, <1>8, <1>10, <1>11 DEF Higher
  <2> QED
    BY <2>1, <2>2
<1>14. ASSUME undisturbed'
       PROVE  /\ worn'.remaining <= Higher(n - 1 - since', 0)
              /\ Between(level', base, onBeat)
              /\ since' >= Higher(1, n) => level' = base
              /\ worn'.remaining > 0 => Between(worn'.current, base, onBeat)
                                        /\ worn'.remaining * step <= Distance(worn'.current, base)
  <2>1. /\ left <= Higher(n - since', 0) /\ Between(start, base, onBeat)
        /\ since' >= Higher(1, n) => start = base
        /\ left > 1 => n > 0 /\ step \in Nat /\ left * step <= Distance(start, base)
        /\ since' \in Nat
    <3>1. CASE hit
      <4>1. since' = 0 /\ left = n /\ start = onBeat
        BY <3>1, <1>3, HistoryMovesOn
      <4>2. Distance(start, base) = way /\ Between(start, base, onBeat)
        BY <4>1, <1>1, <1>4 DEF Distance, Between, Higher, Lower
      <4>3. left > 1 => n > 0 /\ step \in Nat /\ left * step <= Distance(start, base)
        BY <4>1, <4>2, <1>1, <1>6, <1>8
      <4> QED
        BY <4>1, <4>2, <4>3, <1>1 DEF Higher
    <3>2. CASE ~hit
      <4>1. undisturbed
        BY <3>2, <1>14, HistoryMovesOn
      <4>2. since \in Nat /\ since' \in Nat
            /\ (since' = since + 1 \/ (since' = since /\ since = Longest))
        BY <3>2, <1>0, HistoryMovesOn
      <4>3. /\ r <= Higher(n - 1 - since, 0)
            /\ r > 0 => Between(c, base, onBeat) /\ r * step <= Distance(c, base)
        BY <4>1, <1>0, <1>1, <1>2, <1>4, <1>5 DEF MosaicWears
      <4>4. left <= Higher(n - since', 0) /\ (since' >= Higher(1, n) => r = 0) /\ (r > 0 => n > 0)
        <5>1. left = r
          BY <3>2, <1>3
        <5>2. r <= Higher(n - 1 - since, 0)
          BY <4>3
        <5> QED
          BY <5>1, <5>2, <4>2, <1>0, <1>1, <1>2, <1>8 DEF Higher
      <4>5. CASE r = 0
        <5>1. left = 0 /\ start = base
          BY <3>2, <4>5, <1>3
        <5>2. Between(start, base, onBeat)
          BY <5>1, <1>1 DEF Between, Higher, Lower
        <5> QED
          BY <5>1, <5>2, <4>2, <4>4
      <4>6. CASE r > 0
        <5>1. left = r /\ start = c
          BY <3>2, <4>6, <1>2, <1>3
        <5>2. n > 0 /\ step \in Nat
          BY <4>4, <4>6, <1>6
        <5> QED
          BY <5>1, <5>2, <4>2, <4>3, <4>4, <4>6
      <4> QED
        BY <4>5, <4>6, <1>2
    <3> QED
      BY <3>1, <3>2, <1>0
  <2>2. worn'.remaining <= Higher(n - 1 - since', 0)
    <3>1. left <= Higher(n - since', 0) /\ since' \in Nat
      BY <2>1
    <3> QED
      BY <3>1, <1>1, <1>3, <1>10 DEF Higher
  <2>3. ASSUME worn'.remaining > 0
        PROVE  Between(worn'.current, base, onBeat)
               /\ worn'.remaining * step <= Distance(worn'.current, base)
    <3>1. left > 1 /\ worn'.remaining = left - 1
      BY <2>3, <1>3, <1>10 DEF Higher
    <3>2. PICK total \in Nat, rest \in Nat :
            /\ total = left * step /\ rest = (left - 1) * step /\ total = rest + step
            /\ step \in Nat /\ total <= Distance(start, base) /\ n > 0
      <4>1. step \in Nat /\ left * step <= Distance(start, base) /\ n > 0 /\ left \in Nat \ {0}
        BY <2>1, <3>1, <1>3
      <4>2. (left - 1) * step \in Nat /\ left * step = (left - 1) * step + step
        BY <4>1, OneStepFewer
      <4> QED
        BY <4>1, <4>2
    <3>3. Between(start, base, onBeat)
      BY <2>1
    <3>4. worn'.current = ToLevel(IF onBeat > base THEN start - step ELSE start + step)
      <4>1. ~(left <= 1 \/ n = 0)
        BY <3>1, <3>2, <1>1, <1>3
      <4> QED
        BY <4>1, <1>7, <1>10 DEF Drawn
    <3>5. /\ Between(worn'.current, base, onBeat)
          /\ rest <= Distance(worn'.current, base)
      <4>1. total = rest + step /\ total <= Distance(start, base) /\ step \in Nat
        BY <3>2
      <4>2. CASE onBeat > base
        <5>1. start \in base..onBeat /\ total <= start - base
          BY <3>3, <4>1, <4>2, <1>1, <1>3 DEF Between, Distance, Higher, Lower
        <5>2. worn'.current = ToLevel(start - step) /\ start - step \in base..onBeat
          BY <3>4, <4>1, <4>2, <5>1, <3>2, <1>1, <1>3
        <5>3. worn'.current = start - step
          BY <5>2, <1>0, <1>1, <1>3, <4>1 DEF ToLevel, Higher, Lower
        <5> QED
          BY <5>1, <5>2, <5>3, <4>1, <4>2, <1>1, <1>3 DEF Between, Distance, Higher, Lower
      <4>3. CASE onBeat <= base
        <5>1. start \in onBeat..base /\ total <= base - start
          BY <3>3, <4>1, <4>3, <1>1, <1>3 DEF Between, Distance, Higher, Lower
        <5>2. worn'.current = ToLevel(start + step) /\ start + step \in onBeat..base
          BY <3>4, <4>1, <4>3, <5>1, <3>2, <1>1, <1>3
        <5>3. worn'.current = start + step
          BY <5>2, <1>0, <1>1, <1>3, <4>1 DEF ToLevel, Higher, Lower
        <5>4. Distance(worn'.current, base) = base - start - step
          BY <5>2, <5>3, <1>1, <1>3, <4>1, <4>3 DEF Distance, Higher, Lower
        <5>5. Between(worn'.current, base, onBeat)
          BY <5>2, <5>3, <1>1, <1>3, <4>1, <4>3 DEF Between, Higher, Lower
        <5> QED
          BY <5>1, <5>4, <5>5, <4>1, <1>1, <1>3, <3>2
      <4> QED
        BY <4>2, <4>3, <1>1
    <3> QED
      BY <3>1, <3>2, <3>5
  <2> QED
    BY <2>1, <2>2, <2>3, <1>10
<1>15. MosaicWears'
  BY <1>1, <1>4, <1>5, <1>10, <1>12, <1>13, <1>14 DEF MosaicWears
<1> QED
  BY <1>10, <1>15 DEF WornInv

LEMMA BeyondLess ==
  ASSUME NEW v \in Int, NEW base \in Int, NEW onBeat \in Int, NEW x \in Int, NEW y \in Int,
         x <= y \/ x <= 0, Beyond(v, base, onBeat, x)
  PROVE  Beyond(v, base, onBeat, y)
BY DEF Beyond, Higher, Lower

\* A frame of RotoBlitter that starts from c.
LEMMA RotoStep ==
  ASSUME NEW base \in 1..MaxLevel, NEW onBeat \in 1..MaxLevel, NEW c \in 1..MaxLevel, NEW d,
         d = (IF base < onBeat
                THEN Drawn(Higher(c, base), IF c > base THEN Higher(c - 3, base) ELSE c, 0)
                ELSE Drawn(Lower(c, base),  IF c < base THEN Lower(c + 3, base)  ELSE c, 0))
  PROVE  /\ d.shown \in 1..MaxLevel /\ d.current \in 1..MaxLevel /\ d.remaining = 0
         /\ IF base < onBeat THEN d.shown >= base ELSE d.shown <= base
         /\ \A far \in Int : Beyond(c, base, onBeat, far) =>
              Beyond(d.shown, base, onBeat, far) /\ Beyond(d.current, base, onBeat, far - 3)
         /\ Between(c, base, onBeat) =>
              Between(d.shown, base, onBeat) /\ Between(d.current, base, onBeat)
<1>0. MaxLevel \in Nat
  BY BeatDecayAssumption
<1>1. CASE base < onBeat
  <2>1. /\ d.shown = Higher(c, base) /\ d.remaining = 0
        /\ d.current = (IF c > base THEN Higher(c - 3, base) ELSE c)
    BY <1>1 DEF Drawn
  <2> QED
    BY <1>0, <1>1, <2>1 DEF Beyond, Between, Higher, Lower
<1>2. CASE base >= onBeat
  <2>1. /\ d.shown = Lower(c, base) /\ d.remaining = 0
        /\ d.current = (IF c < base THEN Lower(c + 3, base) ELSE c)
    BY <1>2 DEF Drawn
  <2> QED
    BY <1>0, <1>2, <2>1 DEF Beyond, Between, Higher, Lower
<1> QED
  BY <1>1, <1>2

LEMMA RotoKeeps ==
  ASSUME WornInv, NEW hit, NEW value, NEW d, Framed(hit, value, d), worn.kind = "RotoBlitter"
  PROVE  WornInv'
<1>0. WornTyped /\ worn.set \in Asked /\ RotoWears /\ hit \in BOOLEAN /\ MaxLevel \in Nat \ {0}
      /\ since >= 0 /\ Longest > MaxLevel
  BY BeatDecayAssumption, SlowestIsLongest DEF WornInv, WornTyped, Framed
<1>1. PICK base \in 1..MaxLevel, onBeat \in 1..MaxLevel, c \in 1..MaxLevel :
        /\ base = worn.set.base /\ onBeat = worn.set.onBeat
        /\ c = (IF hit THEN onBeat ELSE worn.current)
  BY <1>0, AskedIsLevel DEF WornTyped
<1>2. d = (IF base < onBeat
             THEN Drawn(Higher(c, base), IF c > base THEN Higher(c - 3, base) ELSE c, 0)
             ELSE Drawn(Lower(c, base),  IF c < base THEN Lower(c + 3, base)  ELSE c, 0))
  <2>1. d = RotoFrame(hit)
    BY DEF Framed, DrawnFrame
  <2> QED
    BY <2>1, <1>1 DEF RotoFrame
<1>3. /\ d.shown \in 1..MaxLevel /\ d.current \in 1..MaxLevel /\ d.remaining = 0
      /\ IF base < onBeat THEN d.shown >= base ELSE d.shown <= base
      /\ \A far \in Int : Beyond(c, base, onBeat, far) =>
           Beyond(d.shown, base, onBeat, far) /\ Beyond(d.current, base, onBeat, far - 3)
      /\ Between(c, base, onBeat) =>
           Between(d.shown, base, onBeat) /\ Between(d.current, base, onBeat)
  BY <1>2, RotoStep
<1>4. PICK w \in 1..MaxLevel, l \in 1..MaxLevel : w = d.current /\ l = d.shown
  BY <1>3
<1>5. /\ WornTyped' /\ worn'.kind = worn.kind /\ worn'.set = worn.set /\ level' = l
      /\ worn'.current = w
  BY <1>3, <1>4, FramedKeepsType, SlowestIsLongest
<1>6. PICK m \in Nat, n \in Nat : m = calm /\ n = calm'
  BY <1>0, <1>5, SlowestIsLongest DEF WornTyped
<1>7. /\ Beyond(w, base, onBeat, MaxLevel - 3 * n)
      /\ n > 0 => Beyond(l, base, onBeat, MaxLevel - 3 * (n - 1))
  <2>1. CASE hit
    <3>1. n = 0
      BY <2>1, <1>6, HistoryMovesOn
    <3> QED
      BY <3>1, <1>0, <1>4 DEF Beyond, Higher, Lower
  <2>2. CASE ~hit
    <3>1. n = m + 1 \/ (n = m /\ m = Longest)
      BY <2>2, <1>6, HistoryMovesOn
    <3>2. Beyond(c, base, onBeat, MaxLevel - 3 * m)
      BY <2>2, <1>0, <1>1, <1>6 DEF RotoWears
    <3>3. Beyond(l, base, onBeat, MaxLevel - 3 * m) /\ Beyond(w, base, onBeat, MaxLevel - 3 * m - 3)
      BY <3>2, <1>0, <1>3, <1>4, <1>6
    <3>4. /\ MaxLevel - 3 * m <= MaxLevel - 3 * (n - 1)
          /\ MaxLevel - 3 * m - 3 <= MaxLevel - 3 * n \/ MaxLevel - 3 * m - 3 <= 0
      BY <3>1, <1>0
    <3> QED
      BY <3>3, <3>4, <1>0, <1>4, BeyondLess
  <2> QED
    BY <2>1, <2>2, <1>0
<1>8. PICK j \in Nat, k \in Nat, way \in Nat : j = since /\ k = since' /\ way = Distance(base, onBeat)
  <2>1. since \in Nat /\ since' \in Nat
    BY <1>0, <1>5, SlowestIsLongest DEF WornTyped
  <2>2. Distance(base, onBeat) \in Nat
    BY <1>1 DEF Distance, Higher, Lower
  <2> QED
    BY <2>1, <2>2
<1>9. ASSUME undisturbed'
      PROVE  /\ Between(w, base, onBeat) /\ Between(l, base, onBeat)
             /\ Beyond(w, base, onBeat, way - 3 * (k + 1)) /\ Beyond(l, base, onBeat, way - 3 * k)
  <2>1. CASE hit
    <3>1. k = 0 /\ c = onBeat
      BY <2>1, <1>1, <1>8, HistoryMovesOn
    <3>2. Between(c, base, onBeat) /\ Beyond(c, base, onBeat, way)
      BY <3>1, <1>1, <1>8 DEF Between, Beyond, Distance, Higher, Lower
    <3>3. Beyond(l, base, onBeat, way) /\ Beyond(w, base, onBeat, way - 3)
      BY <3>2, <1>3, <1>4, <1>8
    <3>4. way - 3 * (k + 1) = way - 3 /\ way - 3 * k = way
      BY <3>1, <1>8
    <3> QED
      BY <3>2, <3>3, <3>4, <1>3, <1>4
  <2>2. CASE ~hit
    <3>1. undisturbed /\ (k = j + 1 \/ (k = j /\ j = Longest))
      BY <2>2, <1>8, <1>9, HistoryMovesOn
    <3>2. Between(c, base, onBeat) /\ Beyond(c, base, onBeat, way - 3 * (j + 1))
      BY <2>2, <3>1, <1>0, <1>1, <1>8 DEF RotoWears
    <3>3. Beyond(l, base, onBeat, way - 3 * (j + 1)) /\ Beyond(w, base, onBeat, way - 3 * (j + 1) - 3)
      BY <3>2, <1>3, <1>4, <1>8
    <3>4. way <= MaxLevel
      BY <1>0, <1>1, <1>8 DEF Distance, Higher, Lower
    <3>5. /\ way - 3 * (j + 1) <= way - 3 * k \/ way - 3 * (j + 1) <= 0
          /\ way - 3 * (j + 1) - 3 <= way - 3 * (k + 1) \/ way - 3 * (j + 1) - 3 <= 0
      BY <3>1, <3>4, <1>0, <1>8
    <3> QED
      BY <3>2, <3>3, <3>5, <1>3, <1>4, <1>8, BeyondLess
  <2> QED
    BY <2>1, <2>2, <1>0
<1>10. RotoWears'
  BY <1>1, <1>3, <1>4, <1>5, <1>6, <1>7, <1>8, <1>9 DEF RotoWears
<1> QED
  BY <1>5, <1>10 DEF WornInv

LEMMA NearBaseLess ==
  ASSUME NEW v \in Int, NEW base \in Int, NEW x \in Int, NEW y \in Int, NEW low \in Nat,
         x <= y \/ x <= 0, NearBase(v, base, x, low)
  PROVE  NearBase(v, base, y, low)
BY DEF NearBase, Higher

\* One closer to the base.
LEMMA FadeStep ==
  ASSUME NEW base \in 1..MaxLevel, NEW c \in 1..MaxLevel, NEW b \in 1..MaxLevel, NEW next,
         next = base \/ next = (IF c < base THEN c + 1 ELSE IF c > base THEN c - 1 ELSE c)
  PROVE  /\ next \in 1..MaxLevel
         /\ \A n \in Int : NearBase(c, base, n, 0) => NearBase(next, base, n - 1, 0)
         /\ Between(c, b, base) => Between(next, b, base)
<1>0. MaxLevel \in Nat
  BY BeatDecayAssumption
<1>1. next \in 1..MaxLevel
  BY <1>0
<1>2. \A n \in Int : NearBase(c, base, n, 0) => NearBase(next, base, n - 1, 0)
  BY DEF NearBase, Higher
<1>3. Between(c, b, base) => Between(next, b, base)
  BY DEF Between, Higher, Lower
<1> QED
  BY <1>1, <1>2, <1>3

LEMMA FadeKeeps ==
  ASSUME WornInv, NEW hit, NEW value, NEW d, Framed(hit, value, d), worn.kind = "Colorfade"
  PROVE  WornInv'
<1>0. /\ WornTyped /\ worn.set \in Asked /\ FadeWears /\ hit \in BOOLEAN /\ MaxLevel \in Nat \ {0}
      /\ since >= 0 /\ Longest > MaxLevel /\ value \in 1..MaxLevel /\ beaten \in 1..MaxLevel
  BY BeatDecayAssumption, SlowestIsLongest DEF WornInv, WornTyped, Framed
<1>1. PICK base \in 1..MaxLevel, c \in 1..MaxLevel : base = worn.set.base /\ c = worn.current
  BY <1>0, AskedIsLevel DEF WornTyped
<1>2. PICK next : /\ d = Drawn(next, next, 0)
                  /\ hit => next = value
                  /\ ~hit => \/ next = base
                             \/ next = (IF c < base THEN c + 1 ELSE IF c > base THEN c - 1 ELSE c)
  <2>1. d = ColorfadeFrame(hit, value)
    BY DEF Framed, DrawnFrame
  <2> QED
    BY <2>1, <1>1 DEF ColorfadeFrame
<1>3. next \in 1..MaxLevel
  BY <1>0, <1>1, <1>2, FadeStep
<1>4. d.shown = next /\ d.current = next /\ d.remaining = 0
  BY <1>2 DEF Drawn
<1>5. /\ WornTyped' /\ worn'.kind = worn.kind /\ worn'.set = worn.set /\ level' = next
      /\ worn'.current = next
  BY <1>3, <1>4, FramedKeepsType, SlowestIsLongest
<1>6. PICK m \in Nat, n \in Nat : m = calm /\ n = calm'
  BY <1>0, <1>5, SlowestIsLongest DEF WornTyped
<1>7. NearBase(next, base, MaxLevel - n, 0)
  <2>1. CASE hit
    <3>1. n = 0
      BY <2>1, <1>6, HistoryMovesOn
    <3> QED
      BY <3>1, <1>0, <1>1, <1>3 DEF NearBase, Higher
  <2>2. CASE ~hit
    <3>1. n = m + 1 \/ (n = m /\ m = Longest)
      BY <2>2, <1>6, HistoryMovesOn
    <3>2. NearBase(c, base, MaxLevel - m, 0)
      BY <1>0, <1>1, <1>6 DEF FadeWears
    <3>3. NearBase(next, base, MaxLevel - m - 1, 0)
      <4>1. \A x \in Int : NearBase(c, base, x, 0) => NearBase(next, base, x - 1, 0)
        BY <2>2, <1>1, <1>2, FadeStep
      <4>2. MaxLevel - m \in Int
        BY <1>0
      <4> QED
        BY <3>2, <4>1, <4>2
    <3>4. MaxLevel - m - 1 <= MaxLevel - n \/ MaxLevel - m - 1 <= 0
      BY <3>1, <1>0
    <3> QED
      BY <3>3, <3>4, <1>0, <1>1, <1>3, NearBaseLess
  <2> QED
    BY <2>1, <2>2, <1>0
<1>8. PICK j \in Nat, k \in Nat, b \in 1..MaxLevel : j = since /\ k = since' /\ b = beaten'
  BY <1>0, <1>5, SlowestIsLongest DEF WornTyped
<1>9. ASSUME undisturbed'
      PROVE  Between(next, b, base) /\ NearBase(next, base, Distance(b, base) - k, 0)
  <2>1. CASE hit
    <3>1. k = 0 /\ b = next
      BY <2>1, <1>2, <1>8, HistoryMovesOn
    <3> QED
      BY <3>1, <1>1, <1>3 DEF Between, NearBase, Distance, Higher, Lower
  <2>2. CASE ~hit
    <3>1. undisturbed /\ b = beaten /\ (k = j + 1 \/ (k = j /\ j = Longest))
      BY <2>2, <1>8, <1>9, HistoryMovesOn
    <3>2. PICK way \in 0..MaxLevel : way = Distance(b, base)
      BY <1>0, <1>1, <1>8 DEF Distance, Higher, Lower
    <3>3. Between(c, b, base) /\ NearBase(c, base, way - j, 0)
      BY <3>1, <3>2, <1>0, <1>1, <1>8 DEF FadeWears
    <3>4. Between(next, b, base) /\ NearBase(next, base, way - j - 1, 0)
      BY <2>2, <3>2, <3>3, <1>1, <1>2, <1>8, FadeStep
    <3>5. way - j - 1 <= way - k \/ way - j - 1 <= 0
      BY <3>1, <3>2, <1>0, <1>8
    <3> QED
      BY <3>2, <3>4, <3>5, <1>1, <1>3, <1>8, NearBaseLess
  <2> QED
    BY <2>1, <2>2, <1>0
<1>10. FadeWears'
  BY <1>1, <1>5, <1>6, <1>7, <1>8, <1>9 DEF FadeWears
<1> QED
  BY <1>5, <1>10 DEF WornInv

\* Half of the way and, from above, at least one.
LEMMA ParticleStep ==
  ASSUME NEW base \in 1..MaxLevel, NEW c \in 1..MaxLevel, NEW b \in 1..MaxLevel, NEW next,
         next = Higher(1, (c + base) \div 2)
  PROVE  /\ next \in 1..MaxLevel
         /\ \A n \in Int : NearBase(c, base, n, 1) => NearBase(next, base, n - 1, 1)
         /\ Between(c, b, base) => Between(next, b, base)
<1>0. MaxLevel \in Nat
  BY BeatDecayAssumption
<1>1. PICK q \in Nat, r \in 0..1 : q = (c + base) \div 2 /\ c + base = 2 * q + r
  <2>1. c + base \in Nat
    OBVIOUS
  <2> QED
    BY <2>1, DivideNat, 2 \in Nat \ {0}
<1>2. next = q /\ q \in 1..MaxLevel
  BY <1>0, <1>1 DEF Higher
<1>3. \A n \in Int : NearBase(c, base, n, 1) => NearBase(next, base, n - 1, 1)
  BY <1>1, <1>2 DEF NearBase, Higher
<1>4. Between(c, b, base) => Between(next, b, base)
  BY <1>1, <1>2 DEF Between, Higher, Lower
<1> QED
  BY <1>2, <1>3, <1>4

LEMMA ParticleKeeps ==
  ASSUME WornInv, NEW hit, NEW value, NEW d, Framed(hit, value, d), worn.kind = "MovingParticle"
  PROVE  WornInv'
<1>0. /\ WornTyped /\ worn.set \in Asked /\ ParticleWears /\ hit \in BOOLEAN
      /\ MaxLevel \in Nat \ {0} /\ Longest > MaxLevel /\ value = worn.set.onBeat
  BY BeatDecayAssumption, SlowestIsLongest DEF WornInv, WornTyped, Framed
<1>1. PICK base \in 1..MaxLevel, onBeat \in 1..MaxLevel, c \in 1..MaxLevel :
        /\ base = worn.set.base /\ onBeat = worn.set.onBeat
        /\ c = (IF hit THEN onBeat ELSE worn.current)
  BY <1>0, AskedIsLevel DEF WornTyped
<1>2. PICK next : next = Higher(1, (c + base) \div 2) /\ d = Drawn(c, next, 0)
  <2>1. d = ParticleFrame(hit)
    BY DEF Framed, DrawnFrame
  <2> QED
    BY <2>1, <1>1 DEF ParticleFrame
<1>3. next \in 1..MaxLevel
  BY <1>1, <1>2, ParticleStep
<1>4. d.shown = c /\ d.current = next /\ d.remaining = 0
  BY <1>2 DEF Drawn
<1>5. /\ WornTyped' /\ worn'.kind = worn.kind /\ worn'.set = worn.set /\ level' = c
      /\ worn'.current = next
  BY <1>1, <1>3, <1>4, FramedKeepsType, SlowestIsLongest
<1>6. PICK m \in Nat, n \in Nat : m = calm /\ n = calm'
  BY <1>0, <1>5, SlowestIsLongest DEF WornTyped
<1>7. /\ NearBase(next, base, MaxLevel - n, 1)
      /\ n > 0 => NearBase(c, base, MaxLevel - (n - 1), 1)
  <2>1. CASE hit
    <3>1. n = 0
      BY <2>1, <1>6, HistoryMovesOn
    <3> QED
      BY <3>1, <1>0, <1>1, <1>3 DEF NearBase, Higher
  <2>2. CASE ~hit
    <3>1. n = m + 1 \/ (n = m /\ m = Longest)
      BY <2>2, <1>6, HistoryMovesOn
    <3>2. NearBase(c, base, MaxLevel - m, 1)
      BY <2>2, <1>0, <1>1, <1>6 DEF ParticleWears
    <3>3. NearBase(next, base, MaxLevel - m - 1, 1)
      <4>1. \A x \in Int : NearBase(c, base, x, 1) => NearBase(next, base, x - 1, 1)
        BY <1>1, <1>2, ParticleStep
      <4>2. MaxLevel - m \in Int
        BY <1>0
      <4> QED
        BY <3>2, <4>1, <4>2
    <3>4. /\ MaxLevel - m - 1 <= MaxLevel - n \/ MaxLevel - m - 1 <= 0
          /\ MaxLevel - m <= MaxLevel - (n - 1)
          /\ MaxLevel - m - 1 \in Int /\ MaxLevel - n \in Int
          /\ MaxLevel - m \in Int /\ MaxLevel - (n - 1) \in Int
      BY <3>1, <1>0
    <3>5. NearBase(next, base, MaxLevel - n, 1)
      BY <3>3, <3>4, <1>1, <1>3, NearBaseLess
    <3>6. NearBase(c, base, MaxLevel - (n - 1), 1)
      BY <3>2, <3>4, <1>1, NearBaseLess
    <3> QED
      BY <3>5, <3>6
  <2> QED
    BY <2>1, <2>2, <1>0
<1>8. PICK j \in -1..Longest, k \in Nat, way \in 0..MaxLevel :
        j = since /\ k = since' /\ way = Distance(onBeat, base)
  <2>1. since \in -1..Longest /\ since' \in Nat
    <3>1. since \in -1..Longest /\ (hit => since' = 0)
          /\ (~hit => since' = since + 1 \/ (since' = Longest /\ since = Longest))
          /\ Longest \in Nat
      BY HistoryMovesOn
    <3> QED
      BY <3>1, <1>0
  <2>2. Distance(onBeat, base) \in 0..MaxLevel
    BY <1>0, <1>1 DEF Distance, Higher, Lower
  <2> QED
    BY <2>1, <2>2
<1>9. ASSUME undisturbed'
      PROVE  /\ beaten' = onBeat /\ Between(c, onBeat, base) /\ Between(next, onBeat, base)
             /\ NearBase(c, base, way - k, 1) /\ NearBase(next, base, way - (k + 1), 1)
  <2>0. beaten' = onBeat
    BY <1>1, <1>5, <1>9 DEF WornTyped
  <2>1. Between(c, onBeat, base) /\ NearBase(c, base, way - k, 1)
    <3>1. CASE hit
      <4>1. k = 0 /\ c = onBeat
        BY <3>1, <1>1, <1>8, HistoryMovesOn
      <4>2. Between(onBeat, onBeat, base)
        BY <1>1 DEF Between, Higher, Lower
      <4>3. NearBase(onBeat, base, way, 1) /\ way - 0 = way
        <5>1. way = (IF onBeat > base THEN onBeat - base ELSE base - onBeat)
          BY <1>1, <1>8 DEF Distance, Higher, Lower
        <5>2. onBeat \in Nat /\ base \in Nat
          BY <1>0, <1>1
        <5>3. CASE onBeat > base
          BY <5>1, <5>2, <5>3 DEF NearBase, Higher
        <5>4. CASE onBeat <= base
          BY <5>1, <5>2, <5>4 DEF NearBase, Higher
        <5> QED
          BY <5>2, <5>3, <5>4
      <4> QED
        BY <4>1, <4>2, <4>3
    <3>2. CASE ~hit
      <4>1. undisturbed /\ beaten = onBeat /\ (k = j + 1 \/ (k = j /\ j = Longest))
        BY <3>2, <2>0, <1>8, <1>9, HistoryMovesOn
      <4>2. Between(c, onBeat, base) /\ NearBase(c, base, way - (j + 1), 1)
        BY <3>2, <4>1, <1>0, <1>1, <1>8 DEF ParticleWears
      <4>3. way - (j + 1) <= way - k \/ way - (j + 1) <= 0
        BY <4>1, <1>0, <1>8
      <4>4. way - (j + 1) \in Int /\ way - k \in Int
        BY <1>8, SlowestIsLongest
      <4> QED
        BY <4>2, <4>3, <4>4, <1>1, NearBaseLess
    <3> QED
      BY <3>1, <3>2, <1>0
  <2>2. Between(next, onBeat, base)
    BY <2>1, <1>1, <1>2, ParticleStep
  <2>3. NearBase(next, base, way - (k + 1), 1)
    <3>1. \A x \in Int : NearBase(c, base, x, 1) => NearBase(next, base, x - 1, 1)
      BY <1>1, <1>2, ParticleStep, SMTT(30)
    <3>2. way - k \in Int /\ way - (k + 1) = way - k - 1
      BY <1>8
    <3> QED
      BY <2>1, <3>1, <3>2
  <2> QED
    BY <2>0, <2>1, <2>2, <2>3
<1>10. ParticleWears'
  BY <1>1, <1>5, <1>6, <1>7, <1>8, <1>9 DEF ParticleWears
<1> QED
  BY <1>5, <1>10 DEF WornInv

LEMMA WornKept == WornInv /\ [BeatDecayNext]_beatDecayVars => WornInv'
<1> SUFFICES ASSUME WornInv, [BeatDecayNext]_beatDecayVars PROVE WornInv'
  OBVIOUS
<1>1. ASSUME NEW s \in Asked, DecaySetParams(s) PROVE WornInv'
  BY <1>1, SetParamsKeeps
<1>2. ASSUME NEW heard \in BOOLEAN, RenderTooSmall(heard) PROVE WornInv'
  BY <1>2, TooSmallKeeps
<1>3. ASSUME NEW heard \in BOOLEAN, DecayRender(heard) PROVE WornInv'
  <2>1. PICK hit, value, d : Framed(hit, value, d)
    BY <1>3, RenderIsFramed
  <2>2. worn.kind \in DecayKinds
    BY DEF WornInv, WornTyped
  <2> QED
    BY <2>1, <2>2, MosaicKeeps, RotoKeeps, FadeKeeps, ParticleKeeps DEF DecayKinds
<1>4. CASE UNCHANGED beatDecayVars
  BY <1>4 DEF beatDecayVars, WornInv, WornTyped, MosaicWears, RotoWears, FadeWears, ParticleWears
<1> QED
  BY <1>1, <1>2, <1>3, <1>4 DEF BeatDecayNext

LEMMA WornGivesLevel == WornInv => BeatWearsOff
<1> SUFFICES ASSUME WornInv PROVE BeatWearsOff
  OBVIOUS
<1>0. WornTyped /\ worn.set \in Asked /\ worn.kind \in DecayKinds
  BY DEF WornInv, WornTyped
<1>1. PICK base \in 1..MaxLevel, onBeat \in 1..MaxLevel, n \in 0..Slowest, b \in 1..MaxLevel :
        base = worn.set.base /\ onBeat = worn.set.onBeat /\ n = worn.set.duration /\ b = beaten
  BY <1>0, AskedIsLevel DEF WornTyped
<1>2. PICK m \in Nat, j \in -1..Longest, l \in 1..MaxLevel, way \in 0..MaxLevel :
        m = calm /\ j = since /\ l = level /\ way = Distance(b, base)
  <2>1. Distance(b, base) \in 0..MaxLevel
    BY <1>1, BeatDecayAssumption DEF Distance, Higher, Lower
  <2> QED
    BY <2>1, <1>0, SlowestIsLongest DEF WornTyped
<1>3. MaxLevel \in Nat \ {0} /\ Longest \in Nat /\ Slowest \in Nat
  BY SlowestIsLongest, BeatDecayAssumption
<1>4. SUFFICES /\ undisturbed /\ j >= 0 => /\ Between(l, b, base)
                                           /\ j >= WearTime(way) => Settled
               /\ m > (IF worn.kind = "Mosaic" THEN Slowest ELSE WearTime(MaxLevel)) => Settled
  BY <1>1, <1>2 DEF BeatWearsOff, Between
<1>5. (worn.kind # "Colorfade" /\ undisturbed) => b = onBeat
  BY <1>0, <1>1 DEF WornTyped
<1>6. CASE worn.kind = "Mosaic"
  <2>1. MosaicWears /\ WearTime(way) = Higher(1, n)
    BY <1>1, <1>6 DEF WornInv, WearTime
  <2>2. m > Slowest => Settled
    BY <2>1, <1>1, <1>2 DEF MosaicWears, Settled
  <2>3. ASSUME undisturbed PROVE Between(l, b, base) /\ (j >= WearTime(way) => Settled)
    <3>1. Between(l, base, b) /\ (j >= Higher(1, n) => l = base)
      BY <2>1, <2>3, <1>1, <1>2, <1>5, <1>6 DEF MosaicWears
    <3>2. Between(l, b, base)
      BY <3>1, <1>1, <1>2 DEF Between, Higher, Lower
    <3> QED
      BY <2>1, <3>1, <3>2, <1>1, <1>2 DEF Settled
  <2> QED
    BY <1>6, <2>2, <2>3
<1>7. CASE worn.kind = "RotoBlitter"
  <2>1. RotoWears /\ WearTime(way) = (way + 2) \div 3 /\ WearTime(MaxLevel) = (MaxLevel + 2) \div 3
    BY <1>7 DEF WornInv, WearTime
  <2>2. ASSUME m > WearTime(MaxLevel) PROVE Settled
    <3>1. 3 * (m - 1) >= MaxLevel /\ m > 0
      BY <2>1, <2>2, <1>2, <1>3
    <3>2. Beyond(l, base, onBeat, MaxLevel - 3 * (m - 1))
          /\ IF base < onBeat THEN l >= base ELSE l <= base
      BY <2>1, <3>1, <1>1, <1>2 DEF RotoWears
    <3>3. l = base
      BY <3>1, <3>2, <1>1, <1>2, <1>3 DEF Beyond, Higher, Lower
    <3> QED
      BY <3>3, <1>1, <1>2 DEF Settled
  <2>3. ASSUME undisturbed, j >= 0
        PROVE  Between(l, b, base) /\ (j >= WearTime(way) => Settled)
    <3>1. Between(l, base, onBeat) /\ Beyond(l, base, onBeat, Distance(base, onBeat) - 3 * j)
          /\ b = onBeat
      BY <2>1, <2>3, <1>1, <1>2, <1>5, <1>7 DEF RotoWears
    <3>2. Between(l, b, base)
      BY <3>1, <1>1, <1>2 DEF Between, Higher, Lower
    <3>3. Distance(base, onBeat) = way
      BY <3>1, <1>1, <1>2 DEF Distance, Higher, Lower
    <3>4. ASSUME j >= WearTime(way) PROVE Settled
      <4>1. 3 * j >= way
        BY <2>1, <3>4, <1>2, <1>3
      <4>2. l = base
        BY <3>1, <3>3, <4>1, <1>1, <1>2, <1>3 DEF Beyond, Between, Higher, Lower
      <4> QED
        BY <4>2, <1>1, <1>2 DEF Settled
    <3> QED
      BY <3>2, <3>4
  <2> QED
    BY <1>7, <2>2, <2>3
<1>8. CASE worn.kind = "Colorfade"
  <2>1. FadeWears /\ WearTime(way) = way /\ WearTime(MaxLevel) = MaxLevel
    BY <1>8 DEF WornInv, WearTime
  <2>2. ASSUME m > MaxLevel PROVE Settled
    <3>1. NearBase(l, base, MaxLevel - m, 0)
      BY <2>1, <2>2, <1>1, <1>2, <1>3 DEF FadeWears
    <3>2. l = base
      BY <2>2, <3>1, <1>1, <1>2, <1>3 DEF NearBase, Higher
    <3> QED
      BY <3>2, <1>1, <1>2 DEF Settled
  <2>3. ASSUME undisturbed PROVE Between(l, b, base) /\ (j >= way => Settled)
    <3>1. Between(l, b, base) /\ NearBase(l, base, way - j, 0)
      BY <2>1, <2>3, <1>1, <1>2 DEF FadeWears
    <3>2. j >= way => l = base
      BY <3>1, <1>1, <1>2, <1>3 DEF NearBase, Higher
    <3> QED
      BY <3>1, <3>2, <1>1, <1>2 DEF Settled
  <2> QED
    BY <1>8, <2>1, <2>2, <2>3
<1>9. CASE worn.kind = "MovingParticle"
  <2>1. ParticleWears /\ WearTime(way) = way /\ WearTime(MaxLevel) = MaxLevel
    BY <1>9 DEF WornInv, WearTime
  <2>2. ASSUME m > MaxLevel PROVE Settled
    <3>1. NearBase(l, base, MaxLevel - (m - 1), 1)
      BY <2>1, <2>2, <1>1, <1>2, <1>3 DEF ParticleWears
    <3>2. l = base \/ l = base - 1
      BY <2>2, <3>1, <1>1, <1>2, <1>3 DEF NearBase, Higher
    <3> QED
      BY <3>2, <1>1, <1>2, <1>9 DEF Settled
  <2>3. ASSUME undisturbed, j >= 0 PROVE Between(l, b, base) /\ (j >= way => Settled)
    <3>1. Between(l, b, base) /\ NearBase(l, base, way - j, 1)
      BY <2>1, <2>3, <1>1, <1>2 DEF ParticleWears
    <3>2. j >= way => l = base \/ l = base - 1
      BY <3>1, <1>1, <1>2, <1>3 DEF NearBase, Higher
    <3> QED
      BY <3>1, <3>2, <1>1, <1>2, <1>9 DEF Settled
  <2> QED
    BY <1>9, <2>1, <2>2, <2>3
<1> QED
  BY <1>0, <1>6, <1>7, <1>8, <1>9 DEF DecayKinds

\* What a beat sets in Mosaic, RotoBlitter, Colorfade and MovingParticle wears off in
\* its time, and no change of the settings in the middle of it keeps the value away.
THEOREM BeatsWearOff == BeatDecaySpec => []BeatWearsOff
<1>1. BeatDecayInit => WornInv
  BY WornStarts
<1>2. WornInv /\ [BeatDecayNext]_beatDecayVars => WornInv'
  BY WornKept
<1>3. WornInv => BeatWearsOff
  BY WornGivesLevel
<1> QED
  BY <1>1, <1>2, <1>3, PTL DEF BeatDecaySpec


\* The values drawn with and kept stay between one and kQualityMax or kMaxSize, and
\* what is left of a beat is never negative, whatever the settings.
THEOREM DecayTypes == BeatDecaySpec => []BeatDecayTypeOK
<1>1. WornInv => BeatDecayTypeOK
  <2>1. SUFFICES ASSUME WornTyped PROVE BeatDecayTypeOK
    BY DEF WornInv
  <2>2. /\ worn.kind \in DecayKinds /\ worn.set \in Asked
        /\ worn.current \in 1..MaxLevel /\ worn.remaining \in Nat
    BY <2>1, SlowestIsLongest DEF WornTyped
  <2> QED
    BY <2>1, <2>2 DEF WornTyped, BeatDecayTypeOK
<1> QED
  BY <1>1, WornStarts, WornKept, PTL DEF BeatDecaySpec

===============================================================================
