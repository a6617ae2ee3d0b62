------------------------------- MODULE BeatDecay --------------------------------
(***************************************************************************)
(* The effects of avs-effects-legacy that a beat sets to another value,    *)
(* which then wears off: the quality of Mosaic, the zoom of RotoBlitter,   *)
(* each offset of Colorfade and the size of MovingParticle.  All keep the  *)
(* configured value, that of a beat and the one in force; each steps back  *)
(* in a way of its own, and the settings may change in the middle.         *)
(***************************************************************************)
EXTENDS Integers

CONSTANTS
  Levels,      \* values a setting is given, positive
  MaxLevel,    \* kQualityMax, kMaxSize: what a value is clamped to
  WearFrames   \* durations Mosaic is given

ASSUME BeatDecayAssumption ==
  /\ MaxLevel \in Nat \ {0} /\ Levels \subseteq 1..MaxLevel
  /\ WearFrames \subseteq Nat /\ \E d \in WearFrames : \A e \in WearFrames : e <= d

VARIABLES
  worn,       \* the fields of the effect
  level,      \* the value the last frame was drawn with
  since,      \* history: frames drawn after the one of the last beat, its value,
  beaten,     \*   and whether the settings are still those of that beat
  undisturbed,
  calm        \* history: frames drawn since that beat or the last change of settings

beatDecayVars == <<worn, level, since, beaten, undisturbed, calm>>

DecayKinds == {"Mosaic", "RotoBlitter", "Colorfade", "MovingParticle"}
Asked == [base : Levels, onBeat : Levels, duration : WearFrames, triggered : BOOLEAN]

Slowest == CHOOSE d \in WearFrames : \A e \in WearFrames : e <= d
Longest == Slowest + MaxLevel + 1   \* frames are not counted beyond it
UpToLongest(n) == IF n > Longest THEN Longest ELSE n
Higher(a, b) == IF a > b THEN a ELSE b
Lower(a, b)  == IF a < b THEN a ELSE b
ToLevel(v)   == Higher(1, Lower(v, MaxLevel))
Distance(a, b) == Higher(a, b) - Lower(a, b)

\* A new effect: the beat has no value of its own yet and triggers nothing.
AtRest ==
  {[kind |-> kind, set |-> s, current |-> s.base, remaining |-> 0] :
     kind \in DecayKinds, s \in {a \in Asked : a.onBeat = a.base /\ ~a.triggered}}

BeatDecayInit ==
  /\ worn \in AtRest
  /\ level = worn.current
  /\ since = 0 /\ beaten = level /\ undisturbed = FALSE /\ calm = 0

-------------------------------------------------------------------------------
\* setParams: Mosaic and Colorfade fall back to the base when no beat is wearing off
\* or none may, RotoBlitter also when the base is another; MovingParticle never.
FallsBack(s) ==
  CASE worn.kind = "Mosaic"         -> worn.remaining = 0
    [] worn.kind = "RotoBlitter"    -> s.base # worn.set.base \/ ~s.triggered
    [] worn.kind = "Colorfade"      -> ~s.triggered
    [] worn.kind = "MovingParticle" -> FALSE

DecaySetParams(s) ==
  /\ worn' = [worn EXCEPT !.set = s, !.current = IF FallsBack(s) THEN s.base ELSE @]
  /\ undisturbed' = (undisturbed /\ s = worn.set)
  /\ calm' = IF s = worn.set THEN calm ELSE 0
  /\ UNCHANGED <<level, since, beaten>>

\* What an effect draws with, keeps for the next frame and has left of the beat.
Drawn(v, next, left) == [shown |-> v, current |-> next, remaining |-> left]

\* mutant: the last step is left to the integer division
MosaicFrameNoReset(hit) ==
  LET s     == worn.set
      start == IF hit THEN s.onBeat ELSE worn.current
      left  == IF hit THEN s.duration ELSE worn.remaining
      step  == Distance(s.base, s.onBeat) \div s.duration
  IN  IF left <= 1 \/ s.duration = 0 THEN Drawn(start, start, Higher(left - 1, 0))
      ELSE Drawn(start, ToLevel(IF s.onBeat > s.base THEN start - step ELSE start + step), left - 1)

\* Equal steps, rounded down; the rest of the way is made when no frame is left.
MosaicFrame(hit) ==
  LET s     == worn.set
      start == IF hit THEN s.onBeat ELSE IF worn.remaining = 0 THEN s.base ELSE worn.current
      left  == IF hit THEN s.duration ELSE worn.remaining
      step  == Distance(s.base, s.onBeat) \div s.duration
  IN  IF left <= 1 \/ s.duration = 0 THEN Drawn(start, start, Higher(left - 1, 0))
      ELSE Drawn(start, ToLevel(IF s.onBeat > s.base THEN start - step ELSE start + step), left - 1)

\* Three at a time, from the side of the base where the beat's value is; a value on
\* the other side stays where it is and is not drawn with.
RotoFrame(hit) ==
  LET base == worn.set.base
      c    == IF hit THEN worn.set.onBeat ELSE worn.current
  IN  IF base < worn.set.onBeat
        THEN Drawn(Higher(c, base), IF c > base THEN Higher(c - 3, base) ELSE c, 0)
        ELSE Drawn(Lower(c, base),  IF c < base THEN Lower(c + 3, base)  ELSE c, 0)

\* One at a time, before the beat; not smooth, the base itself.  value is that of
\* the beat, or a random one.
ColorfadeFrame(hit, value) ==
  LET base == worn.set.base
      c    == worn.current
      next == IF hit THEN value
              ELSE IF ~worn.set.triggered THEN base
              ELSE IF c < base THEN c + 1 ELSE IF c > base THEN c - 1 ELSE c
  IN  Drawn(next, next, 0)

\* Half of the way, rounded down, after drawing.
ParticleFrame(hit) ==
  LET c == IF hit THEN worn.set.onBeat ELSE worn.current
  IN  Drawn(c, Higher(1, (c + worn.set.base) \div 2), 0)

DrawnFrame(hit, value) ==
  CASE worn.kind = "Mosaic"         -> MosaicFrame(hit)
    [] worn.kind = "RotoBlitter"    -> RotoFrame(hit)
    [] worn.kind = "Colorfade"      -> ColorfadeFrame(hit, value)
    [] worn.kind = "MovingParticle" -> ParticleFrame(hit)

DecayRender(beat) ==
  LET hit == beat /\ worn.set.triggered
  IN  \E value \in IF worn.kind = "Colorfade" THEN Levels ELSE {worn.set.onBeat} :
        LET d == DrawnFrame(hit, value)
        IN  /\ worn' = [worn EXCEPT !.current = d.current, !.remaining = d.remaining]
            /\ level' = d.shown
            /\ since' = IF hit THEN 0 ELSE UpToLongest(since + 1)
            /\ calm'  = IF hit THEN 0 ELSE UpToLongest(calm + 1)
            /\ beaten' = IF hit THEN value ELSE beaten
            /\ undisturbed' = (hit \/ undisturbed)

\* A window too small to draw in: the particle takes the beat's size all the same.
RenderTooSmall(beat) ==
  /\ worn.kind = "MovingParticle"
  /\ beat /\ worn.set.triggered
  /\ worn' = [worn EXCEPT !.current = worn.set.onBeat]
  /\ since' = -1 /\ calm' = 0 /\ beaten' = worn.set.onBeat /\ undisturbed' = TRUE
  /\ UNCHANGED level

BeatDecayNext ==
  \/ \E s \in Asked : DecaySetParams(s)
  \/ \E beat \in BOOLEAN : DecayRender(beat) \/ RenderTooSmall(beat)

BeatDecaySpec == BeatDecayInit /\ [][BeatDecayNext]_beatDecayVars

-------------------------------------------------------------------------------
BeatDecayTypeOK ==
  /\ worn.kind \in DecayKinds /\ worn.set \in Asked
  /\ worn.current \in 1..MaxLevel /\ level \in 1..MaxLevel
  /\ worn.remaining \in Nat
  /\ since \in -1..Longest /\ calm \in 0..Longest /\ undisturbed \in BOOLEAN

\* The particle stays one short of a base it comes to from below.
Settled ==
  \/ level = worn.set.base
  \/ worn.kind = "MovingParticle" /\ level = worn.set.base - 1

\* The frames a value may take back to the base, over a way of at most d.
WearTime(d) ==
  CASE worn.kind = "Mosaic"      -> Higher(1, worn.set.duration)
    [] worn.kind = "RotoBlitter" -> (d + 2) \div 3
    [] OTHER                     -> d

\* What a beat sets wears off: as long as the settings stay, the value drawn lies
\* between the beat's and the configured one and reaches the latter in its time; and
\* however the settings change in the middle of it, calm frames bring it there (a
\* shortened duration makes Mosaic's steps longer, which go past the base until the
\* frames of the old duration are over).  For Mosaic this is the code's idea of its
\* duration: docs/effects/trans/mosaic.md:16 and 31 have the beat's quality held for
\* so many frames and stepped back after them.
BeatWearsOff ==
  /\ undisturbed /\ since >= 0 =>
       /\ level \in Lower(beaten, worn.set.base)..Higher(beaten, worn.set.base)
       /\ since >= WearTime(Distance(beaten, worn.set.base)) => Settled
  /\ calm > (IF worn.kind = "Mosaic" THEN Slowest ELSE WearTime(MaxLevel)) => Settled

===============================================================================
