------------------------------- MODULE VideoDelay -------------------------------
(***************************************************************************)
(* The effect "Video Delay" (trans/effect_video_delay.cpp): a ring of      *)
(* frames, as long as the delay, from which the oldest is shown while the  *)
(* newest takes its place.  The delay is a number of frames or a multiple  *)
(* of the frames between beats, and may change at every frame.             *)
(*                                                                         *)
(* A frame is named by its number among the frames the effect processed;   *)
(* Black stands for zeroed memory.  A size stands for width * height * 4.  *)
(***************************************************************************)
EXTENDS Integers

CONSTANTS
  HistoryMax,     \* kMaxHistoryFrames
  FrameDelayMax,  \* kMaxFrameDelay
  BeatDelayMax,   \* kMaxBeatMultiplier
  DefaultDelay,   \* baseDelay_ of a new effect
  DelaysAsked,    \* delays a preset asks for
  FrameSizes,     \* sizes of the framebuffer; 0 is one that is missing or too small
  MaxFrames       \* bound: frames processed

ASSUME VideoDelayAssumption ==
  /\ HistoryMax \in Nat /\ FrameDelayMax \in 0..HistoryMax /\ BeatDelayMax \in Nat
  /\ DefaultDelay \in 0..FrameDelayMax
  /\ DelaysAsked \subseteq Int /\ FrameSizes \subseteq Nat

VARIABLES
  settings,   \* [enabled, useBeats, base]
  beat,       \* [since, delay]: framesSinceBeat_, currentDelayFrames_
  line,       \* [size, count, head, filled, slots]: the ring buffer
  processed,  \* history: frames processed
  steady,     \* history: frames since the first with this delay and size, -1 before it
  shown,      \* history: what the last one showed
  resized     \* history: the last frame processed before the size changed

videoDelayVars == <<settings, beat, line, processed, steady, shown, resized>>

Black == 0

Least(a, b)        == IF a < b THEN a ELSE b
Greatest(a, b)     == IF a > b THEN a ELSE b
Clamped(v, lo, hi) == Least(Greatest(v, lo), hi)

NoLine(size) == [size |-> size, count |-> 0, head |-> 0, filled |-> 0, slots |-> [i \in {} |-> Black]]

VideoDelayInit ==
  /\ settings  = [enabled |-> TRUE, useBeats |-> FALSE, base |-> DefaultDelay]
  /\ beat      = [since |-> 0, delay |-> DefaultDelay]
  /\ line      = NoLine(0)
  /\ processed = 0
  /\ steady    = -1
  /\ shown     = Black
  /\ resized   = 0

-------------------------------------------------------------------------------
\* setParams: a change of mode empties the line in beat mode only.
VideoDelaySetParams(enabled, useBeats, asked) ==
  LET base == Clamped(asked, 0, IF useBeats THEN BeatDelayMax ELSE FrameDelayMax)
  IN  /\ settings' = [enabled |-> enabled, useBeats |-> useBeats, base |-> base]
      /\ IF useBeats
           THEN IF settings.useBeats
                  THEN UNCHANGED <<beat, line>>
                  ELSE /\ beat' = [since |-> 0, delay |-> 0]
                       /\ line' = [line EXCEPT !.head = 0, !.filled = 0]
           ELSE /\ beat' = [since |-> 0, delay |-> Clamped(base, 0, HistoryMax)]
                /\ UNCHANGED line
      /\ steady' = IF useBeats = settings.useBeats /\ beat' = beat THEN steady ELSE -1
      /\ UNCHANGED <<processed, shown, resized>>

\* computeDelayFrames
Delayed(onBeat) ==
  IF settings.useBeats
    THEN [since |-> Least((IF onBeat THEN 0 ELSE beat.since) + 1, HistoryMax),
          delay |-> IF onBeat THEN Least(beat.since * settings.base, HistoryMax) ELSE beat.delay]
    ELSE [since |-> 0, delay |-> Clamped(settings.base, 0, HistoryMax)]

\* mutant: a ring of the right number of frames is kept when their size changes
LineKept(l, size, frames) ==
  IF frames = 0 THEN NoLine(size)
  ELSE IF l.count = frames THEN [l EXCEPT !.size = size]
  ELSE LET kept == IF l.size = size THEN Least(l.filled, Least(l.count, frames)) ELSE 0
       IN  [size |-> size, count |-> frames, head |-> 0, filled |-> kept,
            slots |-> [i \in 0..(frames - 1) |->
                         IF i < kept THEN l.slots[(l.head + i) % l.count] ELSE Black]]

\* ensureBuffer: the oldest frames are kept.
LineFor(l, size, frames) ==
  LET old  == IF l.size = size THEN l ELSE NoLine(size)
      kept == Least(old.filled, Least(old.count, frames))
  IN  IF frames = 0 THEN NoLine(size)
      ELSE IF old.count = frames THEN old
      ELSE [size |-> size, count |-> frames, head |-> 0, filled |-> kept,
            slots |-> [i \in 0..(frames - 1) |->
                         IF i < kept THEN old.slots[(old.head + i) % old.count] ELSE Black]]

\* mutant: a full line does not advance its head
SwappedFixedHead(l, frame) ==
  [l EXCEPT !.slots[l.head] = frame,
            !.filled = Least(l.filled + 1, l.count),
            !.head   = IF l.filled < l.count THEN (l.head + 1) % l.count ELSE l.head]

\* The frame takes the place of the oldest one.
Swapped(l, frame) ==
  [l EXCEPT !.slots[l.head] = frame,
            !.filled = Least(l.filled + 1, l.count),
            !.head   = (l.head + 1) % l.count]

\* While the delay of beat mode is 0 the frames are only recorded.
Recorded(l, frame) ==
  [l EXCEPT !.slots[(l.head + l.filled) % l.count] = frame,
            !.filled = Least(l.filled + 1, l.count),
            !.head   = IF l.filled < l.count THEN l.head ELSE (l.head + 1) % l.count]

VideoDelayRender(size, onBeat) ==
  /\ processed < MaxFrames
  /\ beat' = Delayed(onBeat)
  /\ UNCHANGED settings
  /\ IF size = 0 \/ ~settings.enabled
       THEN /\ steady' = IF beat'.delay = beat.delay THEN steady ELSE -1
            /\ UNCHANGED <<line, processed, shown, resized>>
       ELSE LET wanted == IF settings.useBeats THEN Greatest(beat'.delay, beat'.since)
                          ELSE beat'.delay
                l      == LineFor(line, size, wanted)
                frame  == processed + 1
            IN  /\ processed' = frame
                /\ resized' = IF line.size = size THEN resized ELSE processed
                /\ steady' = IF wanted # beat'.delay THEN -1
                             ELSE IF line.size # size \/ beat'.delay # beat.delay THEN 0
                             ELSE steady + 1
                /\ IF l.count > 0 /\ beat'.delay > 0
                     THEN /\ line'  = Swapped(l, frame)
                          /\ shown' = l.slots[l.head]
                     ELSE /\ line'  = IF l.count > 0 /\ settings.useBeats
                                        THEN Recorded(l, frame) ELSE l
                          /\ shown' = frame

VideoDelayNext ==
  \/ \E e, b \in BOOLEAN, d \in DelaysAsked : VideoDelaySetParams(e, b, d)
  \/ \E s \in FrameSizes, b \in BOOLEAN : VideoDelayRender(s, b)

VideoDelaySpec == VideoDelayInit /\ [][VideoDelayNext]_videoDelayVars

-------------------------------------------------------------------------------
VideoDelayTypeOK ==
  /\ settings \in [enabled : BOOLEAN, useBeats : BOOLEAN, base : 0..Greatest(FrameDelayMax, BeatDelayMax)]
  /\ beat \in [since : 0..HistoryMax, delay : 0..HistoryMax]
  /\ line.count \in 0..HistoryMax
  /\ line.filled \in 0..line.count
  /\ line.count > 0 => line.head \in 0..(line.count - 1)
  /\ line.slots \in [0..(line.count - 1) -> 0..processed]

\* Once as many frames as the delay were processed with the same delay, mode and
\* size, and in beat mode no later than the delay after a beat, a frame shows the
\* one the delay says, whatever the ring went through before.  Frames for which
\* the effect is disabled do not count.
ShownIsDelayed ==
  [][(processed' > processed /\ steady' >= beat'.delay) => shown' = processed' - beat'.delay]_videoDelayVars

\* A frame recorded in another size is never shown: the line forgets it when the
\* size changes, whatever its length.
OwnSizeOnly == shown = Black \/ shown > resized

===============================================================================
