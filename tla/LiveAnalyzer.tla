------------------------------ MODULE LiveAnalyzer ------------------------------
(***************************************************************************)
(* LiveAudioAnalyzer (apps/avs-player/main.cpp): the stream's thread calls *)
(* pushSamples, the player's loop calls poll.  A mutex guards the ring;    *)
(* poll copies its window under the mutex and analyses it afterwards.      *)
(*                                                                         *)
(* A frame is named by its position in the stream; what the channels mix   *)
(* to, the spectrum and the bands are left out.  writeIndex_ wraps, so the *)
(* model keeps the position apart, as history.                             *)
(***************************************************************************)
EXTENDS Integers, Sequences

CONSTANTS
  RingSize,     \* kRingSize, 2^15 in the code
  FftSize,      \* kFftSize
  MaxFrames,    \* bound: frames of one call of pushSamples
  MaxTotal      \* bound: frames of a behaviour

ASSUME AnalyzerAssumption ==
  /\ RingSize \in Nat \ {0}
  /\ FftSize \in 1..RingSize
  /\ MaxFrames \in Nat /\ MaxTotal \in Nat

VARIABLES
  ringLeft,       \* the position of the frame in each slot, -1 for silence
  writeIndex_,
  framesFilled,
  mutex,         \* "free", "push" or "poll"
  frame, frames, \* of the call of pushSamples
  leftWindow,
  i, toCopy, startIndex,   \* of the call of poll
  polling,        \* "out", "copy" or "analyse"
  total,         \* history: frames pushed
  seen           \* history: total when poll took the mutex

pushVars         == <<ringLeft, writeIndex_, framesFilled, frame, frames, total>>
analyzerPollVars == <<leftWindow, i, toCopy, startIndex, polling, seen>>
analyzerVars     == <<pushVars, analyzerPollVars, mutex>>

Smaller(a, b) == IF a < b THEN a ELSE b
Silence       == -1

AnalyzerInit ==
  /\ ringLeft     = [s \in 0..(RingSize - 1) |-> Silence]
  /\ writeIndex_  = 0
  /\ framesFilled = 0
  /\ mutex        = "free"
  /\ frame        = 0
  /\ frames       = 0
  /\ leftWindow   = [j \in 0..(FftSize - 1) |-> Silence]
  /\ i            = 0
  /\ toCopy       = 0
  /\ startIndex   = 0
  /\ polling      = "out"
  /\ total        = 0
  /\ seen         = 0

-------------------------------------------------------------------------------
(* pushSamples: a call with no frames returns at once. *)

PushBegin(n) ==
  /\ mutex = "free"
  /\ n > 0
  /\ total + n <= MaxTotal
  /\ mutex' = "push"
  /\ frame' = 0
  /\ frames' = n
  /\ UNCHANGED <<ringLeft, writeIndex_, framesFilled, total, analyzerPollVars>>

PushFrame ==
  /\ mutex = "push"
  /\ frame < frames
  /\ ringLeft' = [ringLeft EXCEPT ![(writeIndex_ + frame) % RingSize] = total + frame]
  /\ frame' = frame + 1
  /\ UNCHANGED <<writeIndex_, framesFilled, frames, total, analyzerPollVars, mutex>>

PushEnd ==
  /\ mutex = "push"
  /\ frame = frames
  /\ writeIndex_' = (writeIndex_ + frames) % RingSize
  /\ framesFilled' = Smaller(framesFilled + frames, RingSize)
  /\ total' = total + frames
  /\ mutex' = "free"
  /\ UNCHANGED <<ringLeft, frame, frames, analyzerPollVars>>

-------------------------------------------------------------------------------
(* poll *)

\* mutant: the mutex is not held while the window is copied
PollLockUnlocked ==
  /\ polling = "out"
  /\ mutex = "free"
  /\ leftWindow' = [j \in 0..(FftSize - 1) |-> Silence]
  /\ toCopy' = Smaller(framesFilled, FftSize)
  /\ startIndex' = (writeIndex_ + RingSize - toCopy') % RingSize
  /\ i' = 0
  /\ seen' = total
  /\ polling' = "copy"
  /\ UNCHANGED <<pushVars, mutex>>

PollLock ==
  /\ polling = "out"
  /\ mutex = "free"
  /\ mutex' = "poll"
  /\ leftWindow' = [j \in 0..(FftSize - 1) |-> Silence]
  /\ toCopy' = Smaller(framesFilled, FftSize)
  /\ startIndex' = (writeIndex_ + RingSize - toCopy') % RingSize
  /\ i' = 0
  /\ seen' = total
  /\ polling' = "copy"
  /\ UNCHANGED pushVars

PollFrame ==
  /\ polling = "copy"
  /\ i < toCopy
  /\ leftWindow' = [leftWindow EXCEPT ![FftSize - toCopy + i] = ringLeft[(startIndex + i) % RingSize]]
  /\ i' = i + 1
  /\ UNCHANGED <<pushVars, toCopy, startIndex, polling, seen, mutex>>

PollUnlock ==
  /\ polling = "copy"
  /\ i = toCopy
  /\ mutex' = "free"
  /\ polling' = "analyse"
  /\ UNCHANGED <<pushVars, leftWindow, i, toCopy, startIndex, seen>>

PollReturn ==
  /\ polling = "analyse"
  /\ polling' = "out"
  /\ UNCHANGED <<pushVars, leftWindow, i, toCopy, startIndex, seen, mutex>>

AnalyzerPoll == PollLock \/ PollFrame \/ PollUnlock \/ PollReturn

AnalyzerNext == (\E n \in 1..MaxFrames : PushBegin(n)) \/ PushFrame \/ PushEnd \/ AnalyzerPoll

AnalyzerSpec == AnalyzerInit /\ [][AnalyzerNext]_analyzerVars

-------------------------------------------------------------------------------
AnalyzerTypeOK ==
  /\ ringLeft \in [0..(RingSize - 1) -> Nat \cup {Silence}]
  /\ writeIndex_ \in 0..(RingSize - 1)
  /\ framesFilled \in 0..RingSize
  /\ mutex \in {"free", "push", "poll"}
  /\ frame \in Nat /\ frames \in Nat /\ frame <= frames
  /\ leftWindow \in [0..(FftSize - 1) -> Nat \cup {Silence}]
  /\ toCopy \in 0..FftSize /\ i \in 0..toCopy
  /\ startIndex \in 0..(RingSize - 1)
  /\ polling \in {"out", "copy", "analyse"}
  /\ total \in Nat /\ seen \in Nat

\* Whenever poll analyses a window it is the last FftSize frames of the stream,
\* in order and whole, as of when poll took the mutex; before the stream has as
\* many it is right aligned behind silence.  However much one push delivers.
WindowIsTail ==
  polling = "analyse" =>
    \A j \in DOMAIN leftWindow :
      LET position == seen - FftSize + j
      IN  leftWindow[j] = IF position >= 0 THEN position ELSE Silence

===============================================================================
