------------------------------ MODULE CaptureRing ------------------------------
(***************************************************************************)
(* avs::AudioInput (libs/avs-audio-io/src/audio_portaudio.cpp): PortAudio  *)
(* calls paCallback on its own thread; the renderer calls poll.  They      *)
(* share a ring of floats without a lock: the callback fills slots and     *)
(* then publishes writeIndex, poll copies the Window samples before the    *)
(* index it loaded, once for the spectrum and once for the scope.          *)
(*                                                                         *)
(* A sample is named by its position in the stream; writeIndex is a size_t *)
(* that does not wrap in any run of the program.                           *)
(***************************************************************************)
EXTENDS Integers, Sequences

CONSTANTS
  Ring,          \* slots of the ring, 2^16 in the code
  Window,        \* kFftSize * channels
  Scope,         \* legacy samples of the oscilloscope, the end of the window
  MaxBlock,      \* bound: samples a callback delivers
  MaxSamples,    \* bound: samples of a behaviour
  MaxUnderflows, \* bound: underflows of a behaviour
  MaxStreak      \* kMaxConsecutiveUnderflows, 3 in the code

ASSUME RingAssumption ==
  /\ Ring \in Nat \ {0}
  /\ Window \in 1..Ring
  /\ Scope \in 1..Window
  /\ MaxBlock \in Nat
  /\ MaxSamples \in Nat
  /\ MaxUnderflows \in Nat
  /\ MaxStreak \in Nat \ {0}

VARIABLES
  ring,            \* the position of the sample in each slot, -1 for the 0.0 it starts with
  writeIndex,
  cb,              \* the callback: "idle", "write" or "aborted"
  next, last,      \* the positions it is writing: the next and the end of the block
  cbUnderflow,     \* it is going to count an underflow
  underflowCount,  \* inputUnderflowCount
  resampleFailed,
  useResampler,
  stream,          \* "open" or "null"
  ok, okOut,       \* ok of Impl, and ok_ of AudioInput
  pollPc,          \* where poll is
  start,           \* the first sample of the window being copied
  copied,          \* history: the samples copied from the window's slots so far
  lastUnderflow,   \* lastUnderflowCount
  streak,          \* consecutiveUnderflowPolls
  recent           \* history: which of the last MaxStreak polls saw a new underflow

ringVars == <<ring, writeIndex, next, last>>
cbVars   == <<ringVars, cb, cbUnderflow, underflowCount, resampleFailed>>
pollVars == <<pollPc, start, copied, lastUnderflow, streak, recent>>
ctlVars  == <<stream, ok, okOut>>
vars     == <<cbVars, pollVars, ctlVars, useResampler>>

Slots   == 0..(Ring - 1)
Slot(k) == k % Ring        \* k & mask, Ring being a power of two

\* The constructor either starts the stream or returns early with ok false.
Init ==
  /\ useResampler \in BOOLEAN
  /\ ok \in BOOLEAN
  /\ okOut          = ok
  /\ stream         = IF ok THEN "open" ELSE "null"
  /\ ring           = [s \in Slots |-> -1]
  /\ writeIndex     = 0
  /\ cb             = "idle"
  /\ next           = 0
  /\ last           = 0
  /\ cbUnderflow    = FALSE
  /\ underflowCount = 0
  /\ resampleFailed = FALSE
  /\ pollPc         = "out"
  /\ start          = 0
  /\ copied         = <<>>
  /\ lastUnderflow  = 0
  /\ streak         = 0
  /\ recent         = <<>>

-------------------------------------------------------------------------------
(* paCallback *)

\* The samples of a block: what the device delivers, or what the resampler makes
\* of it (possibly none), or zeros when there is no input.
CallbackBegin(n, underflow) ==
  /\ stream = "open"
  /\ cb = "idle"
  /\ n > 0 \/ useResampler
  /\ writeIndex + n <= MaxSamples
  /\ underflow => underflowCount < MaxUnderflows
  /\ cb' = "write"
  /\ next' = writeIndex
  /\ last' = writeIndex + n
  /\ cbUnderflow' = underflow
  /\ UNCHANGED <<ring, writeIndex, underflowCount, resampleFailed, pollVars, ctlVars, useResampler>>

\* src_process fails: paAbort, and PortAudio does not call again.
CallbackAbort ==
  /\ stream = "open"
  /\ cb = "idle"
  /\ useResampler
  /\ cb' = "aborted"
  /\ resampleFailed' = TRUE
  /\ UNCHANGED <<ringVars, cbUnderflow, underflowCount, pollVars, ctlVars, useResampler>>

\* processCallbackInput
WriteSample ==
  /\ cb = "write"
  /\ next < last
  /\ ring' = [ring EXCEPT ![Slot(next)] = next]
  /\ next' = next + 1
  /\ UNCHANGED <<writeIndex, last, cb, cbUnderflow, underflowCount, resampleFailed,
                 pollVars, ctlVars, useResampler>>

\* mutant: the index is published before the samples are written
PublishEarly ==
  /\ cb = "write"
  /\ writeIndex' = last
  /\ cb' = IF next = last THEN "idle" ELSE cb
  /\ underflowCount' = underflowCount + (IF cbUnderflow /\ next = last THEN 1 ELSE 0)
  /\ UNCHANGED <<ring, next, last, cbUnderflow, resampleFailed, pollVars, ctlVars, useResampler>>

\* The underflow is counted, then the samples are published.
Publish ==
  /\ cb = "write"
  /\ next = last
  /\ underflowCount' = underflowCount + (IF cbUnderflow THEN 1 ELSE 0)
  /\ writeIndex' = last
  /\ cb' = "idle"
  /\ UNCHANGED <<ring, next, last, cbUnderflow, resampleFailed, pollVars, ctlVars, useResampler>>

-------------------------------------------------------------------------------
(* poll *)

\* mutant: the flag is cleared and the stream left running
CaptureFlagOnly(stops) ==
  IF stops THEN ok' = FALSE /\ UNCHANGED stream
           ELSE UNCHANGED <<stream, ok>>

\* stopStream and ok = false.  Pa_StopStream returns when no callback is running.
Capture(stops) ==
  IF stops THEN /\ cb # "write"
                /\ stream' = "null"
                /\ ok' = FALSE
           ELSE UNCHANGED <<stream, ok>>

PollBegin ==
  /\ pollPc = "out"
  /\ ok
  /\ ~resampleFailed
  /\ pollPc' = "underflow"
  /\ copied' = <<>>
  /\ UNCHANGED <<cbVars, start, lastUnderflow, streak, recent, ctlVars, useResampler>>

\* mutant: poll returns an empty state and leaves it at that
PollFailureIgnored ==
  /\ pollPc = "out"
  /\ ok
  /\ resampleFailed
  /\ UNCHANGED <<cbVars, pollVars, ctlVars, useResampler>>

PollResampleFailure ==
  /\ pollPc = "out"
  /\ ok
  /\ resampleFailed
  /\ Capture(TRUE)
  /\ okOut' = FALSE
  /\ UNCHANGED <<cbVars, pollVars, useResampler>>

\* AudioInput::poll of a capture that has stopped: ok_ follows ok.
PollStopped ==
  /\ pollPc = "out"
  /\ ~ok
  /\ okOut' = FALSE
  /\ UNCHANGED <<cbVars, pollVars, stream, ok, useResampler>>

Saw == underflowCount > lastUnderflow
Recent(s) == IF Len(recent) < MaxStreak THEN Append(recent, s) ELSE Append(Tail(recent), s)

\* mutant: a poll without an underflow does not end the streak
PollUnderflowSticky ==
  /\ pollPc = "underflow"
  /\ streak' = IF Saw THEN streak + 1 ELSE streak
  /\ lastUnderflow' = underflowCount
  /\ recent' = Recent(Saw)
  /\ Capture(streak' >= MaxStreak)
  /\ okOut' = (streak' < MaxStreak)
  /\ pollPc' = IF streak' >= MaxStreak THEN "out" ELSE "window"
  /\ UNCHANGED <<cbVars, start, copied, useResampler>>

\* Underflows seen by MaxStreak polls in a row stop the capture.
PollUnderflow ==
  /\ pollPc = "underflow"
  /\ streak' = IF Saw THEN streak + 1 ELSE 0
  /\ lastUnderflow' = underflowCount
  /\ recent' = Recent(Saw)
  /\ Capture(streak' >= MaxStreak)
  /\ okOut' = (streak' < MaxStreak)
  /\ pollPc' = IF streak' >= MaxStreak THEN "out" ELSE "window"
  /\ UNCHANGED <<cbVars, start, copied, useResampler>>

\* mutant: a window is taken before there are enough samples
PollWindowAlways ==
  /\ pollPc = "window"
  /\ start' = IF writeIndex < Window THEN 0 ELSE writeIndex - Window
  /\ pollPc' = "copy"
  /\ UNCHANGED <<cbVars, copied, lastUnderflow, streak, recent, ctlVars, useResampler>>

\* Not enough data yet: poll returns; otherwise the window ends at writeIndex.
PollWindow ==
  /\ pollPc = "window"
  /\ IF writeIndex < Window
       THEN pollPc' = "out" /\ UNCHANGED start
       ELSE pollPc' = "copy" /\ start' = writeIndex - Window
  /\ UNCHANGED <<cbVars, copied, lastUnderflow, streak, recent, ctlVars, useResampler>>

\* The window goes to mono, then its last Scope samples to the oscilloscope.
Wanted(i) == IF i <= Window THEN start + i - 1 ELSE start + (i - Scope) - 1

CopySample ==
  /\ pollPc = "copy"
  /\ Len(copied) < Window + Scope
  /\ copied' = Append(copied, ring[Slot(Wanted(Len(copied) + 1))])
  /\ UNCHANGED <<cbVars, pollPc, start, lastUnderflow, streak, recent, ctlVars, useResampler>>

PollEnd ==
  /\ pollPc = "copy"
  /\ Len(copied) = Window + Scope
  /\ pollPc' = "out"
  /\ UNCHANGED <<cbVars, start, copied, lastUnderflow, streak, recent, ctlVars, useResampler>>

Poll ==
  \/ PollBegin \/ PollResampleFailure \/ PollStopped \/ PollUnderflow
  \/ PollWindow \/ CopySample \/ PollEnd

\* ~AudioInput, outside of poll.
Delete ==
  /\ pollPc = "out"
  /\ cb # "write"
  /\ pollPc' = "deleted"
  /\ stream' = "null"
  /\ UNCHANGED <<cbVars, start, copied, lastUnderflow, streak, recent, ok, okOut, useResampler>>

Deleted ==
  /\ pollPc = "deleted"
  /\ UNCHANGED vars

Next ==
  \/ \E n \in 0..MaxBlock, u \in BOOLEAN : CallbackBegin(n, u)
  \/ CallbackAbort \/ WriteSample \/ Publish
  \/ Poll \/ Delete \/ Deleted

Spec == Init /\ [][Next]_vars

\* The renderer polls in every frame and PortAudio's thread finishes a callback.
FairSpec == Spec /\ WF_vars(Poll) /\ WF_vars(WriteSample \/ Publish)

-------------------------------------------------------------------------------
TypeOK ==
  /\ ring \in [Slots -> -1..(MaxSamples - 1)]
  /\ writeIndex \in 0..MaxSamples
  /\ next \in 0..MaxSamples /\ last \in 0..MaxSamples
  /\ cb \in {"idle", "write", "aborted"}
  /\ stream \in {"open", "null"}
  /\ ok \in BOOLEAN /\ okOut \in BOOLEAN
  /\ pollPc \in {"out", "underflow", "window", "copy", "deleted"}
  /\ start \in 0..MaxSamples
  /\ streak \in 0..MaxStreak
  /\ underflowCount \in 0..MaxUnderflows /\ lastUnderflow \in 0..underflowCount

\* The published part of the ring: every sample before writeIndex that the
\* callback has not lapped is in its slot, also in the middle of a callback.
PublishedInPlace ==
  \A k \in 0..(writeIndex - 1) : next <= k + Ring => ring[Slot(k)] = k

\* A sample that poll copies is the one it wanted unless the callback has gone
\* round the ring since poll loaded writeIndex: then it is a later one, and
\* never a slot that has not been written.  As long as the callback has delivered
\* no more than Ring - Window samples since then, the window is exact.
TornOnlyWhenLapped ==
  \A i \in DOMAIN copied :
    pollPc = "copy" =>
      /\ copied[i] >= Wanted(i)
      /\ copied[i] # Wanted(i) => copied[i] >= Wanted(i) + Ring /\ copied[i] < next

\* A capture is stopped for underflow only after MaxStreak polls in a row have
\* each seen a new one.
StoppedOnlyForStreak ==
  [][ok /\ ~ok' =>
       \/ resampleFailed
       \/ Len(recent') = MaxStreak /\ \A d \in DOMAIN recent' : recent'[d]]_vars

\* A stream that failed is closed: poll never leaves a callback running on a
\* capture that it has reported as stopped, and no callback touches the ring of
\* a deleted one.
StoppedIsSilent == ~ok \/ pollPc = "deleted" => stream = "null" /\ cb # "write"

\* A resampler failure on the callback's thread reaches the caller of poll.
FailureReported == (resampleFailed /\ ok) ~> (~okOut \/ pollPc = "deleted")

===============================================================================
