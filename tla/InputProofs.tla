----------------------------- MODULE InputProofs -----------------------------
(* What reaches the analyzers of the live input, and who owns its streams, for every
   size of the rings and every number of streams. *)
EXTENDS CaptureRing, InputStream, AudioDevices, EffectList, SharedLemmas, SequenceTheorems, TLAPS

(* CaptureRing: the ring of the PortAudio capture. *)

USE RingAssumption

\* Of what the slots hold, next is the position the stream has come to.
Progress ==
  /\ cb # "write" => next = writeIndex /\ last = writeIndex
  /\ cb = "write" => writeIndex <= next /\ next <= last
  /\ cbUnderflow \in BOOLEAN
  /\ cb = "write" /\ cbUnderflow => underflowCount < MaxUnderflows

\* A slot holds a sample of its own, and no older one than the last written to it.
SlotsHold ==
  /\ \A s \in Slots : ring[s] < next /\ (ring[s] # -1 => Slot(ring[s]) = s)
  /\ \A k \in 0..(next - 1) : ring[Slot(k)] >= k

\* The window ends at an index that had been published; what poll has copied of it.
WindowTaken ==
  /\ copied \in Seq(Int)
  /\ pollPc \in {"underflow", "window"} => copied = <<>>
  /\ pollPc = "copy" =>
       /\ start + Window <= writeIndex
       /\ Len(copied) <= Window + Scope
       /\ \A d \in 1..Len(copied) :
            /\ copied[d] >= Wanted(d)
            /\ copied[d] # Wanted(d) => copied[d] >= Wanted(d) + Ring /\ copied[d] < next

\* streak counts the polls at the end of recent that saw an underflow.
StreakIsRecent ==
  /\ recent \in Seq(BOOLEAN)
  /\ Len(recent) <= MaxStreak
  /\ streak <= Len(recent)
  /\ \A k \in 1..Len(recent) : k > Len(recent) - streak => recent[k]
  /\ ok => streak < MaxStreak
  /\ pollPc \in {"underflow", "window", "copy"} => ok

RingInv == TypeOK /\ Progress /\ SlotsHold
CtlInv  == StreakIsRecent /\ StoppedIsSilent
Inv     == RingInv /\ CtlInv /\ WindowTaken

\* The ring starts with no sample in any slot.
LEMMA RingInit == Init => Inv
<1>1. SUFFICES ASSUME Init PROVE Inv
  OBVIOUS
<1> USE <1>1 DEF Init
<1>2. TypeOK
  BY DEF TypeOK
<1>3. Progress
  BY DEF Progress
<1>4. SlotsHold
  BY DEF SlotsHold
<1>5. StreakIsRecent
  BY DEF StreakIsRecent
<1>6. StoppedIsSilent
  BY DEF StoppedIsSilent
<1>7. WindowTaken
  BY DEF WindowTaken
<1> QED
  BY <1>2, <1>3, <1>4, <1>5, <1>6, <1>7 DEF Inv, RingInv, CtlInv

\* A write takes the slot of a sample a whole ring older; everything else in
\* the callback leaves the slots alone.
LEMMA RingNext == Inv /\ [Next]_vars => RingInv'
<1>1. SUFFICES ASSUME Inv, [Next]_vars PROVE RingInv'
  OBVIOUS
<1> USE <1>1 DEF Inv, RingInv
<1>2. ASSUME NEW n \in 0..MaxBlock, NEW u \in BOOLEAN, CallbackBegin(n, u) PROVE RingInv'
  BY <1>2 DEF CallbackBegin, pollVars, ctlVars, TypeOK, Progress, SlotsHold
<1>3. CASE CallbackAbort
  BY <1>3 DEF CallbackAbort, ringVars, pollVars, ctlVars, TypeOK, Progress, SlotsHold
<1>4. CASE WriteSample
  <2>1. /\ next \in Nat /\ next < last /\ next' = next + 1 /\ last' = last
        /\ writeIndex' = writeIndex /\ cb' = cb /\ cb = "write"
        /\ ring' = [ring EXCEPT ![Slot(next)] = next]
    BY <1>4 DEF WriteSample, TypeOK
  <2>2. Slot(next) \in Slots
    BY <2>1, DivideNat DEF Slot, Slots
  <2>3. TypeOK'
    BY <1>4, <2>1, <2>2 DEF WriteSample, TypeOK, pollVars, ctlVars
  <2>4. Progress'
    BY <1>4, <2>1 DEF WriteSample, TypeOK, Progress
  <2>5. ASSUME NEW s \in Slots
        PROVE  ring'[s] < next' /\ (ring'[s] # -1 => Slot(ring'[s]) = s)
    <3>1. CASE s = Slot(next)
      BY <2>1, <2>2, <3>1 DEF TypeOK
    <3>2. CASE s # Slot(next)
      <4>1. ring'[s] = ring[s] /\ ring[s] \in Int
        BY <2>1, <3>2 DEF TypeOK
      <4> QED
        BY <2>1, <4>1 DEF SlotsHold
    <3> QED
      BY <3>1, <3>2
  <2>6. ASSUME NEW k \in 0..(next' - 1)
        PROVE  ring'[Slot(k)] >= k
    <3>1. Slot(k) \in Slots
      BY <2>1, DivideNat DEF Slot, Slots
    <3>2. CASE Slot(k) = Slot(next)
      BY <2>1, <2>2, <3>2 DEF TypeOK
    <3>3. CASE Slot(k) # Slot(next)
      <4>1. ring'[Slot(k)] = ring[Slot(k)]
        BY <2>1, <3>1, <3>3 DEF TypeOK
      <4>2. k \in 0..(next - 1)
        BY <2>1, <3>3
      <4> QED
        BY <4>1, <4>2 DEF SlotsHold
    <3> QED
      BY <3>2, <3>3
  <2> QED
    BY <2>3, <2>4, <2>5, <2>6 DEF SlotsHold
<1>5. CASE Publish
  BY <1>5 DEF Publish, pollVars, ctlVars, TypeOK, Progress, SlotsHold
<1>6. CASE Poll \/ Delete \/ Deleted \/ UNCHANGED vars
  <2>1. UNCHANGED cbVars
    BY <1>6 DEF Poll, PollBegin, PollResampleFailure, PollStopped, PollUnderflow, PollWindow,
                CopySample, PollEnd, Delete, Deleted, vars
  <2>2. Progress' /\ SlotsHold'
    BY <2>1 DEF cbVars, ringVars, Progress, SlotsHold
  <2>3. TypeOK'
    <3>1. start' \in 0..MaxSamples
      <4>1. CASE PollWindow
        BY <4>1 DEF PollWindow, TypeOK
      <4>2. CASE ~PollWindow
        <5>1. start' = start
          BY <1>6, <4>2 DEF Poll, PollBegin, PollResampleFailure, PollStopped, PollUnderflow,
                            CopySample, PollEnd, Delete, Deleted, vars, pollVars
        <5> QED
          BY <5>1 DEF TypeOK
      <4> QED
        BY <4>1, <4>2
    <3>2. /\ stream' \in {"open", "null"} /\ ok' \in BOOLEAN /\ okOut' \in BOOLEAN
          /\ pollPc' \in {"out", "underflow", "window", "copy", "deleted"}
      <4>1. CASE PollUnderflow
        <5>0. streak' \in Int /\ okOut' = (streak' < MaxStreak)
          BY <4>1 DEF PollUnderflow, TypeOK
        <5>1. okOut' \in BOOLEAN
          BY <5>0
        <5>2. (stream' = stream /\ ok' = ok) \/ (stream' = "null" /\ ok' = FALSE)
          BY <4>1, Zenon DEF PollUnderflow, Capture
        <5>3. stream' \in {"open", "null"} /\ ok' \in BOOLEAN
          BY <5>2 DEF TypeOK
        <5>4. pollPc' \in {"out", "window"}
          BY <4>1 DEF PollUnderflow
        <5> QED
          BY <5>1, <5>3, <5>4
      <4>4. CASE PollResampleFailure
        BY <4>4 DEF PollResampleFailure, pollVars, TypeOK, Capture
      <4>2. CASE PollStopped \/ PollBegin \/ PollWindow \/ CopySample \/ PollEnd
        BY <4>2 DEF PollStopped, PollBegin, PollWindow, CopySample, PollEnd, pollVars, ctlVars, TypeOK
      <4>3. CASE Delete \/ Deleted \/ UNCHANGED vars
        BY <4>3 DEF Delete, Deleted, vars, pollVars, ctlVars, TypeOK
      <4> QED
        BY <1>6, <4>1, <4>2, <4>3, <4>4 DEF Poll
    <3>3. streak' \in 0..MaxStreak /\ lastUnderflow' \in 0..underflowCount
      <4>1. CASE PollUnderflow
        BY <4>1 DEF PollUnderflow, TypeOK, CtlInv, StreakIsRecent
      <4>2. CASE ~PollUnderflow
        BY <1>6, <4>2 DEF Poll, PollBegin, PollResampleFailure, PollStopped, PollWindow,
                  CopySample, PollEnd, Delete, Deleted, vars, pollVars, TypeOK
      <4> QED
        BY <4>1, <4>2
    <3> QED
      BY <2>1, <3>1, <3>2, <3>3 DEF TypeOK, cbVars, ringVars
  <2> QED
    BY <2>2, <2>3
<1> QED
  BY <1>2, <1>3, <1>4, <1>5, <1>6 DEF Next

\* A streak of underflows is broken by one poll that sees none, and a capture
\* that has stopped is never polled into a stream again.
LEMMA CtlNext == Inv /\ [Next]_vars => CtlInv'
<1>1. SUFFICES ASSUME Inv, [Next]_vars PROVE CtlInv'
  OBVIOUS
<1> USE <1>1 DEF Inv, CtlInv
<1>2. CASE PollUnderflow
  <2>0. lastUnderflow \in Int /\ underflowCount \in Int
    BY DEF RingInv, TypeOK
  <2>1. Saw \in BOOLEAN /\ recent' = Recent(Saw)
    <3>1. Saw \in BOOLEAN
      BY <2>0 DEF Saw
    <3> QED
      BY <1>2, <3>1 DEF PollUnderflow
  <2>2. /\ recent' \in Seq(BOOLEAN) /\ Len(recent') <= MaxStreak
        /\ recent' # <<>> /\ recent'[Len(recent')] = Saw
        /\ Len(recent') = (IF Len(recent) < MaxStreak THEN Len(recent) + 1 ELSE MaxStreak)
        /\ \A k \in 1..(Len(recent') - 1) :
             recent'[k] = recent[k + (Len(recent) + 1 - Len(recent'))]
    <3>1. CASE Len(recent) < MaxStreak
      BY <2>1, <3>1 DEF Recent, StreakIsRecent
    <3>2. CASE Len(recent) >= MaxStreak
      <4>1. recent' = Append(Tail(recent), Saw) /\ Len(recent) = MaxStreak
        BY <2>1, <3>2 DEF Recent, StreakIsRecent
      <4>2. PICK t \in Seq(BOOLEAN) : /\ t = Tail(recent) /\ Len(t) = MaxStreak - 1
                                      /\ \A k \in 1..Len(t) : t[k] = recent[k + 1]
        <5>1. recent \in Seq(BOOLEAN) /\ recent # <<>>
          BY <4>1 DEF StreakIsRecent
        <5>2. Tail(recent) \in Seq(BOOLEAN) /\ Len(Tail(recent)) = Len(recent) - 1
          BY <5>1
        <5>3. \A k \in 1..Len(Tail(recent)) : Tail(recent)[k] = recent[k + 1]
          BY <5>1
        <5> QED
          BY <4>1, <5>2, <5>3
      <4>3. /\ recent' = Append(t, Saw) /\ Len(recent') = MaxStreak
            /\ recent' \in Seq(BOOLEAN) /\ recent'[MaxStreak] = Saw
            /\ \A k \in 1..(MaxStreak - 1) : recent'[k] = t[k]
        BY <2>1, <4>1, <4>2
      <4>4. ASSUME NEW k \in 1..(MaxStreak - 1)
            PROVE  recent'[k] = recent[k + (Len(recent) + 1 - Len(recent'))]
        <5>1. k + (Len(recent) + 1 - Len(recent')) = k + 1
          <6>1. k + (MaxStreak + 1 - MaxStreak) = k + 1
            OBVIOUS
          <6> QED
            BY <4>1, <4>3, <6>1, Zenon
        <5> QED
          BY <4>2, <4>3, <5>1
      <4> QED
        BY <4>1, <4>3, <4>4
    <3> QED
      BY <3>1, <3>2 DEF StreakIsRecent
  <2>3. ok /\ streak \in Nat /\ streak < MaxStreak
    BY <1>2 DEF PollUnderflow, StreakIsRecent, RingInv, TypeOK
  <2>4. streak' <= Len(recent') /\ \A k \in 1..Len(recent') : k > Len(recent') - streak' => recent'[k]
    <3>1. CASE Saw
      <4>1. streak' = streak + 1
        BY <1>2, <3>1 DEF PollUnderflow
      <4>2. streak' <= Len(recent')
        BY <2>2, <2>3, <4>1 DEF StreakIsRecent
      <4>3. ASSUME NEW k \in 1..Len(recent'), k > Len(recent') - streak'
            PROVE  recent'[k]
        <5>1. CASE k = Len(recent')
          BY <2>2, <3>1, <5>1
        <5>2. CASE k # Len(recent')
          <6>1. k \in 1..(Len(recent') - 1)
            BY <2>2, <5>2
          <6>2. /\ k + (Len(recent) + 1 - Len(recent')) \in 1..Len(recent)
                /\ k + (Len(recent) + 1 - Len(recent')) > Len(recent) - streak
            <7>1. /\ Len(recent) \in Nat /\ Len(recent') \in Nat
                  /\ Len(recent') <= Len(recent) + 1
              BY <2>2 DEF StreakIsRecent
            <7>2. k > Len(recent') - (streak + 1) /\ streak <= Len(recent)
              BY <4>1, <4>3 DEF StreakIsRecent
            <7> QED
              BY <2>3, <6>1, <7>1, <7>2
          <6> QED
            BY <2>2, <6>1, <6>2 DEF StreakIsRecent
        <5> QED
          BY <5>1, <5>2
      <4> QED
        BY <4>2, <4>3
    <3>2. CASE ~Saw
      BY <1>2, <2>2, <3>2 DEF PollUnderflow
    <3> QED
      BY <3>1, <3>2
  <2>5. streak' \in Nat
    BY <1>2, <2>3 DEF PollUnderflow
  <2>6. CASE streak' >= MaxStreak
    BY <1>2, <2>2, <2>4, <2>5, <2>6
       DEF PollUnderflow, Capture, StreakIsRecent, StoppedIsSilent, cbVars
  <2>7. CASE ~(streak' >= MaxStreak)
    <3>1. /\ stream' = stream /\ ok' = ok /\ pollPc' = "window" /\ pollPc = "underflow"
          /\ cb' = cb
      BY <1>2, <2>7 DEF PollUnderflow, Capture, cbVars
    <3>2. StreakIsRecent'
      <4>1. streak' < MaxStreak
        BY <2>5, <2>7
      <4> QED
        BY <2>2, <2>3, <2>4, <3>1, <4>1, Zenon DEF StreakIsRecent
    <3> QED
      BY <3>1, <3>2 DEF StoppedIsSilent
  <2> QED
    BY <2>6, <2>7
<1>3. ASSUME NEW n \in 0..MaxBlock, NEW u \in BOOLEAN, CallbackBegin(n, u) PROVE CtlInv'
  BY <1>3 DEF CallbackBegin, pollVars, ctlVars, StreakIsRecent, StoppedIsSilent
<1>4. CASE CallbackAbort \/ WriteSample \/ Publish
  BY <1>4 DEF CallbackAbort, WriteSample, Publish, pollVars, ctlVars, StreakIsRecent, StoppedIsSilent
<1>5. CASE PollResampleFailure
  BY <1>5 DEF PollResampleFailure, Capture, pollVars, cbVars, StreakIsRecent, StoppedIsSilent
<1>6. CASE PollBegin \/ PollStopped \/ PollWindow \/ CopySample \/ PollEnd
  BY <1>6 DEF PollBegin, PollStopped, PollWindow, CopySample, PollEnd, pollVars, cbVars, ctlVars,
              StreakIsRecent, StoppedIsSilent
<1>7. CASE Delete \/ Deleted \/ UNCHANGED vars
  BY <1>7 DEF Delete, Deleted, vars, pollVars, cbVars, ctlVars, StreakIsRecent, StoppedIsSilent
<1> QED
  BY <1>2, <1>3, <1>4, <1>5, <1>6, <1>7 DEF Next, Poll

\* What a slot holds when poll reads it: the sample wanted, or one that is a
\* whole ring younger.
LEMMA SlotRead ==
  ASSUME RingInv, NEW w \in 0..(next - 1)
  PROVE  /\ ring[Slot(w)] \in Int /\ ring[Slot(w)] >= w /\ ring[Slot(w)] < next
         /\ ring[Slot(w)] # w => ring[Slot(w)] >= w + Ring
<1>1. Slot(w) \in Slots /\ next \in Nat /\ w \in Nat
  BY DivideNat DEF Slot, Slots, RingInv, TypeOK
<1>2. PICK v \in Int : v = ring[Slot(w)]
  BY <1>1 DEF RingInv, TypeOK
<1>3. v >= w /\ v < next /\ v % Ring = w % Ring
  BY <1>1, <1>2 DEF RingInv, SlotsHold, Slot
<1>4. ASSUME v # w PROVE v >= w + Ring
  <2>1. SUFFICES ASSUME v < w + Ring PROVE FALSE
    BY <1>1
  <2>2. v \in Nat /\ w < v
    BY <1>1, <1>3, <1>4
  <2> QED
    BY <1>1, <1>3, <2>1, <2>2, OtherSlot
<1> QED
  BY <1>2, <1>3, <1>4

\* Every sample copied was read out of a slot whose own sample had been
\* published; afterwards the callback only moves on.
LEMMA WindowOfNext == Inv /\ [Next]_vars => WindowTaken'
<1>1. SUFFICES ASSUME Inv, [Next]_vars PROVE WindowTaken'
  OBVIOUS
<1> USE <1>1 DEF Inv
<1>2. /\ writeIndex \in Nat /\ next \in Nat /\ last \in Nat /\ start \in Nat
      /\ copied \in Seq(Int) /\ Len(copied) \in Nat
  BY DEF RingInv, TypeOK, WindowTaken
<1>3. CASE CopySample
  <2> DEFINE j == Len(copied) + 1
             w == Wanted(j)
  <2>1. /\ pollPc = "copy" /\ pollPc' = "copy" /\ start' = start /\ writeIndex' = writeIndex
        /\ next' = next /\ j \in 1..(Window + Scope) /\ start + Window <= writeIndex
        /\ copied' = Append(copied, ring[Slot(w)])
    BY <1>2, <1>3 DEF CopySample, cbVars, ringVars, WindowTaken
  <2>2. w \in 0..(next - 1)
    <3>1. writeIndex <= next
      BY <1>2 DEF RingInv, TypeOK, Progress
    <3>2. w \in Int /\ w >= start /\ w < start + Window
      BY <1>2, <2>1 DEF Wanted
    <3> QED
      BY <1>2, <2>1, <3>1, <3>2
  <2>3. /\ ring[Slot(w)] \in Int /\ ring[Slot(w)] >= w /\ ring[Slot(w)] < next
        /\ ring[Slot(w)] # w => ring[Slot(w)] >= w + Ring
    <3> HIDE DEF w
    <3> QED
      BY <2>2, SlotRead
  <2>4. /\ copied' \in Seq(Int) /\ Len(copied') = j /\ copied'[j] = ring[Slot(w)]
        /\ \A d \in 1..Len(copied) : copied'[d] = copied[d]
    <3> HIDE DEF w
    <3> QED
      BY <1>2, <2>1, <2>3
  <2>5. ASSUME NEW d \in 1..j
        PROVE  /\ copied'[d] >= Wanted(d)
               /\ copied'[d] # Wanted(d) => copied'[d] >= Wanted(d) + Ring /\ copied'[d] < next
    <3>1. CASE d = j
      <4> HIDE DEF j
      <4> QED
        BY <2>3, <2>4, <3>1
    <3>2. CASE d # j
      <4>1. d \in 1..Len(copied)
        BY <1>2, <3>2
      <4> QED
        BY <2>1, <2>4, <4>1 DEF WindowTaken
    <3> QED
      BY <3>1, <3>2
  <2>6. \A d \in 1..j : Wanted(d)' = Wanted(d)
    BY <2>1 DEF Wanted
  <2> HIDE DEF j, w
  <2> QED
    BY <2>1, <2>4, <2>5, <2>6 DEF WindowTaken
<1>4. CASE PollWindow
  <2>1. copied' = <<>> /\ copied = <<>> /\ Len(copied') = 0
    BY <1>4 DEF PollWindow, WindowTaken
  <2>2. pollPc' = "copy" => start' + Window = writeIndex' /\ pollPc' \notin {"underflow", "window"}
    BY <1>2, <1>4 DEF PollWindow, cbVars, ringVars
  <2>3. writeIndex' \in Nat
    BY <1>2, <1>4 DEF PollWindow, cbVars, ringVars
  <2> QED
    BY <2>1, <2>2, <2>3 DEF WindowTaken
<1>5. ASSUME NEW n \in 0..MaxBlock, NEW u \in BOOLEAN, CallbackBegin(n, u) PROVE WindowTaken'
  <2>1. UNCHANGED <<pollVars, writeIndex, next>>
    BY <1>5 DEF CallbackBegin, RingInv, Progress
  <2> QED
    BY <2>1 DEF WindowTaken, Wanted, pollVars
<1>6. CASE WriteSample \/ Publish
  <2>1. UNCHANGED pollVars /\ next' \in Nat /\ next' >= next /\ writeIndex' \in Nat /\ writeIndex' >= writeIndex
    BY <1>2, <1>6 DEF WriteSample, Publish, RingInv, Progress
  <2> QED
    <3>1. CASE pollPc # "copy"
      BY <2>1, <3>1 DEF WindowTaken, pollVars
    <3>2. CASE pollPc = "copy"
      <4>1. start' + Window <= writeIndex'
        BY <1>2, <2>1, <3>2 DEF WindowTaken, pollVars
      <4>2. ASSUME NEW d \in 1..Len(copied)
            PROVE  /\ copied[d] >= Wanted(d)
                   /\ copied[d] # Wanted(d) => copied[d] >= Wanted(d) + Ring /\ copied[d] < next'
        <5>1. copied[d] \in Int
          BY <1>2
        <5> QED
          BY <1>2, <2>1, <3>2, <5>1 DEF WindowTaken
      <4> QED
        BY <2>1, <3>2, <4>1, <4>2 DEF WindowTaken, pollVars, Wanted
    <3> QED
      BY <3>1, <3>2
<1>7. CASE CallbackAbort \/ Deleted \/ UNCHANGED vars
  BY <1>7 DEF CallbackAbort, Deleted, vars, cbVars, pollVars, ringVars, WindowTaken, Wanted
<1>8. CASE PollBegin \/ PollUnderflow
  <2>1. copied' = <<>> /\ pollPc' # "copy"
    BY <1>8 DEF PollBegin, PollUnderflow, WindowTaken
  <2> QED
    BY <2>1 DEF WindowTaken
<1>9. CASE PollResampleFailure \/ PollStopped \/ PollEnd \/ Delete
  <2>1. copied' = copied /\ pollPc' \in {"out", "deleted"}
    BY <1>9 DEF PollResampleFailure, PollStopped, PollEnd, Delete, pollVars
  <2> QED
    BY <2>1 DEF WindowTaken
<1> QED
  BY <1>3, <1>4, <1>5, <1>6, <1>7, <1>8, <1>9 DEF Next, Poll

\* The three parts hold together.
LEMMA InvNext == Inv /\ [Next]_vars => Inv'
BY RingNext, CtlNext, WindowOfNext DEF Inv

\* Inv holds in every state.
LEMMA Invariance == Spec => []Inv
BY RingInit, InvNext, PTL DEF Spec

-------------------------------------------------------------------------------
\* Every variable of the capture keeps its type: no index leaves its range,
\* the streak ends at its limit.
THEOREM RingTypeCorrect == Spec => []TypeOK
<1>1. Inv => TypeOK
  BY DEF Inv, RingInv
<1> QED
  BY <1>1, Invariance, PTL

\* A published sample stays in its slot until the callback has gone round the
\* ring, also in the middle of a callback.
THEOREM PublishedStaysInPlace == Spec => []PublishedInPlace
<1>1. Inv => PublishedInPlace
  <2>1. SUFFICES ASSUME Inv, NEW k \in 0..(writeIndex - 1), next <= k + Ring
                 PROVE  ring[Slot(k)] = k
    BY DEF PublishedInPlace
  <2>2. RingInv /\ k \in 0..(next - 1) /\ next \in Nat
    BY <2>1 DEF Inv, RingInv, TypeOK, Progress
  <2> QED
    BY <2>1, <2>2, SlotRead
<1> QED
  BY <1>1, Invariance, PTL

\* A window is exact unless the callback has gone round the ring since poll
\* loaded writeIndex, whatever the ring, the window and the blocks.
THEOREM WindowTornOnlyWhenLapped == Spec => []TornOnlyWhenLapped
<1>1. Inv => TornOnlyWhenLapped
  BY DEF Inv, WindowTaken, TornOnlyWhenLapped
<1> QED
  BY <1>1, Invariance, PTL

\* A capture that was stopped or deleted has no stream and no callback.
THEOREM SilentAfterStop == Spec => []StoppedIsSilent
<1>1. Inv => StoppedIsSilent
  BY DEF Inv, CtlInv
<1> QED
  BY <1>1, Invariance, PTL

\* Only MaxStreak polls in a row that saw a new underflow, or the resampler's
\* failure, stop a capture.
THEOREM StopsOnlyForStreak == Spec => StoppedOnlyForStreak
<1> DEFINE Justified == ok /\ ~ok' =>
                          \/ resampleFailed
                          \/ Len(recent') = MaxStreak /\ \A d \in DOMAIN recent' : recent'[d]
<1>1. Inv /\ Inv' /\ [Next]_vars => [Justified]_vars
  <2>1. SUFFICES ASSUME Inv, Inv', [Next]_vars, ok, ~ok', ~resampleFailed
                 PROVE  Len(recent') = MaxStreak /\ \A d \in DOMAIN recent' : recent'[d]
    OBVIOUS
  <2>2. PollUnderflow /\ streak' >= MaxStreak
    BY <2>1 DEF Next, Poll, CallbackBegin, CallbackAbort, WriteSample, Publish, PollBegin,
                PollResampleFailure, PollStopped, PollUnderflow, PollWindow, CopySample, PollEnd,
                Delete, Deleted, vars, ctlVars, Capture
  <2>3. /\ recent' \in Seq(BOOLEAN) /\ Len(recent') <= MaxStreak /\ streak' <= Len(recent')
        /\ \A k \in 1..Len(recent') : k > Len(recent') - streak' => recent'[k]
        /\ streak' \in Nat
    BY <2>1 DEF Inv, CtlInv, StreakIsRecent, RingInv, TypeOK
  <2> QED
    BY <2>2, <2>3
<1> QED
  BY <1>1, Invariance, PTL DEF Spec, StoppedOnlyForStreak

-------------------------------------------------------------------------------
(* LiveAnalyzer and InputStream: the ring of the analyzer and the streams of the engine. *)

-------------------------------------------------------------------------------
(* The analyzer: the window poll analyses is the tail of the stream, for    *)
(* every size of the ring and of the window and every length of a push.     *)

\* The frames the ring has taken, those of the push in progress included.
Taken == total + (IF mutex = "push" THEN frame ELSE 0)

\* The opened RingSize frames taken are each in their slot.
RingIsTail ==
  \A p \in 0..(Taken - 1) : p >= Taken - RingSize => ringLeft[p % RingSize] = p

\* The wrapped index and the saturated count stand for the position.
IndexIsPosition ==
  /\ writeIndex_ = total % RingSize
  /\ framesFilled = Smaller(total, RingSize)

\* What poll has set up and copied; while it copies, nobody pushes.
PollIsUnderway ==
  /\ polling = "copy" <=> mutex = "poll"
  /\ polling # "out" =>
       /\ toCopy = Smaller(seen, FftSize)
       /\ startIndex = (seen - toCopy) % RingSize
       /\ \A j \in 0..(FftSize - 1) :
            leftWindow[j] = IF FftSize - toCopy <= j /\ j < FftSize - toCopy + i
                              THEN seen - FftSize + j ELSE Silence
  /\ polling = "copy" => seen = total
  /\ polling = "analyse" => i = toCopy

WindowInv == AnalyzerTypeOK /\ RingIsTail /\ IndexIsPosition /\ PollIsUnderway

USE AnalyzerAssumption

\* The ring starts silent.
LEMMA WindowInit == AnalyzerInit => WindowInv
<1>1. SUFFICES ASSUME AnalyzerInit PROVE WindowInv
  OBVIOUS
<1>2. AnalyzerTypeOK
  BY <1>1 DEF AnalyzerInit, AnalyzerTypeOK, Silence
<1>3. RingIsTail
  BY <1>1 DEF AnalyzerInit, RingIsTail, Taken
<1>4. IndexIsPosition
  <2>1. 0 % RingSize = 0
    OBVIOUS
  <2> QED
    BY <1>1, <2>1 DEF AnalyzerInit, IndexIsPosition, Smaller
<1>5. PollIsUnderway
  BY <1>1 DEF AnalyzerInit, PollIsUnderway
<1> QED
  BY <1>2, <1>3, <1>4, <1>5 DEF WindowInv

\* The frame takes the slot of the one that leaves the tail.
LEMMA PushFrameKeeps == WindowInv /\ PushFrame => WindowInv'
<1>1. SUFFICES ASSUME WindowInv, PushFrame PROVE WindowInv'
  OBVIOUS
<1> USE <1>1 DEF WindowInv
<1>2. AnalyzerTypeOK'
  BY DEF AnalyzerTypeOK, PushFrame, analyzerPollVars, Silence
<1>3. /\ Taken \in Nat /\ Taken = total + frame /\ Taken' = Taken + 1
      /\ total \in Nat /\ frame \in Nat
  BY DEF AnalyzerTypeOK, Taken, PushFrame
<1>4. (writeIndex_ + frame) % RingSize = Taken % RingSize
  BY <1>3, WrappedPlus DEF IndexIsPosition
<1>5. ringLeft' = [ringLeft EXCEPT ![Taken % RingSize] = Taken]
  BY <1>3, <1>4 DEF PushFrame
<1>6. RingIsTail'
  <2>1. SUFFICES ASSUME NEW p \in 0..Taken, p >= Taken + 1 - RingSize
                 PROVE  ringLeft'[p % RingSize] = p
    BY <1>3 DEF RingIsTail
  <2>2. p % RingSize \in 0..(RingSize - 1)
    BY <1>3, DivideNat
  <2>3. CASE p = Taken
    BY <1>5, <2>2, <2>3 DEF AnalyzerTypeOK
  <2>4. CASE p # Taken
    <3>1. p % RingSize # Taken % RingSize
      <4>1. p \in Nat /\ p < Taken /\ Taken < p + RingSize
        BY <1>3, <2>1, <2>4
      <4> QED
        BY <1>3, <4>1, OtherSlot, Zenon
    <3>2. ringLeft[p % RingSize] = p
      BY <1>3, <2>1, <2>4 DEF RingIsTail
    <3> QED
      BY <1>5, <2>2, <3>1, <3>2 DEF AnalyzerTypeOK
  <2> QED
    BY <2>3, <2>4
<1>7. IndexIsPosition'
  BY DEF IndexIsPosition, PushFrame
<1>8. PollIsUnderway'
  BY DEF PollIsUnderway, PushFrame, analyzerPollVars
<1> QED
  BY <1>2, <1>6, <1>7, <1>8

\* The position moves to the end of the frames taken.
LEMMA PushEndKeeps == WindowInv /\ PushEnd => WindowInv'
<1>1. SUFFICES ASSUME WindowInv, PushEnd PROVE WindowInv'
  OBVIOUS
<1> USE <1>1 DEF WindowInv
<1>2. /\ total \in Nat /\ frames \in Nat /\ frame = frames
      /\ total' = total + frames /\ Taken' = Taken /\ ringLeft' = ringLeft
  BY DEF AnalyzerTypeOK, Taken, PushEnd
<1>3. IndexIsPosition'
  <2>1. ((total % RingSize) + frames) % RingSize = (total + frames) % RingSize
    BY <1>2, WrappedPlus, Zenon
  <2>2. writeIndex_' = ((total % RingSize) + frames) % RingSize
    BY DEF IndexIsPosition, PushEnd
  <2>3. framesFilled' = Smaller(total', RingSize)
    BY <1>2 DEF IndexIsPosition, PushEnd, Smaller
  <2> QED
    BY <1>2, <2>1, <2>2, <2>3 DEF IndexIsPosition
<1>4. AnalyzerTypeOK'
  <2>1. writeIndex_' \in 0..(RingSize - 1)
    BY <1>2, <1>3, DivideNat DEF IndexIsPosition
  <2> QED
    BY <2>1 DEF AnalyzerTypeOK, PushEnd, analyzerPollVars, Smaller
<1>5. RingIsTail'
  BY <1>2 DEF RingIsTail
<1>6. PollIsUnderway'
  BY DEF PollIsUnderway, PushEnd, analyzerPollVars
<1> QED
  BY <1>3, <1>4, <1>5, <1>6

\* The window begins toCopy frames before the position.
LEMMA PollBeginKeeps == WindowInv /\ PollLock => WindowInv'
<1>1. SUFFICES ASSUME WindowInv, PollLock PROVE WindowInv'
  OBVIOUS
<1> USE <1>1 DEF WindowInv
<1>2. /\ total \in Nat /\ total' = total /\ seen' = total /\ i' = 0
      /\ Taken' = Taken /\ ringLeft' = ringLeft
  BY DEF AnalyzerTypeOK, Taken, PollLock, pushVars
<1>3. toCopy' = Smaller(total, FftSize) /\ toCopy' \in 0..FftSize /\ toCopy' <= total
  BY <1>2 DEF IndexIsPosition, PollLock, Smaller
<1>4. startIndex' = (total - toCopy') % RingSize /\ startIndex' \in 0..(RingSize - 1)
  <2>1. toCopy' \in 0..RingSize
    BY <1>3
  <2>2. startIndex' = ((total % RingSize) + RingSize - toCopy') % RingSize
    BY DEF IndexIsPosition, PollLock
  <2>3. startIndex' = (total - toCopy') % RingSize
    BY <1>2, <1>3, <2>1, <2>2, WrappedMinus
  <2>4. total - toCopy' \in Nat
    BY <1>2, <1>3
  <2> QED
    BY <2>3, <2>4, DivideNat
<1>5. AnalyzerTypeOK'
  BY <1>2, <1>3, <1>4 DEF AnalyzerTypeOK, PollLock, pushVars, Silence
<1>6. RingIsTail'
  BY <1>2 DEF RingIsTail
<1>7. IndexIsPosition'
  BY DEF IndexIsPosition, PollLock, pushVars
<1>8. PollIsUnderway'
  BY <1>2, <1>3, <1>4 DEF PollIsUnderway, PollLock, Silence
<1> QED
  BY <1>5, <1>6, <1>7, <1>8

\* The frame at the cursor is in the ring's tail, as poll holds the mutex.
LEMMA PollFrameKeeps == WindowInv /\ PollFrame => WindowInv'
<1>1. SUFFICES ASSUME WindowInv, PollFrame PROVE WindowInv'
  OBVIOUS
<1> USE <1>1 DEF WindowInv
<1>2. /\ total \in Nat /\ toCopy \in 0..FftSize /\ i \in 0..toCopy /\ i < toCopy
      /\ seen = total /\ mutex = "poll" /\ Taken = total /\ toCopy <= total
      /\ startIndex = (total - toCopy) % RingSize
  BY DEF AnalyzerTypeOK, PollIsUnderway, Taken, PollFrame, Smaller
<1>3. ringLeft[(startIndex + i) % RingSize] = total - toCopy + i
  <2>1. (startIndex + i) % RingSize = (total - toCopy + i) % RingSize
    <3>1. total - toCopy \in Nat /\ i \in Nat
      BY <1>2
    <3>2. (((total - toCopy) % RingSize) + i) % RingSize = (total - toCopy + i) % RingSize
      BY <3>1, WrappedPlus, Zenon
    <3> QED
      BY <1>2, <3>2
  <2>2. /\ total - toCopy + i \in 0..(Taken - 1)
        /\ total - toCopy + i >= Taken - RingSize
    BY <1>2
  <2> QED
    BY <2>1, <2>2 DEF RingIsTail
<1>4. leftWindow' = [leftWindow EXCEPT ![FftSize - toCopy + i] = total - toCopy + i]
  BY <1>3 DEF PollFrame
<1>5. AnalyzerTypeOK'
  BY <1>2, <1>4 DEF AnalyzerTypeOK, PollFrame, pushVars
<1>6. RingIsTail' /\ IndexIsPosition'
  BY DEF RingIsTail, IndexIsPosition, Taken, PollFrame, pushVars
<1>7. PollIsUnderway'
  <2>1. ASSUME NEW j \in 0..(FftSize - 1)
        PROVE  leftWindow'[j] = IF FftSize - toCopy <= j /\ j < FftSize - toCopy + (i + 1)
                                  THEN seen - FftSize + j ELSE Silence
    <3>1. CASE j = FftSize - toCopy + i
      <4>1. leftWindow'[j] = total - toCopy + i
        BY <1>2, <1>4, <3>1 DEF AnalyzerTypeOK
      <4>2. /\ total - toCopy + i = seen - FftSize + j
            /\ FftSize - toCopy <= j /\ j < FftSize - toCopy + (i + 1)
        BY <1>2, <3>1
      <4> QED
        BY <4>1, <4>2, Zenon
    <3>2. CASE j # FftSize - toCopy + i
      <4>1. leftWindow'[j] = leftWindow[j]
        BY <1>4, <3>2 DEF AnalyzerTypeOK
      <4>2. leftWindow[j] = IF FftSize - toCopy <= j /\ j < FftSize - toCopy + i
                              THEN seen - FftSize + j ELSE Silence
        BY DEF PollIsUnderway, PollFrame
      <4> QED
        BY <1>2, <3>2, <4>1, <4>2
    <3> QED
      BY <3>1, <3>2
  <2>2. /\ polling = "copy" /\ polling' = polling /\ mutex' = mutex /\ i' = i + 1
        /\ toCopy' = toCopy /\ startIndex' = startIndex /\ seen' = seen /\ total' = total
    BY DEF PollFrame, pushVars
  <2> QED
    BY <2>1, <2>2 DEF PollIsUnderway
<1> QED
  BY <1>5, <1>6, <1>7

\* No step breaks the invariant.
LEMMA WindowNext == WindowInv /\ [AnalyzerNext]_analyzerVars => WindowInv'
<1>1. SUFFICES ASSUME WindowInv, [AnalyzerNext]_analyzerVars PROVE WindowInv'
  OBVIOUS
<1> USE <1>1 DEF WindowInv
<1>2. ASSUME NEW n \in 1..MaxFrames, PushBegin(n) PROVE WindowInv'
  BY <1>2 DEF PushBegin, analyzerPollVars, AnalyzerTypeOK, RingIsTail, Taken, IndexIsPosition, PollIsUnderway
<1>3. CASE PushFrame
  BY <1>3, PushFrameKeeps
<1>4. CASE PushEnd
  BY <1>4, PushEndKeeps
<1>5. CASE PollLock
  BY <1>5, PollBeginKeeps
<1>6. CASE PollFrame
  BY <1>6, PollFrameKeeps
<1>7. CASE PollUnlock
  BY <1>7 DEF PollUnlock, pushVars, AnalyzerTypeOK, RingIsTail, Taken, IndexIsPosition, PollIsUnderway
<1>8. CASE PollReturn
  BY <1>8 DEF PollReturn, pushVars, AnalyzerTypeOK, RingIsTail, Taken, IndexIsPosition, PollIsUnderway
<1>9. CASE UNCHANGED analyzerVars
  BY <1>9 DEF analyzerVars, pushVars, analyzerPollVars, AnalyzerTypeOK, RingIsTail, Taken, IndexIsPosition, PollIsUnderway
<1> QED
  BY <1>2, <1>3, <1>4, <1>5, <1>6, <1>7, <1>8, <1>9 DEF AnalyzerNext, AnalyzerPoll

-------------------------------------------------------------------------------
\* The indices of pushSamples and of poll stay inside the ring and the window,
\* for every size of the ring and every length of a push.
THEOREM AnalyzerTypeCorrect == AnalyzerSpec => []AnalyzerTypeOK
<1>1. WindowInv => AnalyzerTypeOK
  BY DEF WindowInv
<1> QED
  BY <1>1, WindowInit, WindowNext, PTL DEF AnalyzerSpec

\* The window poll analyses is the tail of the stream as of when it took the
\* mutex, whatever the sizes and however the pushes are cut.
THEOREM WindowIsTheTail == AnalyzerSpec => []WindowIsTail
<1>1. WindowInv => WindowIsTail
  <2>1. SUFFICES ASSUME WindowInv, polling = "analyse", NEW j \in DOMAIN leftWindow
                 PROVE  leftWindow[j] = IF seen - FftSize + j >= 0
                                          THEN seen - FftSize + j ELSE Silence
    BY DEF WindowIsTail
  <2>2. j \in 0..(FftSize - 1) /\ seen \in Nat
    BY <2>1 DEF WindowInv, AnalyzerTypeOK
  <2>3. /\ i = toCopy /\ toCopy = Smaller(seen, FftSize)
        /\ leftWindow[j] = IF FftSize - toCopy <= j /\ j < FftSize - toCopy + i
                              THEN seen - FftSize + j ELSE Silence
    BY <2>1, <2>2 DEF WindowInv, PollIsUnderway
  <2> QED
    BY <2>2, <2>3 DEF Smaller
<1> QED
  BY <1>1, WindowInit, WindowNext, PTL DEF AnalyzerSpec

-------------------------------------------------------------------------------
(* The stream: a callback always finds the Impl it was given, for any       *)
(* number of handles and of streams.                                        *)

StreamStates == [device : {"open", "running", "closed"}, impl : {"alive", "freed"}]

StreamsTyped ==
  /\ streams \in Seq(StreamStates)
  /\ handle \in [Handles -> {Empty} \cup (1..Len(streams))]
  /\ caller \in {Empty} \cup (1..Len(streams))
  /\ dropped \subseteq 1..Len(streams)

\* The owning thread opens a stream no handle has, or destroys a handle that has one.
OwnerKnown ==
  \/ owner = Idle
  \/ \E s \in (1..Len(streams)) \ dropped :
       owner = Opening(s) /\ streams[s].device # "closed" /\ \A h \in Handles : handle[h] # s
  \/ \E h \in Handles : owner = Destroyed(h) /\ handle[h] # Empty

\* No two handles have the same stream, and the streams they have run.
HandlesApart ==
  \A g, h \in Handles : g # h /\ handle[g] # Empty => handle[g] # handle[h]
HandlesRun ==
  \A h \in Handles : handle[h] # Empty =>
    handle[h] \notin dropped /\ streams[handle[h]].device = "running"

\* A stream PortAudio still has is alive and somebody has it, unless it was dropped.
Accounted ==
  \A s \in (1..Len(streams)) \ dropped :
    streams[s].device # "closed" =>
      /\ streams[s].impl = "alive"
      /\ owner = Opening(s) \/ \E h \in Handles : handle[h] = s

CallerRuns == caller # Empty => streams[caller].device = "running"

StreamsInv ==
  StreamsTyped /\ OwnerKnown /\ HandlesApart /\ HandlesRun /\ Accounted /\ CallerRuns

-------------------------------------------------------------------------------
(* Changes of one stream. *)

\* Only the stream that is changed changes.
LEMMA OneStream ==
  ASSUME streams \in Seq(StreamStates), NEW s \in 1..Len(streams), NEW r \in StreamStates,
         NEW new, new = [streams EXCEPT ![s] = r]
  PROVE  /\ new \in Seq(StreamStates) /\ Len(new) = Len(streams)
         /\ new[s] = r
         /\ \A q \in 1..Len(streams) : q # s => new[q] = streams[q]
BY ExceptSeq

\* A stream that is let go of keeps running; its Impl is freed.
LEMMA ReleasedStream ==
  ASSUME StreamsTyped, NEW s \in {Empty} \cup (1..Len(streams))
  PROVE  /\ Released(s, streams) \in Seq(StreamStates)
         /\ Len(Released(s, streams)) = Len(streams)
         /\ \A q \in 1..Len(streams) :
              /\ Released(s, streams)[q].device = streams[q].device
              /\ q # s => Released(s, streams)[q] = streams[q]
<1>1. CASE s = Empty
  BY <1>1 DEF Released, StreamsTyped
<1>2. CASE s # Empty
  <2> DEFINE freed == [streams[s] EXCEPT !.impl = "freed"]
  <2>1. streams[s] \in StreamStates
    BY <1>2, ElementOfSeq DEF StreamsTyped
  <2>2. freed \in StreamStates /\ freed.device = streams[s].device
    BY <2>1 DEF StreamStates
  <2>3. Released(s, streams) = [streams EXCEPT ![s] = freed]
    BY <1>2 DEF Released
  <2> HIDE DEF freed
  <2> QED
    BY <1>2, <2>2, <2>3, OneStream DEF StreamsTyped
<1> QED
  BY <1>1, <1>2

\* What the owner is in the middle of can be told from its call.
LEMMA Calls ==
  ASSUME StreamsInv
  PROVE  /\ owner.call \in {"none", "openInputStream", "~InputStream"}
         /\ owner.call = "none" => owner = Idle
         /\ owner.call = "openInputStream" =>
              /\ owner = Opening(owner.stream)
              /\ owner.stream \in (1..Len(streams)) \ dropped
              /\ streams[owner.stream].device # "closed"
              /\ \A h \in Handles : handle[h] # owner.stream
         /\ owner.call = "~InputStream" =>
              owner = Destroyed(owner.of) /\ owner.of \in Handles /\ handle[owner.of] # Empty
BY DEF StreamsInv, OwnerKnown, Idle, Opening, Destroyed

-------------------------------------------------------------------------------
(* The steps of the owning thread. *)

LEMMA StreamsStart == InputStreamInit => StreamsInv
BY DEF InputStreamInit, StreamsInv, StreamsTyped, OwnerKnown, HandlesApart, HandlesRun,
       Accounted, CallerRuns, Empty

LEMMA OpenKeeps == StreamsInv /\ OpenStream => StreamsInv'
<1>1. SUFFICES ASSUME StreamsInv, OpenStream PROVE StreamsInv'
  OBVIOUS
<1> DEFINE opened == Len(streams) + 1
<1>2. PICK r \in StreamStates :
        /\ streams' = Append(streams, r)
        /\ \/ r = [device |-> "open", impl |-> "alive"] /\ owner' = Opening(Len(streams'))
           \/ r = [device |-> "closed", impl |-> "freed"] /\ owner' = owner
  BY <1>1 DEF OpenStream, StreamStates
<1>3. /\ streams \in Seq(StreamStates) /\ Len(streams) \in Nat
      /\ streams' \in Seq(StreamStates) /\ Len(streams') = opened /\ streams'[opened] = r
      /\ \A q \in 1..Len(streams) : streams'[q] = streams[q]
  BY <1>1, <1>2 DEF StreamsInv, StreamsTyped
<1>4. handle' = handle /\ caller' = caller /\ dropped' = dropped /\ owner = Idle
  BY <1>1 DEF OpenStream
<1>5. StreamsTyped'
  BY <1>1, <1>3, <1>4 DEF StreamsInv, StreamsTyped
<1>6. \A h \in Handles : handle[h] # opened
  BY <1>1, <1>3 DEF StreamsInv, StreamsTyped, Empty
<1>7. opened \notin dropped
  BY <1>1, <1>3 DEF StreamsInv, StreamsTyped
<1>8. OwnerKnown'
  BY <1>1, <1>2, <1>3, <1>4, <1>6, <1>7 DEF OwnerKnown
<1>9. HandlesApart' /\ HandlesRun' /\ CallerRuns'
  BY <1>1, <1>3, <1>4, <1>6 DEF StreamsInv, StreamsTyped, HandlesApart, HandlesRun, CallerRuns
<1>10. Accounted'
  <2>1. SUFFICES ASSUME NEW s \in (1..opened) \ dropped, streams'[s].device # "closed"
                 PROVE  /\ streams'[s].impl = "alive"
                        /\ owner' = Opening(s) \/ \E h \in Handles : handle[h] = s
    BY <1>3, <1>4 DEF Accounted
  <2>2. CASE s = opened
    BY <1>2, <1>3, <2>1, <2>2
  <2>3. CASE s # opened
    <3>1. s \in 1..Len(streams) /\ streams'[s] = streams[s]
      BY <1>3, <2>3
    <3>2. owner # Opening(s)
      BY <1>4 DEF Idle, Opening
    <3> QED
      BY <1>1, <2>1, <3>1, <3>2 DEF StreamsInv, Accounted
  <2> QED
    BY <2>2, <2>3
<1> QED
  BY <1>5, <1>8, <1>9, <1>10 DEF StreamsInv

\* Nobody but the owner has the stream yet, and no callback has come.
LEMMA StartKeeps == StreamsInv /\ StartStream => StreamsInv'
<1>1. SUFFICES ASSUME StreamsInv, StartStream PROVE StreamsInv'
  OBVIOUS
<1> DEFINE s == owner.stream
<1>2. /\ owner = Opening(s) /\ s \in (1..Len(streams)) \ dropped
      /\ \A h \in Handles : handle[h] # s
      /\ streams[s].device = "open" /\ streams[s].impl = "alive"
  <2>1. owner.call = "openInputStream" /\ streams[s].device = "open"
    BY <1>1 DEF StartStream
  <2> QED
    BY <1>1, <2>1, Calls DEF StreamsInv, Accounted
<1>3. PICK r \in StreamStates :
        /\ streams' = [streams EXCEPT ![s] = r]
        /\ \/ r = [device |-> "running", impl |-> "alive"] /\ owner' = owner
           \/ r = [device |-> "closed", impl |-> "freed"] /\ owner' = Idle
  <2>1. streams[s] \in StreamStates
    BY <1>1, <1>2, ElementOfSeq DEF StreamsInv, StreamsTyped
  <2>2. [streams[s] EXCEPT !.device = "running"] = [device |-> "running", impl |-> "alive"]
    BY <1>2, <2>1 DEF StreamStates
  <2> QED
    BY <1>1, <2>2 DEF StartStream, StreamStates
<1>4. /\ streams' \in Seq(StreamStates) /\ Len(streams') = Len(streams) /\ streams'[s] = r
      /\ \A q \in 1..Len(streams) : q # s => streams'[q] = streams[q]
  BY <1>1, <1>2, <1>3, OneStream DEF StreamsInv, StreamsTyped
<1>5. handle' = handle /\ caller' = caller /\ dropped' = dropped
  BY <1>1 DEF StartStream
<1> HIDE DEF s
<1>6. StreamsTyped'
  BY <1>1, <1>4, <1>5 DEF StreamsInv, StreamsTyped
<1>7. OwnerKnown'
  BY <1>2, <1>3, <1>4, <1>5 DEF OwnerKnown
<1>8. HandlesApart' /\ HandlesRun'
  BY <1>1, <1>2, <1>4, <1>5 DEF StreamsInv, StreamsTyped, HandlesApart, HandlesRun
<1>9. CallerRuns'
  BY <1>1, <1>2, <1>4, <1>5 DEF StreamsInv, StreamsTyped, CallerRuns
<1>10. Accounted'
  <2>1. SUFFICES ASSUME NEW q \in (1..Len(streams)) \ dropped, streams'[q].device # "closed"
                 PROVE  /\ streams'[q].impl = "alive"
                        /\ owner' = Opening(q) \/ \E h \in Handles : handle[h] = q
    BY <1>4, <1>5 DEF Accounted
  <2>2. CASE q = s
    BY <1>2, <1>3, <1>4, <2>1, <2>2
  <2>3. CASE q # s
    <3>1. owner # Opening(q)
      BY <1>2, <2>3 DEF Opening
    <3> QED
      BY <1>1, <1>4, <2>1, <2>3, <3>1 DEF StreamsInv, Accounted
  <2> QED
    BY <2>2, <2>3
<1> QED
  BY <1>6, <1>7, <1>8, <1>9, <1>10 DEF StreamsInv

\* A stream changes hands; the one that was there before is dropped.
LEMMA HandOverKeeps ==
  ASSUME StreamsInv, NEW to \in Handles, NEW s \in (1..Len(streams)) \ dropped,
         streams[s].device = "running", handle[to] # s,
         streams' = Released(handle[to], streams),
         handle' \in [Handles -> {Empty} \cup (1..Len(streams))],
         handle'[to] = s,
         \A h \in Handles \ {to} : handle'[h] = IF handle[h] = s THEN Empty ELSE handle[h],
         dropped' = dropped \cup ({handle[to]} \ {Empty}),
         owner' = Idle, owner = Idle \/ owner = Opening(s),
         UNCHANGED caller
  PROVE  StreamsInv'
<1>1. /\ streams' \in Seq(StreamStates) /\ Len(streams') = Len(streams)
      /\ \A q \in 1..Len(streams) : /\ streams'[q].device = streams[q].device
                                    /\ q # handle[to] => streams'[q] = streams[q]
  BY ReleasedStream DEF StreamsInv, StreamsTyped
<1>2. handle[to] \in {Empty} \cup (1..Len(streams)) /\ s # Empty
  BY DEF StreamsInv, StreamsTyped, Empty
<1>3. StreamsTyped'
  BY <1>1, <1>2 DEF StreamsInv, StreamsTyped
<1>4. OwnerKnown'
  BY DEF OwnerKnown
<1>5. HandlesApart'
  BY <1>2 DEF StreamsInv, HandlesApart
<1>6. HandlesRun'
  <2>1. SUFFICES ASSUME NEW h \in Handles, handle'[h] # Empty
                 PROVE  handle'[h] \notin dropped' /\ streams'[handle'[h]].device = "running"
    BY DEF HandlesRun
  <2>2. CASE h = to
    BY <1>1, <2>2
  <2>3. CASE h # to
    <3>1. handle'[h] = handle[h] /\ handle[h] # Empty /\ handle[h] \in 1..Len(streams)
      BY <2>1, <2>3 DEF StreamsInv, StreamsTyped
    <3>2. handle[h] # handle[to]
      BY <2>3, <3>1 DEF StreamsInv, HandlesApart
    <3> QED
      BY <1>1, <3>1, <3>2 DEF StreamsInv, HandlesRun
  <2> QED
    BY <2>2, <2>3
<1>7. Accounted'
  <2>1. SUFFICES ASSUME NEW q \in (1..Len(streams)) \ dropped', streams'[q].device # "closed"
                 PROVE  streams'[q].impl = "alive" /\ \E h \in Handles : handle'[h] = q
    BY <1>1 DEF Accounted
  <2>2. q \notin dropped /\ q # handle[to] /\ streams'[q] = streams[q] /\ q # Empty
    BY <1>1, <2>1 DEF Empty
  <2>3. /\ streams[q].impl = "alive"
        /\ owner = Opening(q) \/ \E h \in Handles : handle[h] = q
    BY <2>1, <2>2 DEF StreamsInv, Accounted
  <2>4. CASE q = s
    BY <2>2, <2>3, <2>4
  <2>5. CASE q # s
    <3>1. owner # Opening(q)
      BY <2>5 DEF Idle, Opening
    <3>2. PICK h \in Handles : handle[h] = q
      BY <2>3, <3>1
    <3>3. h # to /\ handle'[h] = q
      BY <2>2, <2>5, <3>2
    <3> QED
      BY <2>2, <2>3, <3>3
  <2> QED
    BY <2>4, <2>5
<1>8. CallerRuns'
  BY <1>1 DEF StreamsInv, StreamsTyped, CallerRuns
<1> QED
  BY <1>3, <1>4, <1>5, <1>6, <1>7, <1>8 DEF StreamsInv

LEMMA AssignKeeps ==
  ASSUME StreamsInv, NEW h \in Handles, Assign(h)
  PROVE  StreamsInv'
<1> DEFINE s == owner.stream
<1>1. /\ owner = Opening(s) /\ s \in (1..Len(streams)) \ dropped
      /\ \A g \in Handles : handle[g] # s
      /\ streams[s].device = "running"
  BY Calls DEF Assign
<1>2. handle \in [Handles -> {Empty} \cup (1..Len(streams))]
  BY DEF StreamsInv, StreamsTyped
<1>3. /\ handle' = [handle EXCEPT ![h] = s] /\ streams' = Released(handle[h], streams)
      /\ dropped' = dropped \cup ({handle[h]} \ {Empty}) /\ owner' = Idle /\ caller' = caller
  BY DEF Assign
<1> HIDE DEF s
<1>4. /\ handle' \in [Handles -> {Empty} \cup (1..Len(streams))] /\ handle'[h] = s
      /\ \A g \in Handles \ {h} : handle'[g] = IF handle[g] = s THEN Empty ELSE handle[g]
  BY <1>1, <1>2, <1>3
<1> QED
  BY <1>1, <1>3, <1>4, HandOverKeeps

LEMMA MoveKeeps ==
  ASSUME StreamsInv, NEW from \in Handles, NEW to \in Handles, Move(from, to)
  PROVE  StreamsInv'
<1> DEFINE s == handle[from]
<1>1. handle \in [Handles -> {Empty} \cup (1..Len(streams))]
  BY DEF StreamsInv, StreamsTyped
<1>2. /\ owner = Idle /\ from # to /\ s # Empty
      /\ s \in (1..Len(streams)) \ dropped /\ streams[s].device = "running"
      /\ \A g \in Handles \ {from} : handle[g] # s
  BY <1>1 DEF Move, StreamsInv, HandlesApart, HandlesRun
<1>3. /\ handle' = [handle EXCEPT ![to] = s, ![from] = Empty]
      /\ streams' = Released(handle[to], streams)
      /\ dropped' = dropped \cup ({handle[to]} \ {Empty}) /\ owner' = Idle /\ caller' = caller
  BY DEF Move
<1>4. /\ handle' \in [Handles -> {Empty} \cup (1..Len(streams))] /\ handle'[to] = s
      /\ \A g \in Handles \ {to} : handle'[g] = IF handle[g] = s THEN Empty ELSE handle[g]
  BY <1>1, <1>2, <1>3
<1> HIDE DEF s
<1> QED
  BY <1>2, <1>3, <1>4, HandOverKeeps

LEMMA BeginDestroyKeeps ==
  ASSUME StreamsInv, NEW h \in Handles, BeginDestroy(h)
  PROVE  StreamsInv'
<1>1. OwnerKnown'
  BY DEF BeginDestroy, OwnerKnown
<1>2. Accounted'
  BY DEF BeginDestroy, StreamsInv, Accounted, Idle, Opening
<1> QED
  BY <1>1, <1>2 DEF BeginDestroy, StreamsInv, StreamsTyped, HandlesApart, HandlesRun, CallerRuns

\* The stream is stopped with no callback underway.
LEMMA EndDestroyKeeps == StreamsInv /\ EndDestroy => StreamsInv'
<1>1. SUFFICES ASSUME StreamsInv, EndDestroy PROVE StreamsInv'
  OBVIOUS
<1> DEFINE h == owner.of
           s == handle[h]
           r == [device |-> "closed", impl |-> "freed"]
<1>2. owner = Destroyed(h) /\ h \in Handles /\ s # Empty
  BY <1>1, Calls DEF EndDestroy
<1>3. handle \in [Handles -> {Empty} \cup (1..Len(streams))] /\ s \in 1..Len(streams)
  BY <1>1, <1>2 DEF StreamsInv, StreamsTyped
<1>4. /\ handle' = [handle EXCEPT ![h] = Empty] /\ streams' = [streams EXCEPT ![s] = r]
      /\ caller # s /\ owner' = Idle /\ caller' = caller /\ dropped' = dropped
  BY <1>1 DEF EndDestroy
<1>5. /\ streams' \in Seq(StreamStates) /\ Len(streams') = Len(streams) /\ streams'[s] = r
      /\ \A q \in 1..Len(streams) : q # s => streams'[q] = streams[q]
  <2>1. r \in StreamStates
    BY DEF StreamStates
  <2> QED
    BY <1>1, <1>3, <1>4, <2>1, OneStream DEF StreamsInv, StreamsTyped
<1>6. \A g \in Handles \ {h} : handle[g] # s
  BY <1>1, <1>2 DEF StreamsInv, HandlesApart
<1> HIDE DEF h, s
<1>7. StreamsTyped' /\ OwnerKnown'
  BY <1>1, <1>2, <1>3, <1>4, <1>5 DEF StreamsInv, StreamsTyped, OwnerKnown
<1>8. HandlesApart' /\ HandlesRun' /\ CallerRuns'
  BY <1>1, <1>2, <1>3, <1>4, <1>5, <1>6
     DEF StreamsInv, StreamsTyped, HandlesApart, HandlesRun, CallerRuns
<1>9. Accounted'
  <2>1. SUFFICES ASSUME NEW q \in (1..Len(streams)) \ dropped, streams'[q].device # "closed"
                 PROVE  streams'[q].impl = "alive" /\ \E g \in Handles : handle'[g] = q
    BY <1>4, <1>5 DEF Accounted
  <2>2. q # s /\ streams'[q] = streams[q]
    BY <1>5, <2>1
  <2>3. owner # Opening(q)
    BY <1>2 DEF Destroyed, Opening
  <2>4. streams[q].impl = "alive" /\ \E g \in Handles : handle[g] = q
    BY <1>1, <2>1, <2>2, <2>3 DEF StreamsInv, Accounted
  <2>5. PICK g \in Handles : handle[g] = q
    BY <2>4
  <2>6. handle'[g] = q
    BY <1>2, <1>3, <1>4, <2>2, <2>5 DEF s
  <2> QED
    BY <2>2, <2>4, <2>6
<1> QED
  BY <1>7, <1>8, <1>9 DEF StreamsInv

-------------------------------------------------------------------------------
LEMMA StreamsStep ==
  StreamsInv /\ [InputStreamNext]_<<analyzerVars, streamVars>> => StreamsInv'
<1>1. SUFFICES ASSUME StreamsInv, [InputStreamNext]_<<analyzerVars, streamVars>>
               PROVE  StreamsInv'
  OBVIOUS
<1>2. CASE Own
  BY <1>1, <1>2, OpenKeeps, StartKeeps, AssignKeeps, MoveKeeps, BeginDestroyKeeps, EndDestroyKeeps
     DEF Own
<1>3. CASE /\ UNCHANGED <<handle, streams, owner, dropped>>
           /\ \/ caller' \in {caller, Empty}
              \/ caller' \in DOMAIN streams /\ streams[caller'].device = "running"
  <2>1. StreamsTyped' /\ CallerRuns'
    BY <1>1, <1>3 DEF StreamsInv, StreamsTyped, CallerRuns
  <2> QED
    BY <1>1, <1>3, <2>1 DEF StreamsInv, OwnerKnown, HandlesApart, HandlesRun, Accounted
<1>4. CASE UNCHANGED streamVars
  BY <1>3, <1>4 DEF streamVars
<1>5. CASE /\ (\E s \in DOMAIN streams : Callback(s)) \/ CallbackReturns
           /\ UNCHANGED <<handle, streams, owner, dropped>>
  <2>1. CASE \E s \in DOMAIN streams : Callback(s)
    BY <1>3, <1>5, <2>1 DEF Callback
  <2>2. CASE CallbackReturns
    BY <1>3, <1>5, <2>2 DEF CallbackReturns
  <2> QED
    BY <1>5, <2>1, <2>2
<1> QED
  BY <1>1, <1>2, <1>4, <1>5 DEF InputStreamNext, streamVars

\* A callback finds its Impl, and every stream PortAudio has belongs to one handle or
\* to the call that opens it, but for those whose handle was assigned another one
\* (AudioEngine.cpp: openInputStream, ~InputStream, the defaulted assignment).
THEOREM CallbacksAlwaysFindTheirStream == InputStreamSpec => []CallbacksFindTheirStream
<1>1. StreamsInv => CallbacksFindTheirStream
  <2>1. SUFFICES ASSUME StreamsInv PROVE CallbacksFindTheirStream
    OBVIOUS
  <2>2. caller # Empty /\ caller \notin dropped => streams[caller].impl = "alive"
    BY <2>1 DEF StreamsInv, StreamsTyped, CallerRuns, Accounted
  <2>3. ASSUME NEW s \in DOMAIN streams \ dropped
        PROVE  streams[s].device # "closed" <=>
                 \/ owner = Opening(s)
                 \/ \E h \in Handles : handle[h] = s /\ \A g \in Handles \ {h} : handle[g] # s
    <3>1. s \in (1..Len(streams)) \ dropped /\ s # Empty
      BY <2>1, <2>3 DEF StreamsInv, StreamsTyped, Empty
    <3>2. ASSUME owner = Opening(s) PROVE streams[s].device # "closed"
      <4>1. owner.call = "openInputStream" /\ owner.stream = s
        BY <3>2 DEF Opening
      <4> QED
        BY <2>1, <4>1, Calls
    <3>3. ASSUME NEW h \in Handles, handle[h] = s
          PROVE  streams[s].device # "closed" /\ \A g \in Handles \ {h} : handle[g] # s
      BY <2>1, <3>1, <3>3 DEF StreamsInv, HandlesRun, HandlesApart
    <3> QED
      BY <2>1, <3>1, <3>2, <3>3 DEF StreamsInv, Accounted
  <2> QED
    BY <2>2, <2>3 DEF CallbacksFindTheirStream
<1> QED
  BY <1>1, StreamsStart, StreamsStep, PTL DEF InputStreamSpec


\* Handles and callbacks name streams that were opened, whatever fails, moves and is
\* destroyed.
THEOREM StreamTypes == InputStreamSpec => []InputStreamTypeOK
<1>1. StreamsInv => InputStreamTypeOK
  <2>1. SUFFICES ASSUME StreamsTyped PROVE InputStreamTypeOK
    BY DEF StreamsInv
  <2>2. DOMAIN streams = 1..Len(streams) /\ \A s \in DOMAIN streams : streams[s] \in StreamStates
    BY <2>1 DEF StreamsTyped
  <2> QED
    BY <2>1, <2>2 DEF StreamsTyped, StreamStates, InputStreamTypeOK
<1> QED
  BY <1>1, StreamsStart, StreamsStep, PTL DEF InputStreamSpec

-------------------------------------------------------------------------------
(* AudioDevices: what a capture is opened with. *)

\* What First takes: nothing, or the element at the least of the places that qualify.
LEMMA FirstTaken ==
  ASSUME NEW ds, NEW D, NEW n \in Nat, DOMAIN ds = 1..n
  PROVE  \/ First(ds, D) = {} /\ \A m \in DOMAIN ds : ds[m] \notin D
         \/ \E k \in DOMAIN ds :
              /\ ds[k] \in D /\ First(ds, D) = {ds[k]}
              /\ \A j \in DOMAIN ds : ds[j] \in D => k <= j
<1>1. PICK K : K = {k \in DOMAIN ds : ds[k] \in D}
  OBVIOUS
<1>2. CASE K = {}
  BY <1>1, <1>2 DEF First
<1>3. CASE K # {}
  <2>1. K \subseteq Nat
    BY <1>1
  <2>2. PICK k \in K : \A j \in K : k <= j
    BY <1>3, <2>1, LeastOf
  <2>3. k \in DOMAIN ds /\ ds[k] \in D /\ k \in Nat \ {0}
    BY <1>1
  <2>4. \A j \in 1..(k - 1) : ds[j] \notin D
    BY <1>1, <2>2, <2>3
  <2>5. \A j \in DOMAIN ds : ds[j] \in D => k <= j
    BY <1>1, <2>2
  <2> QED
    BY <2>3, <2>4, <2>5 DEF First
<1> QED
  BY <1>2, <1>3

\* The rates are tried in their order.
LEMMA RateTaken ==
  ASSUME NEW t, NEW a, NEW b, NEW c, NEW D, t = <<a, b, c>>
  PROVE  /\ a \in D => First(t, D) = {a}
         /\ a \notin D /\ b \in D => First(t, D) = {b}
         /\ a \notin D /\ b \notin D /\ c \in D => First(t, D) = {c}
         /\ a \notin D /\ b \notin D /\ c \notin D => First(t, D) = {}
<1>2. t[1] = a /\ t[2] = b /\ t[3] = c /\ DOMAIN t = 1..3
  OBVIOUS
<1>3. \/ First(t, D) = {} /\ \A m \in DOMAIN t : t[m] \notin D
      \/ \E k \in DOMAIN t :
           /\ t[k] \in D /\ First(t, D) = {t[k]}
           /\ \A j \in DOMAIN t : t[j] \in D => k <= j
  BY <1>2, FirstTaken
<1> QED
  BY <1>2, <1>3

\* A negotiation gives what is asked of it, whatever the device supports.
LEMMA NegotiationAnswered ==
  ASSUME query \in NegotiationQueries, answer = Negotiate(query)
  PROVE  NegotiationSound
<1>1. PICK a, b, c : a = Candidate(query) /\ b = DeviceRate(query) /\ c = query.engineRate
  OBVIOUS
<1>2. RatesTried(query) = <<a, b, c>> /\ RatesTried(query)[1] = a
  BY <1>1 DEF RatesTried
<1>3. PICK hit : hit = First(RatesTried(query), query.supported)
  OBVIOUS
<1>4. /\ a \in query.supported => hit = {a}
      /\ a \notin query.supported /\ b \in query.supported => hit = {b}
      /\ a \notin query.supported /\ b \notin query.supported /\ c \in query.supported => hit = {c}
      /\ a \notin query.supported /\ b \notin query.supported /\ c \notin query.supported => hit = {}
  BY <1>2, <1>3, RateTaken
<1>5. query.maxIn \in 0..MaxChannels /\ MaxChannels \in Nat
  BY DevicesAssumption DEF NegotiationQueries
<1>6. CASE query.maxIn = 0
  <2>1. answer = [supported |-> FALSE, channels |-> 0, rate |-> 0, fallback |-> FALSE]
    BY <1>6 DEF Negotiate
  <2> QED
    BY <2>1, <1>6 DEF NegotiationSound
<1>7. CASE query.maxIn > 0
  <2>1. answer = [supported |-> hit # {}, channels |-> Channels(query),
                  rate |-> IF hit = {} THEN a ELSE CHOOSE r \in hit : TRUE,
                  fallback |-> hit # {} /\ a \notin query.supported]
    <3>1. ~(query.maxIn <= 0)
      BY <1>5, <1>7
    <3> QED
      BY <1>2, <1>3, <3>1, Zenon DEF Negotiate
  <2>2. Channels(query) \in 1..query.maxIn
    <3>1. /\ query.requestedChannels \in {None} \cup 0..MaxChannels
          /\ query.engineChannels \in 0..MaxChannels
      BY DEF NegotiationQueries
    <3> QED
      BY <3>1, <1>5, <1>7 DEF Channels, AtLeast1, None
  <2>3. /\ answer.supported = (hit # {}) /\ answer.channels \in 1..query.maxIn
        /\ answer.fallback = (hit # {} /\ a \notin query.supported)
        /\ answer.rate = IF hit = {} THEN a ELSE CHOOSE r \in hit : TRUE
    BY <2>1, <2>2
  <2>5. \A x : hit = {x} => answer.rate = x
    BY <2>3
  <2>6. hit # {} => answer.rate \in query.supported
    BY <1>4, <2>5
  <2> QED
    BY <1>4, <2>3, <2>5, <2>6, <1>1 DEF NegotiationSound
<1> QED
  BY <1>5, <1>6, <1>7

\* The devices are in the order of their indices, which tell them apart.
LEMMA DevicesInOrder ==
  ASSUME NEW ds \in Enumerations
  PROVE  /\ \E n \in Nat : DOMAIN ds = 1..n
         /\ \A m \in DOMAIN ds : ds[m] \in Devices
         /\ \A m, j \in DOMAIN ds : m <= j => ds[m].index <= ds[j].index
         /\ \A m, j \in DOMAIN ds : ds[m].index = ds[j].index => m = j
<1>1. PICK n \in 0..MaxDevices : ds \in [1..n -> Devices]
  BY DEF Enumerations, SeqOf
<1>2. n \in Nat /\ DOMAIN ds = 1..n
  BY <1>1, DevicesAssumption
<1>3. \A m \in DOMAIN ds : ds[m] \in Devices /\ ds[m].index \in Int
  BY <1>1, DevicesAssumption DEF Devices
<1>4. \A m, j \in DOMAIN ds : m < j => ds[m].index < ds[j].index
  BY DEF Enumerations
<1> QED
  BY <1>2, <1>3, <1>4

\* A device that resolve finds is the one asked for.
LEMMA ResolutionAnswered ==
  ASSUME query \in ResolutionQueries, answer = Resolve(query)
  PROVE  ResolutionSound
<1>1. PICK ds : ds = query.devices /\ ds \in Enumerations
  BY DEF ResolutionQueries
<1>2. /\ \A m \in DOMAIN ds : ds[m] \in Devices
      /\ \A m, j \in DOMAIN ds : m <= j => ds[m].index <= ds[j].index
      /\ \A m, j \in DOMAIN ds : ds[m].index = ds[j].index => m = j
  BY <1>1, DevicesInOrder
<1>3. /\ query.kind = "resolve" /\ query.by \in {"absent", "index", "name"}
      /\ query.index \in Int /\ query.name \in Names
  BY DevicesAssumption DEF ResolutionQueries
<1>4. \A d \in Devices : d.in \in {0, 1} /\ d.index \in Nat
  BY DevicesAssumption DEF Devices
<1>5. SUFFICES ASSUME answer.device # None
               PROVE  /\ \A d \in Chosen : d.in > 0
                      /\ query.by = "index" => answer.device = query.index
                      /\ query.by = "name" =>
                           /\ Chosen # {}
                           /\ \A d \in Chosen : <<query.name, d.name>> \in Matches
                           /\ \A d \in {ds[m] : m \in DOMAIN ds} :
                                <<query.name, d.name>> \in Matches => answer.device <= d.index
  BY <1>1 DEF ResolutionSound
<1>6. Nothing.device = None /\ Error.device = None
  BY DEF Nothing, Error
<1>7. CASE query.by = "index" /\ answer = ResolveIndex(query)
  <2>1. PICK D : D = {d \in Devices : d.index = query.index}
    OBVIOUS
  <2>2. /\ answer = [device |-> query.index, error |-> FALSE]
        /\ ~\E d \in First(ds, D) : d.in = 0
    BY <1>1, <1>5, <1>6, <1>7, <2>1 DEF ResolveIndex
  <2>3. answer.device = query.index
    BY <2>2
  <2>4. ASSUME NEW m \in DOMAIN ds, ds[m].index = query.index PROVE ds[m].in > 0
    <3>1. ds[m] \in D
      BY <1>2, <2>1, <2>4
    <3>2. PICK k \in DOMAIN ds : ds[k] \in D /\ First(ds, D) = {ds[k]}
      BY <1>1, <3>1, DevicesInOrder, FirstTaken
    <3>3. ds[k] = ds[m] /\ ds[m].in # 0
      BY <1>2, <2>1, <2>2, <2>4, <3>2
    <3> QED
      BY <1>2, <1>4, <3>3
  <2>5. \A d \in Chosen : d.in > 0
    BY <1>1, <2>3, <2>4 DEF Chosen
  <2> QED
    BY <1>7, <2>3, <2>5
<1>8. CASE query.by = "name" /\ answer = ResolveName(query)
  <2>1. PICK D : D = {d \in Devices : <<query.name, d.name>> \in Matches}
    OBVIOUS
  <2>2. First(ds, D) # {} /\ ~\E d \in First(ds, D) : d.in = 0
    BY <1>1, <1>5, <1>6, <1>8, <2>1 DEF ResolveName
  <2>3. answer = Found(CHOOSE d \in First(ds, D) : TRUE)
    BY <1>1, <1>5, <1>6, <1>8, <2>1 DEF ResolveName
  <2>4. PICK k \in DOMAIN ds : /\ ds[k] \in D /\ First(ds, D) = {ds[k]}
                               /\ \A j \in DOMAIN ds : ds[j] \in D => k <= j
    BY <1>1, <2>2, DevicesInOrder, FirstTaken
  <2>5. answer.device = ds[k].index /\ ds[k].in > 0
    <3>1. (CHOOSE d \in First(ds, D) : TRUE) = ds[k]
      BY <2>4
    <3> QED
      BY <1>2, <1>4, <2>2, <2>3, <2>4, <3>1 DEF Found
  <2>6. Chosen = {ds[k]}
    BY <1>1, <1>2, <2>5 DEF Chosen
  <2>7. ASSUME NEW m \in DOMAIN ds, <<query.name, ds[m].name>> \in Matches
        PROVE  answer.device <= ds[m].index
    <3>1. k <= m
      BY <1>2, <2>1, <2>4, <2>7
    <3> QED
      BY <1>2, <2>5, <3>1
  <2> QED
    BY <1>8, <2>1, <2>4, <2>5, <2>6, <2>7
<1> QED
  <2>1. answer # Nothing /\ answer # Error
    BY <1>5, <1>6
  <2> QED
    BY <1>3, <1>7, <1>8, <2>1 DEF Resolve

\* A selection takes the device asked for, or the best of those that can capture.
LEMMA SelectionAnswered ==
  ASSUME query \in SelectionQueries, answer = Select(query)
  PROVE  SelectionSound
<1>1. PICK ds : ds = query.devices /\ ds \in Enumerations
  BY DEF SelectionQueries
<1>2. /\ \A m \in DOMAIN ds : ds[m] \in Devices
      /\ \A m, j \in DOMAIN ds : ds[m].index = ds[j].index => m = j
  BY <1>1, DevicesInOrder
<1>3. query.by \in {"absent", "index", "name"}
  BY DEF SelectionQueries
<1>4. \A d \in Devices : d.in \in {0, 1} /\ d.out \in {0, 1} /\ d.index \in Nat /\ d.rate \in Nat
  <2>1. \A d \in Devices : /\ d.in \in 0..1 /\ d.out \in 0..1
                           /\ d.index \in 0..(MaxDevices - 1) /\ d.rate \in Rates
    BY DEF Devices
  <2>2. \A d \in Devices : d.index \in Nat /\ d.rate \in Nat
    <3>1. 0..(MaxDevices - 1) \subseteq Nat /\ Rates \subseteq Nat
      BY DevicesAssumption
    <3> QED
      BY <2>1, <3>1, Zenon
  <2> QED
    BY <2>1, <2>2
<1>5. \A x : (CHOOSE d \in {x} : TRUE) = x
  OBVIOUS
<1>6. \A d : Found(d).device = d.index /\ Found(d).error = FALSE
  BY DEF Found
<1>7. Error.error = TRUE
  BY DEF Error
<1>8. CASE query.by # "absent"
  <2>1. PICK named, D :
          /\ named = IF query.by = "index"
                       THEN First(query.devices, {d \in Devices : d.index = query.index})
                       ELSE First(query.devices, {d \in Devices : d.name = query.name})
          /\ D = IF query.by = "index" THEN {d \in Devices : d.index = query.index}
                 ELSE {d \in Devices : d.name = query.name}
    OBVIOUS
  <2>2. named = First(ds, D)
    BY <1>1, <2>1
  <2>3. answer = IF \E d \in named : d.in > 0 THEN Found(CHOOSE d \in named : TRUE) ELSE Error
    <3>1. CASE query.by = "index"
      BY <1>8, <2>1, <3>1 DEF Select
    <3>2. CASE query.by # "index"
      BY <1>8, <2>1, <3>2 DEF Select
    <3> QED
      BY <3>1, <3>2
  <2>4. CASE \E d \in named : d.in > 0
    <3>1. PICK k \in DOMAIN ds : ds[k] \in D /\ named = {ds[k]}
      BY <1>1, <2>2, <2>4, DevicesInOrder, FirstTaken
    <3>2. answer.device = ds[k].index /\ ds[k].in > 0
      BY <1>5, <1>6, <2>3, <2>4, <3>1
    <3>3. ds[k] \in Chosen
      BY <1>1, <3>2 DEF Chosen
    <3>4. IF query.by = "index" THEN ds[k].index = query.index ELSE ds[k].name = query.name
      BY <2>1, <3>1
    <3> QED
      BY <1>8, <3>2, <3>3, <3>4 DEF SelectionSound
  <2>5. CASE ~\E d \in named : d.in > 0
    BY <1>7, <1>8, <2>3, <2>5 DEF SelectionSound
  <2> QED
    BY <2>4, <2>5
<1>9. CASE query.by = "absent"
  <2>1. PICK able, D, E :
          /\ able = First(query.devices, Capturing)
          /\ D = {d \in Capturing : d.out > 0 /\ RateMatches(d, query.preferred)}
          /\ E = First(query.devices,
                       {d \in Capturing : d.out > 0 /\ RateMatches(d, query.preferred)})
    OBVIOUS
  <2>2. PICK pick : pick = IF E # {} THEN E ELSE able
    OBVIOUS
  <2>3. answer = IF pick = {} THEN Error ELSE Found(CHOOSE d \in pick : TRUE)
    <3>1. ~(query.by # "absent")
      BY <1>9
    <3> QED
      BY <3>1, <2>1, <2>2 DEF Select
  <2>4. \/ able = {} /\ \A m \in DOMAIN ds : ds[m] \notin Capturing
        \/ \E k \in DOMAIN ds : ds[k] \in Capturing /\ able = {ds[k]}
    BY <1>1, <2>1, DevicesInOrder, FirstTaken
  <2>5. \/ E = {} /\ \A m \in DOMAIN ds : ds[m] \notin D
        \/ \E k \in DOMAIN ds : ds[k] \in D /\ E = {ds[k]}
    BY <1>1, <2>1, DevicesInOrder, FirstTaken
  <2>6. \A m \in DOMAIN ds : ds[m] \in Capturing <=> ds[m].in > 0
    BY <1>2 DEF Capturing
  <2>7. \A m \in DOMAIN ds :
          ds[m] \in D <=> /\ ds[m].in > 0 /\ ds[m].out > 0
                          /\ query.preferred \in {0, ds[m].rate}
    <3>1. query.preferred \in Nat
      BY DevicesAssumption DEF SelectionQueries
    <3>2. \A d \in Devices : RateMatches(d, query.preferred) <=> query.preferred \in {0, d.rate}
      BY <1>4, <3>1 DEF RateMatches
    <3> QED
      BY <1>2, <2>1, <2>6, <3>2
  <2>8. D \subseteq Capturing
    BY <2>1
  <2>9. answer.error <=> pick = {}
    BY <1>6, <1>7, <2>3
  <2>10. pick = {} <=> ~\E m \in DOMAIN ds : ds[m].in > 0
    BY <2>2, <2>4, <2>5, <2>6, <2>8
  <2>11. ASSUME \E m \in DOMAIN ds : ds[m] \in D
         PROVE  \E k \in DOMAIN ds : ds[k] \in D /\ answer.device = ds[k].index
    <3>1. PICK k \in DOMAIN ds : ds[k] \in D /\ pick = {ds[k]}
      BY <2>2, <2>5, <2>11
    <3> QED
      BY <1>5, <1>6, <2>3, <3>1
  <2> QED
    BY <1>1, <1>9, <2>7, <2>9, <2>10, <2>11 DEF SelectionSound
<1> QED
  BY <1>8, <1>9

\* The query is one that can be posed, and the answer that of the function asked.
DevicesInv ==
  /\ query \in ResolutionQueries \cup SelectionQueries \cup NegotiationQueries
  /\ done => /\ query \in NegotiationQueries => answer = Negotiate(query)
             /\ query \in ResolutionQueries  => answer = Resolve(query)
             /\ query \in SelectionQueries   => answer = Select(query)

LEMMA DevicesInvInvariant == DevicesSpec => []DevicesInv
<1>1. DevicesInit => DevicesInv
  BY DEF DevicesInit, DevicesInv
<1>2. DevicesInv /\ [Answer]_devicesVars => DevicesInv'
  <2>1. ASSUME DevicesInv, Answer PROVE DevicesInv'
    <3>1. CASE query \in NegotiationQueries
      <4>1. query.kind = "negotiate"
        BY <3>1 DEF NegotiationQueries
      <4>2. answer' = Negotiate(query) /\ query' = query
        BY <2>1, <4>1, Zenon DEF Answer
      <4>3. query \notin ResolutionQueries /\ query \notin SelectionQueries
        BY <4>1 DEF ResolutionQueries, SelectionQueries
      <4> QED
        BY <2>1, <4>2, <4>3, Zenon DEF DevicesInv
    <3>2. CASE query \in ResolutionQueries
      <4>1. query.kind = "resolve"
        BY <3>2 DEF ResolutionQueries
      <4>2. answer' = Resolve(query) /\ query' = query
        BY <2>1, <4>1 DEF Answer
      <4>3. query \notin NegotiationQueries /\ query \notin SelectionQueries
        BY <4>1 DEF NegotiationQueries, SelectionQueries
      <4> QED
        BY <2>1, <4>2, <4>3, Zenon DEF DevicesInv
    <3>3. CASE query \in SelectionQueries
      <4>1. query.kind = "select"
        BY <3>3 DEF SelectionQueries
      <4>2. answer' = Select(query) /\ query' = query
        BY <2>1, <4>1 DEF Answer
      <4>3. query \notin NegotiationQueries /\ query \notin ResolutionQueries
        BY <4>1 DEF NegotiationQueries, ResolutionQueries
      <4> QED
        BY <2>1, <4>2, <4>3, Zenon DEF DevicesInv
    <3> QED
      BY <2>1, <3>1, <3>2, <3>3 DEF DevicesInv
  <2>2. ASSUME DevicesInv, UNCHANGED devicesVars PROVE DevicesInv'
    <3>1. query' = query /\ answer' = answer /\ done' = done
      BY <2>2 DEF devicesVars
    <3> QED
      BY <2>2, <3>1, Zenon DEF DevicesInv
  <2> QED
    BY <2>1, <2>2
<1> QED
  BY <1>1, <1>2, PTL DEF DevicesSpec

\* What a capture is opened with is what was asked for, or the best there is, for
\* any devices, rates and names (negotiateStream, resolveInputDeviceIdentifier,
\* selectInputDevice).
THEOREM DevicesAreSound == DevicesSpec => []DevicesSound
<1>1. DevicesInv => DevicesSound
  <2>1. ASSUME DevicesInv, done PROVE DevicesSound
    <3>1. CASE query \in NegotiationQueries
      <4>1. query.kind = "negotiate"
        BY <3>1 DEF NegotiationQueries
      <4>2. answer = Negotiate(query)
        BY <2>1, <3>1, Zenon DEF DevicesInv
      <4>3. NegotiationSound
        BY <3>1, <4>2, NegotiationAnswered
      <4> QED
        BY <4>1, <4>3 DEF DevicesSound, ResolutionSound, SelectionSound, Answered
    <3>2. CASE query \in ResolutionQueries
      <4>1. query.kind = "resolve"
        BY <3>2 DEF ResolutionQueries
      <4>2. answer = Resolve(query)
        BY <2>1, <3>2, Zenon DEF DevicesInv
      <4>3. ResolutionSound
        BY <3>2, <4>2, ResolutionAnswered
      <4> QED
        BY <4>1, <4>3 DEF DevicesSound, NegotiationSound, SelectionSound, Answered
    <3>3. CASE query \in SelectionQueries
      <4>1. query.kind = "select"
        BY <3>3 DEF SelectionQueries
      <4>2. answer = Select(query)
        BY <2>1, <3>3, Zenon DEF DevicesInv
      <4>3. SelectionSound
        BY <3>3, <4>2, SelectionAnswered
      <4> QED
        BY <4>1, <4>3 DEF DevicesSound, NegotiationSound, ResolutionSound, Answered
    <3> QED
      BY <2>1, <3>1, <3>2, <3>3 DEF DevicesInv
  <2>2. ~done => DevicesSound
    BY DEF DevicesSound, NegotiationSound, ResolutionSound, SelectionSound, Answered
  <2> QED
    BY <2>1, <2>2
<1> QED
  BY <1>1, DevicesInvInvariant, PTL

-------------------------------------------------------------------------------
(* The children of an effect list *)

LEMMA KnownIn ==
  ASSUME NEW S, NEW nodes \in Seq(S), NEW makes
  PROVE  Known(nodes, makes) \in Seq(S)
<1>1. PICK n \in Nat : n = Len(nodes) /\ DOMAIN nodes = 1..n /\ \A k \in 1..n : nodes[k] \in S
  BY LenProperties
<1>2. PICK ss : ss = [k \in 1..n |-> IF nodes[k].id \in makes THEN <<nodes[k]>> ELSE <<>>]
  OBVIOUS
<1>3. \A k \in 1..n : ss[k] \in Seq(S)
  BY <1>1, <1>2
<1>4. ss \in Seq(Seq(S))
  BY <1>2, <1>3
<1>5. Known(nodes, makes) = FlattenSeq(ss)
  BY <1>1, <1>2, Zenon DEF Known
<1> QED
  BY <1>4, <1>5, FlattenedIn, Zenon

\* What Lists, Children, Described and InitAll are at a depth, given what they are at
\* the depth below.
ListLevel(d, below) == IF d = 0 THEN {} ELSE Seq([id : STRING, kids : below])

ChildLevel(d, below) ==
  IF d = 0 THEN {}
  ELSE Seq([id : STRING, context : Contexts \cup {NoContext}, kids : below])

DescribedLevel(d, makes, ctx, below) ==
  [list \in Lists[d] |->
     [n \in DOMAIN Known(list, makes) |->
        [id |-> Known(list, makes)[n].id, context |-> ctx,
         kids |-> IF Known(list, makes)[n].id = "list"
                  THEN below[Known(list, makes)[n].kids] ELSE <<>>]]]

InitLevel(d, ctx, below) ==
  [list \in Children[d] |->
     [n \in DOMAIN list |->
        [id |-> list[n].id, context |-> ctx, kids |-> below[list[n].kids]]]]

\* The functions that they are defined by, down to some depth.
ListLevels(f, depth) == f = [d \in 0..depth |-> ListLevel(d, f[d - 1])]

ChildLevels(f, depth) == f = [d \in 0..depth |-> ChildLevel(d, f[d - 1])]

Describes(f, makes, ctx, depth) ==
  f = [d \in 0..depth |-> DescribedLevel(d, makes, ctx, f[d - 1])]

Inits(f, ctx, depth) == f = [d \in 0..depth |-> InitLevel(d, ctx, f[d - 1])]

LEMMA ListLevelsExist ==
  ASSUME NEW n \in Nat
  PROVE  \E f : ListLevels(f, n)
<1>1. PICK T : T = {k \in Nat : \E f : ListLevels(f, k)}
  OBVIOUS
<1>2. ASSUME NEW b, NEW c PROVE ListLevel(0, b) = ListLevel(0, c)
  BY DEF ListLevel
<1>3. 0 \in T
  <2>1. PICK f : f = [d \in 0..0 |-> ListLevel(0, {})]
    OBVIOUS
  <2>2. ASSUME NEW d \in 0..0 PROVE f[d] = ListLevel(d, f[d - 1])
    <3>1. d = 0
      OBVIOUS
    <3>2. f[0] = ListLevel(0, {})
      BY <2>1, 0 \in 0..0
    <3>3. f[0] = ListLevel(0, f[0 - 1])
      BY <1>2, <3>2, Zenon
    <3> QED
      BY <3>1, <3>3, Zenon
  <2>3. f = [d \in 0..0 |-> ListLevel(d, f[d - 1])]
    BY <2>1, <2>2
  <2>4. ListLevels(f, 0)
    BY <2>3, Zenon DEF ListLevels
  <2> QED
    BY <1>1, <2>4
<1>4. ASSUME NEW k \in Nat, k \in T PROVE k + 1 \in T
  <2>1. PICK f : ListLevels(f, k)
    BY <1>1, <1>4
  <2>2. \A d \in 0..k : f[d] = ListLevel(d, f[d - 1])
    BY <2>1, Zenon DEF ListLevels
  <2>3. PICK deepest : deepest = ListLevel(k + 1, f[k])
    OBVIOUS
  <2>4. PICK g : g = [d \in 0..(k + 1) |-> IF d = k + 1 THEN deepest ELSE f[d]]
    OBVIOUS
  <2>5. ASSUME NEW d \in 0..(k + 1) PROVE g[d] = ListLevel(d, g[d - 1])
    <3>1. CASE d = k + 1
      <4>1. d - 1 = k /\ k \in 0..(k + 1) /\ k # k + 1
        BY <3>1
      <4>2. g[d - 1] = f[k] /\ g[d] = deepest
        BY <2>4, <3>1, <4>1
      <4> QED
        BY <2>3, <3>1, <4>2, Zenon
    <3>2. CASE d = 0
      <4>1. g[0] = f[0] /\ 0 \in 0..k
        BY <2>4
      <4>2. g[0] = ListLevel(0, f[0 - 1])
        BY <2>2, <4>1, Zenon
      <4>3. g[0] = ListLevel(0, g[0 - 1])
        BY <1>2, <4>2, Zenon
      <4> QED
        BY <3>2, <4>3, Zenon
    <3>3. CASE d # 0 /\ d # k + 1
      <4>1. d \in 0..k /\ g[d] = f[d] /\ d - 1 \in 0..(k + 1) /\ d - 1 # k + 1
        BY <2>4, <3>3
      <4>2. g[d - 1] = f[d - 1]
        BY <2>4, <4>1
      <4> QED
        BY <2>2, <4>1, <4>2, Zenon
    <3> QED
      BY <3>1, <3>2, <3>3
  <2>6. g = [d \in 0..(k + 1) |-> ListLevel(d, g[d - 1])]
    BY <2>4, <2>5
  <2>7. ListLevels(g, k + 1)
    BY <2>6, Zenon DEF ListLevels
  <2> QED
    BY <1>1, <2>7
<1>5. Nat \subseteq T
  BY <1>3, <1>4, Induct
<1> QED
  BY <1>1, <1>5

LEMMA ChildLevelsExist ==
  ASSUME NEW n \in Nat
  PROVE  \E f : ChildLevels(f, n)
<1>1. PICK T : T = {k \in Nat : \E f : ChildLevels(f, k)}
  OBVIOUS
<1>2. ASSUME NEW b, NEW c PROVE ChildLevel(0, b) = ChildLevel(0, c)
  BY DEF ChildLevel
<1>3. 0 \in T
  <2>1. PICK f : f = [d \in 0..0 |-> ChildLevel(0, {})]
    OBVIOUS
  <2>2. ASSUME NEW d \in 0..0 PROVE f[d] = ChildLevel(d, f[d - 1])
    <3>1. d = 0
      OBVIOUS
    <3>2. f[0] = ChildLevel(0, {})
      BY <2>1, 0 \in 0..0
    <3>3. f[0] = ChildLevel(0, f[0 - 1])
      BY <1>2, <3>2, Zenon
    <3> QED
      BY <3>1, <3>3, Zenon
  <2>3. f = [d \in 0..0 |-> ChildLevel(d, f[d - 1])]
    BY <2>1, <2>2
  <2>4. ChildLevels(f, 0)
    BY <2>3, Zenon DEF ChildLevels
  <2> QED
    BY <1>1, <2>4
<1>4. ASSUME NEW k \in Nat, k \in T PROVE k + 1 \in T
  <2>1. PICK f : ChildLevels(f, k)
    BY <1>1, <1>4
  <2>2. \A d \in 0..k : f[d] = ChildLevel(d, f[d - 1])
    BY <2>1, Zenon DEF ChildLevels
  <2>3. PICK deepest : deepest = ChildLevel(k + 1, f[k])
    OBVIOUS
  <2>4. PICK g : g = [d \in 0..(k + 1) |-> IF d = k + 1 THEN deepest ELSE f[d]]
    OBVIOUS
  <2>5. ASSUME NEW d \in 0..(k + 1) PROVE g[d] = ChildLevel(d, g[d - 1])
    <3>1. CASE d = k + 1
      <4>1. d - 1 = k /\ k \in 0..(k + 1) /\ k # k + 1
        BY <3>1
      <4>2. g[d - 1] = f[k] /\ g[d] = deepest
        BY <2>4, <3>1, <4>1
      <4> QED
        BY <2>3, <3>1, <4>2, Zenon
    <3>2. CASE d = 0
      <4>1. g[0] = f[0] /\ 0 \in 0..k
        BY <2>4
      <4>2. g[0] = ChildLevel(0, f[0 - 1])
        BY <2>2, <4>1, Zenon
      <4>3. g[0] = ChildLevel(0, g[0 - 1])
        BY <1>2, <4>2, Zenon
      <4> QED
        BY <3>2, <4>3, Zenon
    <3>3. CASE d # 0 /\ d # k + 1
      <4>1. d \in 0..k /\ g[d] = f[d] /\ d - 1 \in 0..(k + 1) /\ d - 1 # k + 1
        BY <2>4, <3>3
      <4>2. g[d - 1] = f[d - 1]
        BY <2>4, <4>1
      <4> QED
        BY <2>2, <4>1, <4>2, Zenon
    <3> QED
      BY <3>1, <3>2, <3>3
  <2>6. g = [d \in 0..(k + 1) |-> ChildLevel(d, g[d - 1])]
    BY <2>4, <2>5
  <2>7. ChildLevels(g, k + 1)
    BY <2>6, Zenon DEF ChildLevels
  <2> QED
    BY <1>1, <2>7
<1>5. Nat \subseteq T
  BY <1>3, <1>4, Induct
<1> QED
  BY <1>1, <1>5

\* The lists of each depth are sequences of nodes over the lists of the depth below.
LEMMA ListsAre ==
  /\ Lists[0] = {}
  /\ \A d \in 1..MaxDepth : Lists[d] = Seq([id : STRING, kids : Lists[d - 1]])
<1>1. MaxDepth \in Nat
  BY EffectListAssumption
<1>2. \E f : ListLevels(f, MaxDepth)
  BY <1>1, ListLevelsExist
<1>3. \A f : ListLevels(f, MaxDepth)
             <=> f = [d \in 0..MaxDepth |->
                        IF d = 0 THEN {} ELSE Seq([id : STRING, kids : f[d - 1]])]
  BY Zenon DEF ListLevels, ListLevel
<1>4. ListLevels(Lists, MaxDepth)
  BY <1>2, <1>3, Zenon DEF Lists
<1>5. \A d \in 0..MaxDepth : Lists[d] = ListLevel(d, Lists[d - 1])
  BY <1>4, Zenon DEF ListLevels
<1>6. 0 \in 0..MaxDepth /\ \A d \in 1..MaxDepth : d \in 0..MaxDepth /\ d # 0
  BY <1>1
<1> QED
  BY <1>5, <1>6, Zenon DEF ListLevel

\* So are the lists of children.
LEMMA ChildrenSets ==
  /\ Children[0] = {}
  /\ \A d \in 1..MaxDepth :
       Children[d] = Seq([id : STRING, context : Contexts \cup {NoContext},
                          kids : Children[d - 1]])
<1>1. MaxDepth \in Nat
  BY EffectListAssumption
<1>2. \E f : ChildLevels(f, MaxDepth)
  BY <1>1, ChildLevelsExist
<1>3. \A f : ChildLevels(f, MaxDepth)
             <=> f = [d \in 0..MaxDepth |->
                        IF d = 0 THEN {}
                        ELSE Seq([id : STRING, context : Contexts \cup {NoContext},
                                  kids : f[d - 1]])]
  BY Zenon DEF ChildLevels, ChildLevel
<1>4. ChildLevels(Children, MaxDepth)
  BY <1>2, <1>3, Zenon DEF Children
<1>5. \A d \in 0..MaxDepth : Children[d] = ChildLevel(d, Children[d - 1])
  BY <1>4, Zenon DEF ChildLevels
<1>6. 0 \in 0..MaxDepth /\ \A d \in 1..MaxDepth : d \in 0..MaxDepth /\ d # 0
  BY <1>1
<1> QED
  BY <1>5, <1>6, Zenon DEF ChildLevel

LEMMA DescribesExist ==
  ASSUME NEW makes, NEW ctx, NEW n \in Nat
  PROVE  \E f : Describes(f, makes, ctx, n)
<1>1. PICK T : T = {k \in Nat : \E f : Describes(f, makes, ctx, k)}
  OBVIOUS
<1>2. ASSUME NEW b, NEW c PROVE DescribedLevel(0, makes, ctx, b) = DescribedLevel(0, makes, ctx, c)
  BY ListsAre DEF DescribedLevel
<1>3. 0 \in T
  <2>1. PICK f : f = [d \in 0..0 |-> DescribedLevel(0, makes, ctx, {})]
    OBVIOUS
  <2>2. ASSUME NEW d \in 0..0 PROVE f[d] = DescribedLevel(d, makes, ctx, f[d - 1])
    <3>1. d = 0
      OBVIOUS
    <3>2. f[0] = DescribedLevel(0, makes, ctx, {})
      BY <2>1, 0 \in 0..0
    <3>3. f[0] = DescribedLevel(0, makes, ctx, f[0 - 1])
      BY <1>2, <3>2, Zenon
    <3> QED
      BY <3>1, <3>3, Zenon
  <2>3. f = [d \in 0..0 |-> DescribedLevel(d, makes, ctx, f[d - 1])]
    BY <2>1, <2>2
  <2>4. Describes(f, makes, ctx, 0)
    BY <2>3, Zenon DEF Describes
  <2> QED
    BY <1>1, <2>4
<1>4. ASSUME NEW k \in Nat, k \in T PROVE k + 1 \in T
  <2>1. PICK f : Describes(f, makes, ctx, k)
    BY <1>1, <1>4
  <2>2. \A d \in 0..k : f[d] = DescribedLevel(d, makes, ctx, f[d - 1])
    BY <2>1, Zenon DEF Describes
  <2>3. PICK deepest : deepest = DescribedLevel(k + 1, makes, ctx, f[k])
    OBVIOUS
  <2>4. PICK g : g = [d \in 0..(k + 1) |-> IF d = k + 1 THEN deepest ELSE f[d]]
    OBVIOUS
  <2>5. ASSUME NEW d \in 0..(k + 1) PROVE g[d] = DescribedLevel(d, makes, ctx, g[d - 1])
    <3>1. CASE d = k + 1
      <4>1. d - 1 = k /\ k \in 0..(k + 1) /\ k # k + 1
        BY <3>1
      <4>2. g[d - 1] = f[k] /\ g[d] = deepest
        BY <2>4, <3>1, <4>1
      <4> QED
        BY <2>3, <3>1, <4>2, Zenon
    <3>2. CASE d = 0
      <4>1. g[0] = f[0] /\ 0 \in 0..k
        BY <2>4
      <4>2. g[0] = DescribedLevel(0, makes, ctx, f[0 - 1])
        BY <2>2, <4>1, Zenon
      <4>3. g[0] = DescribedLevel(0, makes, ctx, g[0 - 1])
        BY <1>2, <4>2, Zenon
      <4> QED
        BY <3>2, <4>3, Zenon
    <3>3. CASE d # 0 /\ d # k + 1
      <4>1. d \in 0..k /\ g[d] = f[d] /\ d - 1 \in 0..(k + 1) /\ d - 1 # k + 1
        BY <2>4, <3>3
      <4>2. g[d - 1] = f[d - 1]
        BY <2>4, <4>1
      <4> QED
        BY <2>2, <4>1, <4>2, Zenon
    <3> QED
      BY <3>1, <3>2, <3>3
  <2>6. g = [d \in 0..(k + 1) |-> DescribedLevel(d, makes, ctx, g[d - 1])]
    BY <2>4, <2>5
  <2>7. Describes(g, makes, ctx, k + 1)
    BY <2>6, Zenon DEF Describes
  <2> QED
    BY <1>1, <2>7
<1>5. Nat \subseteq T
  BY <1>3, <1>4, Induct
<1> QED
  BY <1>1, <1>5

LEMMA InitsExist ==
  ASSUME NEW ctx, NEW n \in Nat
  PROVE  \E f : Inits(f, ctx, n)
<1>1. PICK T : T = {k \in Nat : \E f : Inits(f, ctx, k)}
  OBVIOUS
<1>2. ASSUME NEW b, NEW c PROVE InitLevel(0, ctx, b) = InitLevel(0, ctx, c)
  BY ChildrenSets DEF InitLevel
<1>3. 0 \in T
  <2>1. PICK f : f = [d \in 0..0 |-> InitLevel(0, ctx, {})]
    OBVIOUS
  <2>2. ASSUME NEW d \in 0..0 PROVE f[d] = InitLevel(d, ctx, f[d - 1])
    <3>1. d = 0
      OBVIOUS
    <3>2. f[0] = InitLevel(0, ctx, {})
      BY <2>1, 0 \in 0..0
    <3>3. f[0] = InitLevel(0, ctx, f[0 - 1])
      BY <1>2, <3>2, Zenon
    <3> QED
      BY <3>1, <3>3, Zenon
  <2>3. f = [d \in 0..0 |-> InitLevel(d, ctx, f[d - 1])]
    BY <2>1, <2>2
  <2>4. Inits(f, ctx, 0)
    BY <2>3, Zenon DEF Inits
  <2> QED
    BY <1>1, <2>4
<1>4. ASSUME NEW k \in Nat, k \in T PROVE k + 1 \in T
  <2>1. PICK f : Inits(f, ctx, k)
    BY <1>1, <1>4
  <2>2. \A d \in 0..k : f[d] = InitLevel(d, ctx, f[d - 1])
    BY <2>1, Zenon DEF Inits
  <2>3. PICK deepest : deepest = InitLevel(k + 1, ctx, f[k])
    OBVIOUS
  <2>4. PICK g : g = [d \in 0..(k + 1) |-> IF d = k + 1 THEN deepest ELSE f[d]]
    OBVIOUS
  <2>5. ASSUME NEW d \in 0..(k + 1) PROVE g[d] = InitLevel(d, ctx, g[d - 1])
    <3>1. CASE d = k + 1
      <4>1. d - 1 = k /\ k \in 0..(k + 1) /\ k # k + 1
        BY <3>1
      <4>2. g[d - 1] = f[k] /\ g[d] = deepest
        BY <2>4, <3>1, <4>1
      <4> QED
        BY <2>3, <3>1, <4>2, Zenon
    <3>2. CASE d = 0
      <4>1. g[0] = f[0] /\ 0 \in 0..k
        BY <2>4
      <4>2. g[0] = InitLevel(0, ctx, f[0 - 1])
        BY <2>2, <4>1, Zenon
      <4>3. g[0] = InitLevel(0, ctx, g[0 - 1])
        BY <1>2, <4>2, Zenon
      <4> QED
        BY <3>2, <4>3, Zenon
    <3>3. CASE d # 0 /\ d # k + 1
      <4>1. d \in 0..k /\ g[d] = f[d] /\ d - 1 \in 0..(k + 1) /\ d - 1 # k + 1
        BY <2>4, <3>3
      <4>2. g[d - 1] = f[d - 1]
        BY <2>4, <4>1
      <4> QED
        BY <2>2, <4>1, <4>2, Zenon
    <3> QED
      BY <3>1, <3>2, <3>3
  <2>6. g = [d \in 0..(k + 1) |-> InitLevel(d, ctx, g[d - 1])]
    BY <2>4, <2>5
  <2>7. Inits(g, ctx, k + 1)
    BY <2>6, Zenon DEF Inits
  <2> QED
    BY <1>1, <2>7
<1>5. Nat \subseteq T
  BY <1>3, <1>4, Induct
<1> QED
  BY <1>1, <1>5

LEMMA DescribedBy ==
  ASSUME NEW makes, NEW ctx
  PROVE  \E f : /\ Describes(f, makes, ctx, MaxDepth)
                /\ \A nodes : Described(nodes, makes, ctx) = f[MaxDepth][nodes]
<1>1. \E f : Describes(f, makes, ctx, MaxDepth)
  BY EffectListAssumption, DescribesExist
<1>2. PICK c : c = CHOOSE f : f = [d \in 0..MaxDepth |->
        [list \in Lists[d] |->
           [n \in DOMAIN Known(list, makes) |->
              [id |-> Known(list, makes)[n].id, context |-> ctx,
               kids |-> IF Known(list, makes)[n].id = "list"
                        THEN f[d - 1][Known(list, makes)[n].kids] ELSE <<>>]]]]
  OBVIOUS
<1>3. Describes(c, makes, ctx, MaxDepth)
  BY <1>1, <1>2, ZenonT(30) DEF Describes, DescribedLevel
<1>4. \A nodes : Described(nodes, makes, ctx) = c[MaxDepth][nodes]
  BY <1>2, Zenon DEF Described
<1> QED
  BY <1>3, <1>4

\* A list that is not initialised yet is one in no context.
LEMMA RebuiltIs == \A nodes, makes : Rebuilt(nodes, makes) = Described(nodes, makes, NoContext)
BY Zenon DEF Rebuilt, Described

LEMMA InitedBy ==
  ASSUME NEW ctx
  PROVE  \E f : /\ Inits(f, ctx, MaxDepth)
                /\ \A kids : InitAll(kids, ctx) = f[MaxDepth][kids]
<1>1. \E f : Inits(f, ctx, MaxDepth)
  BY EffectListAssumption, InitsExist
<1>2. PICK c : c = CHOOSE f : f = [d \in 0..MaxDepth |->
        [list \in Children[d] |->
           [n \in DOMAIN list |->
              [id |-> list[n].id, context |-> ctx, kids |-> f[d - 1][list[n].kids]]]]]
  OBVIOUS
<1>3. Inits(c, ctx, MaxDepth)
  BY <1>1, <1>2, ZenonT(30) DEF Inits, InitLevel
<1>4. \A kids : InitAll(kids, ctx) = c[MaxDepth][kids]
  BY <1>2, Zenon DEF InitAll
<1> QED
  BY <1>3, <1>4

\* A node that has children is not at the bottom.
LEMMA NodeAt ==
  ASSUME NEW d \in 1..MaxDepth, NEW list \in Lists[d], NEW makes,
         NEW n \in DOMAIN Known(list, makes)
  PROVE  LET node == Known(list, makes)[n]
         IN  /\ d - 1 \in 1..MaxDepth
             /\ node.id \in STRING /\ node.kids \in Lists[d - 1]
<1>1. PICK S : S = [id : STRING, kids : Lists[d - 1]]
  OBVIOUS
<1>2. list \in Seq(S)
  BY <1>1, ListsAre
<1>3. Known(list, makes) \in Seq(S)
  BY <1>2, KnownIn
<1>4. Known(list, makes)[n] \in S
  BY <1>3
<1>5. /\ Known(list, makes)[n].id \in STRING
      /\ Known(list, makes)[n].kids \in Lists[d - 1]
  BY <1>1, <1>4
<1>6. d - 1 # 0
  BY <1>5, ListsAre
<1>7. d - 1 \in 1..MaxDepth
  BY <1>6, EffectListAssumption
<1> QED
  BY <1>5, <1>7

LEMMA KnownDomain ==
  ASSUME NEW d \in 1..MaxDepth, NEW list \in Lists[d], NEW makes
  PROVE  \E k \in Nat : DOMAIN Known(list, makes) = 1..k
<1>1. PICK S : S = [id : STRING, kids : Lists[d - 1]]
  OBVIOUS
<1>2. Known(list, makes) \in Seq(S)
  BY <1>1, ListsAre, KnownIn
<1> QED
  BY <1>2, LenProperties

\* No children at any depth.
LEMMA NoChildren ==
  ASSUME NEW d \in 1..MaxDepth
  PROVE  /\ <<>> \in Lists[d] /\ <<>> \in Children[d]
         /\ \A f, ctx : Inits(f, ctx, MaxDepth) => f[d][<<>>] = <<>>
         /\ \A f, makes, ctx : Describes(f, makes, ctx, MaxDepth) => f[d][<<>>] = <<>>
<1>1. <<>> \in Lists[d] /\ <<>> \in Children[d]
  <2>1. PICK S, C : Lists[d] = Seq(S) /\ Children[d] = Seq(C)
    BY ListsAre, ChildrenSets, Zenon
  <2> QED
    BY <2>1
<1>2. d \in 0..MaxDepth
  BY EffectListAssumption
<1>3. ASSUME NEW f, NEW ctx, Inits(f, ctx, MaxDepth) PROVE f[d][<<>>] = <<>>
  <2>1. f[d] = InitLevel(d, ctx, f[d - 1])
    BY <1>2, <1>3, Zenon DEF Inits
  <2> QED
    BY <1>1, <2>1 DEF InitLevel
<1>4. ASSUME NEW f, NEW makes, NEW ctx, Describes(f, makes, ctx, MaxDepth)
      PROVE  f[d][<<>>] = <<>>
  <2>1. f[d] = DescribedLevel(d, makes, ctx, f[d - 1])
    BY <1>2, <1>4, Zenon DEF Describes
  <2>2. Known(<<>>, makes) \in Seq({})
    BY <<>> \in Seq({}), KnownIn, Zenon
  <2>3. DOMAIN Known(<<>>, makes) = {}
    BY <2>2
  <2> QED
    BY <1>1, <2>1, <2>3 DEF DescribedLevel
<1> QED
  BY <1>1, <1>3, <1>4, Zenon

\* What init makes of the children that a list asks for are the children that it asks
\* for in the context of now, at every depth.
LEMMA InitOfDescribed ==
  ASSUME NEW makes, NEW c1 \in Contexts \cup {NoContext}, NEW c2,
         NEW F, Describes(F, makes, c1, MaxDepth),
         NEW G, Describes(G, makes, c2, MaxDepth),
         NEW I, Inits(I, c2, MaxDepth)
  PROVE  \A d \in 0..MaxDepth :
           \A list \in Lists[d] : F[d][list] \in Children[d] /\ I[d][F[d][list]] = G[d][list]
<1>1. MaxDepth \in Nat
  BY EffectListAssumption
<1>2. PICK T : T = {d \in Nat : d \in 0..MaxDepth =>
                     \A list \in Lists[d] : /\ F[d][list] \in Children[d]
                                            /\ I[d][F[d][list]] = G[d][list]}
  OBVIOUS
<1>3. 0 \in T
  BY <1>2, ListsAre
<1>4. ASSUME NEW k \in Nat, k \in T PROVE k + 1 \in T
  <2>1. ASSUME k + 1 \in 0..MaxDepth, NEW list \in Lists[k + 1]
        PROVE  F[k + 1][list] \in Children[k + 1] /\ I[k + 1][F[k + 1][list]] = G[k + 1][list]
    <3>1. PICK d : d = k + 1
      OBVIOUS
    <3>2. d \in 1..MaxDepth /\ d \in 0..MaxDepth /\ d - 1 = k /\ k \in 0..MaxDepth
      BY <1>1, <2>1, <3>1
    <3>3. /\ F[d] = DescribedLevel(d, makes, c1, F[k])
          /\ G[d] = DescribedLevel(d, makes, c2, G[k])
          /\ I[d] = InitLevel(d, c2, I[k])
      BY <3>2, Zenon DEF Describes, Inits
    <3>4. PICK known : known = Known(list, makes)
      OBVIOUS
    <3>5. /\ F[d][list] = [n \in DOMAIN known |->
                             [id |-> known[n].id, context |-> c1,
                              kids |-> IF known[n].id = "list" THEN F[k][known[n].kids] ELSE <<>>]]
          /\ G[d][list] = [n \in DOMAIN known |->
                             [id |-> known[n].id, context |-> c2,
                              kids |-> IF known[n].id = "list" THEN G[k][known[n].kids] ELSE <<>>]]
      <4>1. list \in Lists[d]
        BY <2>1, <3>1
      <4>2. /\ F[d][list] = DescribedLevel(d, makes, c1, F[k])[list]
            /\ G[d][list] = DescribedLevel(d, makes, c2, G[k])[list]
        BY <3>3, Zenon
      <4> QED
        BY <3>4, <4>1, <4>2 DEF DescribedLevel
    <3>6. ASSUME NEW n \in DOMAIN known
          PROVE  /\ k \in 1..MaxDepth /\ known[n].id \in STRING
                 /\ F[k][known[n].kids] \in Children[k]
                 /\ I[k][F[k][known[n].kids]] = G[k][known[n].kids]
                 /\ <<>> \in Children[k] /\ I[k][<<>>] = <<>>
      <4>1. /\ k \in 1..MaxDepth /\ known[n].id \in STRING
            /\ known[n].kids \in Lists[k]
        BY <2>1, <3>1, <3>2, <3>4, NodeAt
      <4>2. \A below \in Lists[k] : /\ F[k][below] \in Children[k]
                                    /\ I[k][F[k][below]] = G[k][below]
        BY <1>2, <1>4, <3>2
      <4> QED
        BY <4>1, <4>2, NoChildren, Zenon
    <3>7. PICK made : made = F[d][list]
      OBVIOUS
    <3>8. ASSUME NEW n \in DOMAIN known
          PROVE  /\ made[n].id = known[n].id /\ made[n].context = c1
                 /\ made[n].kids = IF known[n].id = "list" THEN F[k][known[n].kids] ELSE <<>>
                 /\ made[n] \in [id : STRING, context : Contexts \cup {NoContext},
                                 kids : Children[k]]
      BY <3>5, <3>6, <3>7
    <3>9. made \in Children[d]
      <4>1. PICK m \in Nat : DOMAIN known = 1..m
        BY <2>1, <3>1, <3>2, <3>4, KnownDomain
      <4>2. made = [n \in 1..m |-> made[n]]
        BY <3>5, <3>7, <4>1
      <4>3. PICK C : C = [id : STRING, context : Contexts \cup {NoContext}, kids : Children[k]]
        OBVIOUS
      <4>4. \A n \in 1..m : made[n] \in C
        BY <3>8, <4>1, <4>3, Zenon
      <4>5. made \in [1..m -> C]
        BY <4>2, <4>4
      <4>6. made \in Seq(C)
        BY <4>5, SeqDef
      <4> QED
        BY <3>2, <4>3, <4>6, ChildrenSets
    <3>10. I[d][made] = [n \in DOMAIN known |->
                           [id |-> made[n].id, context |-> c2, kids |-> I[k][made[n].kids]]]
      <4>1. DOMAIN made = DOMAIN known
        BY <3>5, <3>7
      <4> QED
        BY <3>3, <3>9, <4>1, Zenon DEF InitLevel
    <3>11. ASSUME NEW n \in DOMAIN known
           PROVE  I[k][made[n].kids]
                    = IF known[n].id = "list" THEN G[k][known[n].kids] ELSE <<>>
      BY <3>6, <3>8
    <3>12. I[d][made] = G[d][list]
      BY <3>5, <3>8, <3>10, <3>11
    <3> QED
      BY <3>1, <3>7, <3>9, <3>12
  <2> QED
    BY <1>2, <2>1
<1>5. Nat \subseteq T
  BY <1>3, <1>4, Induct
<1> QED
  BY <1>1, <1>2, <1>5

\* Initialised again, a list has the children it asks for in the new context.
LEMMA InitAgain ==
  ASSUME NEW nodes \in Lists[MaxDepth], NEW makes, NEW c1 \in Contexts \cup {NoContext}, NEW c2
  PROVE  /\ Described(nodes, makes, c1) \in Children[MaxDepth]
         /\ InitAll(Described(nodes, makes, c1), c2) = Described(nodes, makes, c2)
<1>1. PICK F : /\ Describes(F, makes, c1, MaxDepth)
               /\ \A ns : Described(ns, makes, c1) = F[MaxDepth][ns]
  BY DescribedBy
<1>2. PICK G : /\ Describes(G, makes, c2, MaxDepth)
               /\ \A ns : Described(ns, makes, c2) = G[MaxDepth][ns]
  BY DescribedBy
<1>3. PICK I : Inits(I, c2, MaxDepth) /\ \A kids : InitAll(kids, c2) = I[MaxDepth][kids]
  BY InitedBy
<1>4. MaxDepth \in 0..MaxDepth
  BY EffectListAssumption
<1>5. /\ F[MaxDepth][nodes] \in Children[MaxDepth]
      /\ I[MaxDepth][F[MaxDepth][nodes]] = G[MaxDepth][nodes]
  <2>1. /\ Describes(F, makes, c1, MaxDepth) /\ Describes(G, makes, c2, MaxDepth)
        /\ Inits(I, c2, MaxDepth)
    BY <1>1, <1>2, <1>3, Zenon
  <2>2. \A d \in 0..MaxDepth :
          \A list \in Lists[d] : F[d][list] \in Children[d] /\ I[d][F[d][list]] = G[d][list]
    BY <2>1, InitOfDescribed
  <2> QED
    BY <2>2, <1>4, Zenon
<1> QED
  BY <1>1, <1>2, <1>3, <1>5, Zenon

\* Children that are made anew are those that the list asks for.
LEMMA MadeAnew ==
  ASSUME NEW nodes \in Lists[MaxDepth], NEW makes, context \in Contexts \cup {NoContext}
  PROVE  ChildrenFor(nodes, makes) = Described(nodes, makes, context)
<1>1. Rebuilt(nodes, makes) = Described(nodes, makes, NoContext)
  BY RebuiltIs
<1>2. InitAll(Described(nodes, makes, NoContext), context) = Described(nodes, makes, context)
  BY InitAgain, NoContext \in Contexts \cup {NoContext}, Zenon
<1> QED
  BY <1>1, <1>2, Zenon DEF ChildrenFor

\* An empty list asks for none.
LEMMA NothingAsked == \A makes, ctx : Described(<<>>, makes, ctx) = <<>>
<1>1. ASSUME NEW makes, NEW ctx PROVE Described(<<>>, makes, ctx) = <<>>
  <2>1. PICK f : /\ Describes(f, makes, ctx, MaxDepth)
                 /\ \A nodes : Described(nodes, makes, ctx) = f[MaxDepth][nodes]
    BY DescribedBy
  <2>2. MaxDepth \in 1..MaxDepth
    BY EffectListAssumption
  <2> QED
    BY <2>1, <2>2, NoChildren, Zenon
<1> QED
  BY <1>1

ListInv == EffectListTypeOK /\ ChildrenAreConfigured

LEMMA ListInvInit == EffectListInit => ListInv
<1>1. SUFFICES ASSUME EffectListInit PROVE ListInv
  OBVIOUS
<1>2. MaxDepth \in 1..MaxDepth
  BY EffectListAssumption
<1>3. <<>> \in Lists[MaxDepth] /\ <<>> \in Children[MaxDepth]
  BY <1>2, NoChildren, Zenon
<1> QED
  BY <1>1, <1>3, NothingAsked
     DEF EffectListInit, ListInv, EffectListTypeOK, ChildrenAreConfigured, NoFactory

LEMMA ListInvStep == ListInv /\ [EffectListNext]_effectListVars => ListInv'
<1>1. SUFFICES ASSUME ListInv, [EffectListNext]_effectListVars PROVE ListInv'
  OBVIOUS
<1>2. /\ tree \in Lists[MaxDepth] /\ factory \in SUBSET STRING
      /\ context \in Contexts \cup {NoContext} /\ children \in Children[MaxDepth]
      /\ children = Described(tree, factory, context)
  BY <1>1 DEF ListInv, EffectListTypeOK, ChildrenAreConfigured
<1>3. MaxDepth \in 1..MaxDepth
  BY EffectListAssumption
<1>4. <<>> \in Lists[MaxDepth] /\ <<>> \in Children[MaxDepth]
  BY <1>3, NoChildren, Zenon
<1>5. SUFFICES /\ tree' \in Lists[MaxDepth] /\ factory' \in SUBSET STRING
               /\ context' \in Contexts \cup {NoContext}
               /\ children' = Described(tree', factory', context')
  <2>1. ASSUME tree' \in Lists[MaxDepth], context' \in Contexts \cup {NoContext},
               children' = Described(tree', factory', context')
        PROVE  children' \in Children[MaxDepth]
    BY <2>1, InitAgain, Zenon
  <2> QED
    BY <2>1, Zenon DEF ListInv, EffectListTypeOK, ChildrenAreConfigured
<1>6. ASSUME NEW f \in Factories \cup {NoFactory}, SetFactory(f)
      PROVE  /\ tree' \in Lists[MaxDepth] /\ factory' \in SUBSET STRING
             /\ context' \in Contexts \cup {NoContext}
             /\ children' = Described(tree', factory', context')
  <2>1. f \in SUBSET STRING
    BY <1>6, EffectListAssumption DEF NoFactory
  <2>2. tree' = tree /\ context' = context /\ factory' = f
    BY <1>6 DEF SetFactory
  <2>3. CASE tree # <<>>
    <3>1. children' = ChildrenFor(tree, f)
      BY <1>6, <2>3 DEF SetFactory
    <3> QED
      BY <1>2, <2>1, <2>2, <3>1, MadeAnew
  <2>4. CASE tree = <<>>
    <3>1. children' = children
      BY <1>6, <2>4 DEF SetFactory
    <3>2. children = <<>> /\ Described(tree', factory', context') = <<>>
      BY <1>2, <2>2, <2>4, NothingAsked
    <3> QED
      BY <1>2, <2>1, <2>2, <3>1, <3>2
  <2> QED
    BY <2>3, <2>4
<1>7. ASSUME NEW ctx \in Contexts, Initialise(ctx)
      PROVE  /\ tree' \in Lists[MaxDepth] /\ factory' \in SUBSET STRING
             /\ context' \in Contexts \cup {NoContext}
             /\ children' = Described(tree', factory', context')
  <2>1. tree' = tree /\ factory' = factory /\ context' = ctx /\ children' = InitAll(children, ctx)
    BY <1>7 DEF Initialise
  <2>2. InitAll(Described(tree, factory, context), ctx) = Described(tree, factory, ctx)
    BY <1>2, InitAgain, Zenon
  <2> QED
    BY <1>2, <2>1, <2>2
<1>8. ASSUME NEW text \in Texts, SetConfig(text)
      PROVE  /\ tree' \in Lists[MaxDepth] /\ factory' \in SUBSET STRING
             /\ context' \in Contexts \cup {NoContext}
             /\ children' = Described(tree', factory', context')
  <2>1. factory' = factory /\ context' = context
    BY <1>8 DEF SetConfig
  <2>2. PICK parsed : parsed = Parse(text.tokens)
    OBVIOUS
  <2>3. parsed.value \in Lists[MaxDepth]
    BY <2>2, EffectListAssumption
  <2>4. CASE text.tokens # <<>> /\ ~parsed.ok
    <3>1. tree' = <<>> /\ children' = <<>>
      BY <1>8, <2>2, <2>4 DEF SetConfig
    <3> QED
      BY <1>2, <1>4, <2>1, <3>1, NothingAsked
  <2>5. CASE ~(text.tokens # <<>> /\ ~parsed.ok)
    <3>1. tree' = parsed.value /\ children' = ChildrenFor(parsed.value, factory)
      BY <1>8, <2>2, <2>5 DEF SetConfig
    <3>2. ChildrenFor(parsed.value, factory) = Described(parsed.value, factory, context)
      BY <1>2, <2>3, MadeAnew
    <3> QED
      BY <1>2, <2>1, <2>3, <3>1, <3>2
  <2> QED
    BY <2>4, <2>5
<1>9. CASE UNCHANGED effectListVars
  BY <1>2, <1>9 DEF effectListVars
<1> QED
  BY <1>1, <1>6, <1>7, <1>8, <1>9, Zenon DEF EffectListNext

\* Lists and children nest no deeper than the texts, and every child is one that can be.
THEOREM EffectListTypes == EffectListSpec => []EffectListTypeOK
<1>1. ListInv => EffectListTypeOK
  BY DEF ListInv
<1> QED
  BY <1>1, ListInvInit, ListInvStep, PTL DEF EffectListSpec

\* For every set of texts, however deep their lists nest, every set of factories and of
\* contexts, and in whatever order text, factory and context are set, the children at
\* every depth are those that the list asks for, made by the last factory and
\* initialised with the last context.
THEOREM ChildrenAreAsConfigured == EffectListSpec => []ChildrenAreConfigured
<1>1. ListInv => ChildrenAreConfigured
  BY DEF ListInv
<1> QED
  BY <1>1, ListInvInit, ListInvStep, PTL DEF EffectListSpec

================================================================================
