------------------------------ MODULE Framebuffers ------------------------------
(***************************************************************************)
(* runtime::Framebuffers (avs-compat/src/runtime/framebuffers.cpp): two    *)
(* frames, the current and the previous one, slots that keep copies, and   *)
(* overlays painted on the frames to come.  Any operation may be called at *)
(* any time; beginFrame and finishFrame are the caller's to alternate.     *)
(*                                                                         *)
(* A picture is named by the number of the write it is the result of; 0 is *)
(* a frame of zeroes.  A size stands for a width and a height: its number  *)
(* is the height, 0 has no pixels.                                         *)
(***************************************************************************)
EXTENDS Naturals

CONSTANTS
  Heights,      \* sizes
  Slots,        \* BufferSlot
  Overlays,     \* OverlayChannel: the row it paints
  Durations,    \* durationFrames
  MaxPictures,  \* bound: writes
  MaxFinished   \* bound: frames finished

ASSUME FramebuffersAssumption ==
  /\ Heights \subseteq Nat /\ Overlays \subseteq Nat /\ Durations \subseteq Nat
  /\ MaxPictures \in Nat /\ MaxFinished \in Nat

VARIABLES
  picture,    \* buffers_: 0..1 -> picture
  height,     \* size of both
  current,    \* current_; previous_ is the other one
  hasData,    \* data() is not null: a frame once had pixels
  slots,      \* slots_, slotValid_: slot -> [valid, picture, height]
  overlays,   \* overlays_: overlay -> [remaining, duration]
  frameIndex, \* frameIndex_
  written,    \* history: writes so far
  active,     \* history: overlay -> [from, for]: activated in that frame, for so long
  painted     \* history: the overlays the last finishFrame painted

framebuffersVars == <<picture, height, current, hasData, slots, overlays, frameIndex,
                      written, active, painted>>
histories == <<active, painted>>

NoSlot    == [valid |-> FALSE, picture |-> 0, height |-> 0]
NoOverlay == [remaining |-> 0, duration |-> 0]
previous  == 1 - current

FramebuffersInit ==
  /\ height \in Heights
  /\ hasData = (height > 0)
  /\ picture = [b \in 0..1 |-> 0]
  /\ current = 0
  /\ slots = [s \in Slots |-> NoSlot]
  /\ overlays = [o \in Overlays |-> NoOverlay]
  /\ frameIndex = 0
  /\ written = 0
  /\ active = [o \in Overlays |-> [from |-> 0, for |-> 0]]
  /\ painted = {}

-------------------------------------------------------------------------------
\* resize: everything starts anew, even for the size it has.
FramebuffersResize(h) ==
  /\ picture'    = [b \in 0..1 |-> 0]
  /\ height'     = h
  /\ hasData'    = (hasData \/ h > 0)
  /\ current'    = 0
  /\ slots'      = [s \in Slots |-> NoSlot]
  /\ overlays'   = [o \in Overlays |-> NoOverlay]
  /\ frameIndex' = 0
  /\ active'     = [o \in Overlays |-> [from |-> 0, for |-> 0]]
  /\ painted'    = {}
  /\ UNCHANGED written

\* beginFrame: the last picture is the previous one and the start of the current.
BeginFrame ==
  /\ current' = previous
  /\ picture' = [picture EXCEPT ![previous] = picture[current]]
  /\ UNCHANGED <<height, hasData, slots, overlays, frameIndex, written, active, painted>>

\* clear, wrap, slideIn, slideOut, transition and the effects that write to the
\* current view: a new picture, from the current and the previous one.
DrawCurrent ==
  /\ hasData /\ height > 0 /\ written < MaxPictures
  /\ written' = written + 1
  /\ picture' = [picture EXCEPT ![current] = written + 1]
  /\ UNCHANGED <<height, hasData, current, slots, overlays, frameIndex, histories>>

\* clear with firstFrameOnly
ClearFirstFrame == frameIndex = 0 /\ DrawCurrent

Save(s) ==
  /\ slots' = [slots EXCEPT ![s] = IF hasData THEN [valid |-> TRUE, picture |-> picture[current], height |-> height]
                                   ELSE NoSlot]
  /\ UNCHANGED <<picture, height, current, hasData, overlays, frameIndex, written, active, painted>>

Restore(s) ==
  /\ hasData /\ slots[s].valid
  /\ IF slots[s].height = height
       THEN /\ picture' = [picture EXCEPT ![current] = slots[s].picture]
            /\ UNCHANGED slots
       ELSE /\ slots' = [slots EXCEPT ![s].valid = FALSE]
            /\ UNCHANGED picture
  /\ UNCHANGED <<height, current, hasData, overlays, frameIndex, written, histories>>

\* mutant: an activation does not shorten the one that is running
ActivateLonger(o, d) ==
  LET left == IF overlays[o].remaining > d THEN overlays[o].remaining ELSE d
  IN  /\ overlays' = [overlays EXCEPT ![o] = [remaining |-> left, duration |-> left]]
      /\ active' = [active EXCEPT ![o] = [from |-> frameIndex, for |-> d]]
      /\ UNCHANGED <<picture, height, current, hasData, slots, frameIndex, written, painted>>

ActivateOverlay(o, d) ==
  /\ overlays' = [overlays EXCEPT ![o] = [remaining |-> d, duration |-> d]]
  /\ active' = [active EXCEPT ![o] = [from |-> frameIndex, for |-> d]]
  /\ UNCHANGED <<picture, height, current, hasData, slots, frameIndex, written, painted>>

Lasting == {o \in Overlays : overlays[o].remaining > 0 /\ overlays[o].duration > 0}

\* An overlay counts down whether or not its row fits.
CountedDown(o) ==
  LET left == IF overlays[o].remaining > 0 THEN overlays[o].remaining - 1 ELSE 0
  IN  IF o \notin Lasting THEN overlays[o]
      ELSE [remaining |-> left, duration |-> IF left = 0 THEN 0 ELSE overlays[o].duration]

FinishFrame ==
  LET shown == IF hasData THEN {o \in Lasting : o < height} ELSE {}
  IN  /\ frameIndex < MaxFinished
      /\ shown # {} => written < MaxPictures
      /\ frameIndex' = frameIndex + 1
      /\ painted' = shown
      /\ overlays' = IF hasData THEN [o \in Overlays |-> CountedDown(o)] ELSE overlays
      /\ IF shown # {}
           THEN /\ written' = written + 1
                /\ picture' = [picture EXCEPT ![current] = written + 1]
           ELSE UNCHANGED <<written, picture>>
      /\ UNCHANGED <<height, current, hasData, slots, active>>

FramebuffersNext ==
  \/ \E h \in Heights : FramebuffersResize(h)
  \/ BeginFrame
  \/ DrawCurrent
  \/ ClearFirstFrame
  \/ \E s \in Slots : Save(s) \/ Restore(s)
  \/ \E o \in Overlays, d \in Durations : ActivateOverlay(o, d)
  \/ FinishFrame

FramebuffersSpec == FramebuffersInit /\ [][FramebuffersNext]_framebuffersVars

-------------------------------------------------------------------------------
\* An overlay is painted on exactly as many frames as it was last activated for,
\* from the next one to be finished on, unless its row does not fit; activating
\* it again starts it anew, and a resize ends it.
OverlaysLast ==
  [][frameIndex' = frameIndex + 1 =>
       painted' = {o \in Overlays : /\ hasData /\ o < height
                                    /\ frameIndex - active[o].from < active[o].for}]_framebuffersVars

===============================================================================
