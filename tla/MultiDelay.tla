------------------------------- MODULE MultiDelay -------------------------------
(***************************************************************************)
(* The effect "Multi Delay" (trans/effect_multi_delay.cpp).  All instances *)
(* of a process share one state: some instances store the frame they get   *)
(* in a shared ring, others replace theirs by the one stored a delay ago.  *)
(* The first instance rendered with a new frame index advances the rings   *)
(* for all.  The delay of a ring is fixed or the frames between beats.     *)
(*                                                                         *)
(* What a Store writes is named by the number of the frame it is done in,  *)
(* counting the frames the shared state has begun; Black is zeroed memory. *)
(***************************************************************************)
EXTENDS Integers, FiniteSets

CONSTANTS
  Instances,      \* effects that may exist
  Rings,          \* kBufferCount
  RingHistoryMax, \* kMaxHistoryFrames
  RingConfigs,    \* [Rings -> [useBeat, delay]]: the configurations presets ask for
  Resolutions,    \* sizes of the framebuffer; 0 is one without pixels
  MaxFrameIndex   \* bound: frames of the renderer, frames begun

ASSUME MultiDelayAssumption ==
  /\ RingHistoryMax \in Nat /\ MaxFrameIndex \in Nat
  /\ RingConfigs \subseteq [Rings -> [useBeat : BOOLEAN, delay : 0..RingHistoryMax]]
  /\ Resolutions \subseteq Nat

VARIABLES
  context,  \* RenderContext: [frameIndex, size, beat], the same for all effects of a frame
  alive,    \* the instances that exist
  configs,  \* configs_
  rings,    \* buffers_: [stride, count, read, write, slots]
  shared,   \* [dirty, haveFrame, lastFrame, lastSize, since, perBeat]
  begun,    \* history: frames begun
  changed,  \* history: ring -> the first frame begun with its present number of frames
  emptied,  \* history: the frame in which all rings were last emptied
  stores,   \* history: ring -> frames in which it was stored to since it was emptied
  fetched   \* history: the last fetch, [ring, frame, value]

multiDelayVars ==
  <<context, alive, configs, rings, shared, begun, changed, emptied, stores, fetched>>

NoFrame  == 0
NoRing   == [stride |-> 0, count |-> 0, read |-> 0, write |-> 0, slots |-> [i \in {} |-> NoFrame]]
NoConfig == [useBeat |-> FALSE, delay |-> 0]
NoFetch  == [ring |-> CHOOSE r \in Rings : TRUE, frame |-> 0, value |-> NoFrame]

Fresh == [dirty |-> FALSE, haveFrame |-> FALSE, lastFrame |-> -1, lastSize |-> 0,
          since |-> 0, perBeat |-> 0]

AtMost(a, b) == IF a < b THEN a ELSE b

MultiDelayInit ==
  /\ context = [frameIndex |-> 0, size |-> 0, beat |-> FALSE]
  /\ alive   = {}
  /\ configs = [r \in Rings |-> NoConfig]
  /\ rings   = [r \in Rings |-> NoRing]
  /\ shared  = Fresh
  /\ begun   = 0
  /\ changed = [r \in Rings |-> 0]
  /\ emptied = 0
  /\ stores  = [r \in Rings |-> {}]
  /\ fetched = NoFetch

-------------------------------------------------------------------------------
\* The renderer starts its next frame, or the window changes within a frame.
NewContext(size, onBeat) ==
  /\ context.frameIndex < MaxFrameIndex
  /\ context' = [frameIndex |-> context.frameIndex + 1, size |-> size, beat |-> onBeat]
  /\ UNCHANGED <<alive, configs, rings, shared, begun, changed, emptied, stores, fetched>>

SameFrame(size) ==
  /\ context' = [context EXCEPT !.size = size]
  /\ UNCHANGED <<alive, configs, rings, shared, begun, changed, emptied, stores, fetched>>

AddInstance(e) ==
  /\ e \notin alive
  /\ alive' = alive \cup {e}
  /\ UNCHANGED <<context, configs, rings, shared, begun, changed, emptied, stores, fetched>>

\* mutant: the rings outlive the last instance
RemoveInstanceOnly(e) ==
  /\ e \in alive
  /\ alive' = alive \ {e}
  /\ emptied' = IF alive = {e} THEN begun ELSE emptied
  /\ stores'  = IF alive = {e} THEN [r \in Rings |-> {}] ELSE stores
  /\ fetched' = NoFetch
  /\ UNCHANGED <<context, configs, rings, shared, begun, changed>>

\* The last instance resets the shared state.
RemoveInstance(e) ==
  /\ e \in alive
  /\ alive' = alive \ {e}
  /\ IF alive = {e}
       THEN /\ configs' = [r \in Rings |-> NoConfig]
            /\ rings'   = [r \in Rings |-> NoRing]
            /\ shared'  = Fresh
            /\ emptied' = begun
            /\ stores'  = [r \in Rings |-> {}]
       ELSE UNCHANGED <<configs, rings, shared, emptied, stores>>
  /\ fetched' = NoFetch
  /\ UNCHANGED <<context, begun, changed>>

\* applyParams, by any instance
ApplyParams(wanted) ==
  /\ alive # {}
  /\ configs' = wanted
  /\ shared'  = [shared EXCEPT !.dirty = shared.dirty \/ wanted # configs]
  /\ UNCHANGED <<context, alive, rings, begun, changed, emptied, stores, fetched>>

-------------------------------------------------------------------------------
Advanced(b) ==
  IF b.count <= 1 \/ b.stride = 0 THEN b
  ELSE [b EXCEPT !.read = (b.read + 1) % b.count, !.write = (b.write + 1) % b.count]

\* configureBuffer: unless it is forced a ring that changes its length keeps
\* its frames, from the one due next.
Configured(b, stride, count, force) ==
  IF stride = 0 \/ count <= 1
    THEN [NoRing EXCEPT !.stride = stride, !.count = count, !.write = count - 1]
  ELSE IF ~force /\ b.stride = stride /\ b.count = count THEN b
  ELSE [stride |-> stride, count |-> count, read |-> 0, write |-> count - 1,
        slots |-> [i \in 0..(count - 1) |->
                     IF ~force /\ b.stride > 0 /\ b.count > 1 /\ i < b.count
                       THEN b.slots[(b.read + i) % b.count] ELSE NoFrame]]

\* updateBeatCounters
Counted(s, onBeat) ==
  [s EXCEPT !.perBeat = IF onBeat THEN AtMost(s.since, RingHistoryMax) ELSE s.perBeat,
            !.since   = AtMost((IF onBeat THEN 0 ELSE s.since) + 1, RingHistoryMax)]

Length(c, s) == 1 + AtMost(IF c.useBeat THEN s.perBeat ELSE c.delay, RingHistoryMax)

\* reconfigureBuffers: what beginFrame leaves behind
Reconfigured(old, s, force) ==
  [r \in Rings |-> Configured(old[r], context.size, Length(configs[r], s), force)]

\* mutant: every instance advances the rings
NewFrameAlways == TRUE

NewFrame == ~shared.haveFrame \/ context.frameIndex # shared.lastFrame

Resized  == context.size # shared.lastSize
Forced   == Resized \/ shared.dirty

\* beginFrame
SharedBegun ==
  IF NewFrame
    THEN Counted([shared EXCEPT !.haveFrame = TRUE, !.lastFrame = context.frameIndex,
                                !.lastSize = context.size, !.dirty = FALSE], context.beat)
    ELSE [shared EXCEPT !.lastSize = context.size, !.dirty = FALSE]

RingsBegun ==
  LET old == IF NewFrame /\ shared.haveFrame THEN [r \in Rings |-> Advanced(rings[r])] ELSE rings
  IN  IF NewFrame \/ Forced THEN Reconfigured(old, SharedBegun, Forced) ELSE old

\* One render of an instance: beginFrame, then its operation on one ring.
Usable(b) == b.count > 1 /\ b.stride > 0

Render(e, op, r) ==
  LET now == IF shared.haveFrame /\ context.frameIndex = shared.lastFrame
               THEN begun ELSE begun + 1
      b   == RingsBegun[r]
  IN  /\ e \in alive /\ now <= MaxFrameIndex
      /\ shared'  = SharedBegun
      /\ begun'   = now
      /\ changed' = [q \in Rings |-> IF Forced \/ RingsBegun[q].count # rings[q].count
                                       THEN now ELSE changed[q]]
      /\ emptied' = IF Forced THEN now ELSE emptied
      /\ rings'   = IF op = "store" /\ Usable(b)
                      THEN [RingsBegun EXCEPT ![r].slots[b.write] = now] ELSE RingsBegun
      /\ stores'  = [q \in Rings |->
                       (IF Forced THEN {} ELSE stores[q])
                       \cup (IF q = r /\ op = "store" /\ Usable(b) THEN {now} ELSE {})]
      /\ fetched' = IF op = "fetch" /\ Usable(b)
                      THEN [ring |-> r, frame |-> now, value |-> b.slots[b.read]] ELSE NoFetch
      /\ UNCHANGED <<context, alive, configs>>

MultiDelayNext ==
  \/ \E s \in Resolutions, b \in BOOLEAN : NewContext(s, b)
  \/ \E s \in Resolutions : SameFrame(s)
  \/ \E e \in Instances : AddInstance(e) \/ RemoveInstance(e)
  \/ \E c \in RingConfigs : ApplyParams(c)
  \/ \E e \in Instances, op \in {"store", "fetch", "pass"}, r \in Rings : Render(e, op, r)

MultiDelaySpec == MultiDelayInit /\ [][MultiDelayNext]_multiDelayVars

-------------------------------------------------------------------------------
\* Once a ring has had its length for as many frames as the delay, a fetch gives
\* what was stored exactly a delay ago, however many instances share the ring and
\* in whatever order they store and fetch; if nothing was stored then, it gives
\* what was there a whole turn of the ring, or several, before.
FetchedIsDelayed ==
  LET r     == fetched.ring
      delay == rings[r].count - 1
  IN  fetched.frame > 0 /\ changed[r] + delay <= fetched.frame =>
        LET due == {n \in stores[r] : n <= fetched.frame - delay /\ changed[r] <= n
                                      /\ (fetched.frame - delay - n) % (delay + 1) = 0}
        IN  due # {} => fetched.value = CHOOSE n \in due : \A m \in due : m <= n

\* What is fetched was stored after the rings were last emptied: by the last
\* instance, a change of size or a change of any configuration.
FetchedSinceEmptied ==
  fetched.frame > 0 =>
    fetched.value = NoFrame \/ (fetched.value >= emptied /\ fetched.value \in stores[fetched.ring])

===============================================================================
