------------------------------- MODULE Transition -------------------------------
(***************************************************************************)
(* The effect "Transition" (trans/effect_transition.cpp): two buffers A    *)
(* and B, of which each frame shows a part, A growing and B shrinking as   *)
(* the transition goes on.                                                 *)
(*                                                                         *)
(* A buffer is the set of the input frames its pixels come from.  What a   *)
(* mode draws is where each stretch of a row, or of rows, is copied from.  *)
(* The easing curve is a table in thousandths, extended as the sine is.    *)
(***************************************************************************)
EXTENDS Integers, Sequences, FiniteSets

CONSTANTS
  TransitionSizes,      \* width and height of frames, <<0, 0>> included
  TransitionDurations,  \* kDefaultTransitionDuration / speed
  Deltas,               \* deltaSeconds
  Steps, Eased,         \* smoothCurve at 0, 1/Steps, ..., 1
  Side,                 \* blocks to a side of the picture, 3 in the code
  MaxFrameNumber        \* bound: frameIndex

ASSUME TransitionAssumption ==
  /\ TransitionSizes \subseteq Nat \X Nat
  /\ TransitionDurations \subseteq Nat \ {0} /\ Deltas \subseteq Nat
  /\ Steps \in Nat \ {0} /\ Eased \in [0..Steps -> 0..1000]
  /\ Side \in Nat \ {0} /\ MaxFrameNumber \in Nat

VARIABLES
  fade,      \* the parameters: [enabled, mode, duration]
  started,   \* transitionStartTime_
  blocks,    \* the lower bits of blockMask_: the blocks that show A
  steps,     \* its upper bits: the steps that have added a block
  buffers,   \* [valid, size, a, b]: the two buffers
  number,    \* frameIndex
  drawn      \* history: what the last frame was drawn with

transitionVars == <<fade, started, blocks, steps, buffers, number, drawn>>

RowModes    == {"LeftRightPush", "RightLeftPush", "SplitLeftRightPush", "LeftRightToCenterPush",
                "LeftRightToCenterSqueeze", "LeftRightWipe", "RightLeftWipe"}
ColumnModes == {"TopBottomPush", "BottomTopPush", "TopBottomWipe", "BottomTopWipe"}
Modes       == RowModes \cup ColumnModes
               \cup {"Random", "CrossDissolve", "NineRandomBlocks", "DotDissolve"}

TransitionInit ==
  /\ fade    = [enabled |-> FALSE, mode |-> "Random", duration |-> 1]
  /\ started = 0
  /\ blocks  = {} /\ steps = {}
  /\ buffers = [valid |-> FALSE, size |-> <<0, 0>>, a |-> {}, b |-> {}]
  /\ number  = 0
  /\ drawn   = [mode |-> "none"]

\* smoothCurve: even, and periodic beyond the end of the transition
Smooth(progress) ==
  LET p == (IF progress < 0 THEN -progress ELSE progress) % (2 * Steps)
  IN  IF p <= Steps THEN Eased[p] ELSE Eased[2 * Steps - p]

-------------------------------------------------------------------------------
(* What a mode draws.  A strip [to, of, from, length, span] fills length pixels   *)
(* of a line, from to on, with span half pixels of a buffer, from from on.        *)

Strip(to, of, from, length) ==
  [to |-> to, of |-> of, from |-> from, length |-> length, span |-> 2 * length]

\* A moves in, or is uncovered, at the side of the lower coordinates.
PushUp(n, o)   == <<Strip(0, "A", n - o, o), Strip(o, "B", 0, n - o)>>
WipeUp(n, o)   == <<Strip(0, "A", 0, o),     Strip(o, "B", o, n - o)>>
\* The same at the other side.
PushDown(n, o) == <<Strip(0, "B", o, n - o), Strip(n - o, "A", 0, o)>>
WipeDown(n, o) == <<Strip(0, "B", 0, n - o), Strip(n - o, "A", n - o, o)>>
\* In the upper half, what is said to be pushed in is uncovered.
SplitUpper(n, o) == <<Strip(0, "B", o, n - o), Strip(n - o, "A", n - o, o)>>

\* mutant: the right half is taken from where the picture shows it
ToCenterShifted(n, o) ==
  <<Strip(0, "A", (n \div 2) - o, o), Strip(o, "B", o, n - 2 * o), Strip(n - o, "A", (n \div 2) + o, o)>>
ToCenter(n, o) ==
  <<Strip(0, "A", (n \div 2) - o, o), Strip(o, "B", o, n - 2 * o), Strip(n - o, "A", n \div 2, o)>>

Squeezed(n, o) ==
  <<[to |-> 0,     of |-> "A", from |-> 0,        length |-> o,         span |-> n],
    [to |-> o,     of |-> "B", from |-> 0,        length |-> n - 2 * o, span |-> 2 * n],
    [to |-> n - o, of |-> "A", from |-> n \div 2, length |-> o,         span |-> n]>>

\* The line of a mode at t thousandths; upper tells the halves of the split mode.
Line(mode, n, t, upper) ==
  CASE mode \in {"LeftRightPush", "TopBottomPush"} -> PushUp(n, (t * n) \div 1000)
    [] mode \in {"RightLeftPush", "BottomTopPush"} -> PushDown(n, (t * n) \div 1000)
    [] mode \in {"LeftRightWipe", "TopBottomWipe"} -> WipeUp(n, (t * n) \div 1000)
    [] mode \in {"RightLeftWipe", "BottomTopWipe"} -> WipeDown(n, (t * n) \div 1000)
    [] mode = "SplitLeftRightPush" -> IF upper THEN SplitUpper(n, (t * n) \div 1000)
                                      ELSE PushDown(n, (t * n) \div 1000)
    [] mode = "LeftRightToCenterPush"    -> ToCenter(n, (t * n) \div 2000)
    [] mode = "LeftRightToCenterSqueeze" -> Squeezed(n, (t * n) \div 2000)

Blocks == 0..(Side * Side - 1)

\* The columns, or rows, of the i-th blocks of a line; the last ones take the rest.
BlockRange(i, n) ==
  (i * (n \div Side))..(IF i = Side - 1 THEN n - 1 ELSE (i + 1) * (n \div Side) - 1)

InBlock(b, x, y, size) == x \in BlockRange(b % Side, size[1]) /\ y \in BlockRange(b \div Side, size[2])

\* renderDotDissolve: whether a pixel shows A
DotIsA(x, y, t) ==
  LET dot == IF (1000 - t) * 32 < 1000 THEN 1 ELSE ((1000 - t) * 32) \div 1000
  IN  ((y \div dot) % 2 = 0) # ((x \div dot) % 2 = 0)

\* The buffers of which the picture shows a part.
Shown(mode, size, t, revealed) ==
  LET Lines(n, halves) == UNION {{Line(mode, n, t, u)[i] : i \in 1..Len(Line(mode, n, t, u))} : u \in halves}
  IN  CASE mode \in RowModes     -> {s.of : s \in {r \in Lines(size[1], BOOLEAN) : r.length > 0}}
        [] mode \in ColumnModes  -> {s.of : s \in {r \in Lines(size[2], {TRUE}) : r.length > 0}}
        [] mode = "NineRandomBlocks" ->
             {IF \E b \in revealed : InBlock(b, x, y, size) THEN "A" ELSE "B" :
                x \in 0..(size[1] - 1), y \in 0..(size[2] - 1)}
        [] mode = "DotDissolve"  ->
             {IF DotIsA(x, y, t) THEN "A" ELSE "B" : x \in 0..(size[1] - 1), y \in 0..(size[2] - 1)}
        [] OTHER -> {"A", "B"}   \* Random is CrossDissolve: every pixel is a blend

-------------------------------------------------------------------------------
\* setParams: a mode that is not known leaves the mode as it is.
TransitionSetParams(mode, duration, enabled) ==
  /\ fade' = [enabled |-> enabled, mode |-> mode, duration |-> duration]
  /\ IF enabled /\ ~fade.enabled
       THEN started' = 0 /\ blocks' = {} /\ steps' = {}
       ELSE UNCHANGED <<started, blocks, steps>>
  /\ drawn' = [mode |-> "none"]
  /\ UNCHANGED <<buffers, number>>

\* prepareBuffers
Prepared(size) ==
  IF buffers.size = size THEN buffers
  ELSE [valid |-> TRUE, size |-> size, a |-> {number}, b |-> {number}]

\* renderNineRandomBlocks: the first frame of each step adds a block that does not
\* show A yet, found by trial; with none left the search would not end.
Revealed(t, shownBlocks, doneSteps) ==
  LET step == (t * Side * Side) \div 1000
  IN  IF step \notin doneSteps /\ step \in Blocks
        THEN {[blocks |-> shownBlocks \cup {b}, steps |-> doneSteps \cup {step}] :
                b \in Blocks \ shownBlocks}
        ELSE {[blocks |-> shownBlocks, steps |-> doneSteps]}

\* mutant: a transition that begins anew keeps the blocks of the last one
RestartedWithBlocks(over) ==
  [blocks |-> blocks, steps |-> IF over THEN {} ELSE steps]

\* A transition that is over begins anew with no block.
Restarted(over) ==
  [blocks |-> IF over THEN {} ELSE blocks, steps |-> IF over THEN {} ELSE steps]

\* The picture, not the frame it began with, is kept as B.
Kept(bufs, mode, t, revealed) ==
  UNION {IF s = "A" THEN bufs.a ELSE bufs.b : s \in Shown(mode, bufs.size, t, revealed)}

TransitionRender(size, delta) ==
  LET now      == number * delta
      begun    == IF started = 0 THEN now ELSE started
      over     == now - begun >= fade.duration
      progress == IF over THEN 0 ELSE ((now - begun) * Steps) \div fade.duration
      t        == Smooth(progress)
      prepared == Prepared(size)
      bufs     == IF over THEN [prepared EXCEPT !.a = prepared.b, !.b = prepared.a] ELSE prepared
      mask     == Restarted(over)
  IN  /\ number < MaxFrameNumber
      /\ number' = number + 1
      /\ UNCHANGED fade
      /\ IF ~fade.enabled \/ ~prepared.valid
           THEN UNCHANGED <<started, blocks, steps, buffers, drawn>>
           ELSE /\ started' = IF over THEN now ELSE begun
                /\ \E m \in IF fade.mode = "NineRandomBlocks"
                              THEN Revealed(t, mask.blocks, mask.steps) ELSE {mask} :
                     /\ blocks' = m.blocks /\ steps' = m.steps
                     /\ buffers' = [bufs EXCEPT !.b = Kept(bufs, fade.mode, t, m.blocks)]
                /\ drawn' = [mode |-> fade.mode, size |-> size, t |-> t]

TransitionNext ==
  \/ \E m \in Modes, d \in TransitionDurations, e \in BOOLEAN : TransitionSetParams(m, d, e)
  \/ \E s \in TransitionSizes, d \in Deltas : TransitionRender(s, d)

TransitionSpec == TransitionInit /\ [][TransitionNext]_transitionVars

-------------------------------------------------------------------------------
TransitionTypeOK ==
  /\ fade \in [enabled : BOOLEAN, mode : Modes, duration : {1} \cup TransitionDurations]
  /\ started \in Int
  /\ blocks \subseteq Blocks /\ steps \subseteq Blocks
  /\ number \in 0..MaxFrameNumber

\* The search of renderNineRandomBlocks for a block that does not show A yet ends:
\* whatever step is next and however the clock jumped, as long as a step has not
\* added its block there is one left.  The mask's own test for "no block left"
\* never holds, since the steps are counted in the same word.
BlockSearchEnds == \A step \in Blocks \ steps : Blocks \ blocks # {}

\* Strips laid end to end from one side of a line of n pixels to the other, copied
\* from inside the line.
Tiled(strips, n) ==
  /\ strips[1].to = 0
  /\ \A i \in 1..Len(strips) :
       /\ strips[i].length >= 0
       /\ strips[i].to + strips[i].length =
            IF i < Len(strips) THEN strips[i + 1].to ELSE n
       /\ \A x \in 0..(strips[i].length - 1) :
            strips[i].from + (x * strips[i].span) \div (2 * strips[i].length) \in 0..(n - 1)

\* The blocks of a line lie inside it, and each place of it is in just one of them.
Divided(n) ==
  /\ \A i \in 0..(Side - 1) : BlockRange(i, n) \subseteq 0..(n - 1)
  /\ \A x \in 0..(n - 1) : \E i \in 0..(Side - 1) :
       \A j \in 0..(Side - 1) : x \in BlockRange(j, n) <=> j = i

\* The modes compute the offsets and lengths of their copies each on its own.  At
\* every moment of the transition and for every size, odd ones too: a mode that moves
\* rows or columns draws each pixel exactly once, from inside a buffer; and the
\* blocks that NineRandomBlocks copies from A over B are inside the picture, each
\* pixel in just one of them, so that no pixel stays B when all show A.  (The modes
\* that dissolve are one loop over the pixels and have no copies to fit together.)
PictureTiled ==
  /\ drawn.mode \in RowModes =>
       \A upper \in BOOLEAN : Tiled(Line(drawn.mode, drawn.size[1], drawn.t, upper), drawn.size[1])
  /\ drawn.mode \in ColumnModes =>
       Tiled(Line(drawn.mode, drawn.size[2], drawn.t, TRUE), drawn.size[2])
  /\ drawn.mode = "NineRandomBlocks" => Divided(drawn.size[1]) /\ Divided(drawn.size[2])

\* "Animates between frames" (effect_transition.h:17): a transition that begins
\* where the last one ended, in the same size, is between two frames.
AnimatesBetweenFrames ==
  [][(number' > number /\ started # 0 /\ started' # started /\ buffers'.size = buffers.size)
       => buffers'.a # buffers'.b]_transitionVars

===============================================================================
