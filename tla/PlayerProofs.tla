------------------------------ MODULE PlayerProofs ------------------------------
(* The engine of the player implements one picture that goes through the      *)
(* chain, and its frame fits the window, for every chain and every size.      *)
EXTENDS Player, TLAPS

-------------------------------------------------------------------------------
(* The invariant. *)

Buffers == [size : Nat, pixels : Nat, content : Int]
Effects == [kind : {"plain", "scripted", "composite"}, kids : Nat, size : Nat,
            buffers : [0..1 -> Buffers]]

EngineTyped ==
  /\ fb \in [0..1 -> Buffers] /\ size \in Nat /\ cur \in 0..1
  /\ chain \in Seq(Effects)
  /\ in \in 0..1 /\ out = 1 - in
  /\ k \in Nat /\ child \in Nat /\ from \in {0, 1, Input} /\ bufferIndex \in 0..1

\* A step is at an effect of the chain or behind it, a composite at one of its children.
StageAgrees ==
  /\ stage \in {"idle", "effects", "children"}
  /\ stage = "effects" => k <= Len(chain)
  /\ stage = "children" => k < Len(chain) /\ Effect.kind = "composite" /\ child < Effect.kids

\* Both buffers and every effect have the engine's size.
OneSize ==
  /\ \A b \in 0..1 : fb[b].size = size /\ fb[b].pixels = size
  /\ \A e \in DOMAIN chain : chain[e].size = size

EngineInv == EngineTyped /\ StageAgrees /\ OneSize

\* From the resize to the blit the window is not asked again.
WindowAgrees ==
  /\ window \in Sizes
  /\ pc \in {"step", "stepping", "blit"} => window = size

\* The step of the abstract machine that an operation of the engine is.
PipeStep == Pipe!PipeNext \/ UNCHANGED Pipe!pipeVars

-------------------------------------------------------------------------------
(* The operations of the engine. *)

USE DEF Input

\* What init makes of a kind of effect, or of an effect.
LEMMA InitialisedIsEffect ==
  ASSUME NEW e, e.kind \in {"plain", "scripted", "composite"}, e.kids \in Nat, NEW s \in Nat
  PROVE  Initialised(e, s) \in Effects
<1>1. [b \in 0..1 |-> [size |-> s, pixels |-> s, content |-> Junk]] \in [0..1 -> Buffers]
  BY DEF Buffers, Junk
<1> QED
  BY <1>1 DEF Initialised, Effects

LEMMA SetChainKeeps ==
  ASSUME EngineInv, NEW kinds \in Chains, SetChain(kinds)
  PROVE  EngineInv' /\ PipeStep
<1>1. kinds \in Seq(Kinds) /\ size \in Nat
  BY EngineAssumption DEF EngineInv, EngineTyped
<1>2. /\ chain' \in Seq(Effects) /\ DOMAIN chain' = DOMAIN kinds
      /\ \A e \in DOMAIN chain' : chain'[e].size = size
  <2>1. \A e \in DOMAIN kinds : Initialised(kinds[e], size) \in Effects
    <3>1. ASSUME NEW e \in DOMAIN kinds PROVE kinds[e] \in Kinds
      BY <1>1
    <3> QED
      BY <1>1, <3>1, InitialisedIsEffect DEF Kinds
  <2>2. chain' = [e \in 1..Len(kinds) |-> Initialised(kinds[e], size)]
    BY <1>1 DEF SetChain
  <2> QED
    BY <1>1, <2>1, <2>2 DEF Initialised
<1>3. EngineInv'
  BY <1>2 DEF EngineInv, EngineTyped, StageAgrees, OneSize, SetChain, stepVars, Effect
<1>4. PipeStep
  <2>1. [e \in DOMAIN chain' |-> DrawsOf(chain'[e])] \in Seq(Nat)
    <3>1. ASSUME NEW e \in DOMAIN chain' PROVE DrawsOf(chain'[e]) \in Nat
      <4>1. chain'[e] \in Effects
        BY <1>2
      <4> QED
        BY <4>1 DEF DrawsOf, Effects
    <3>2. DOMAIN chain' = 1..Len(kinds) /\ Len(kinds) \in Nat
      BY <1>1, <1>2
    <3> QED
      BY <3>1, <3>2
  <2> QED
    BY <2>1 DEF PipeStep, Pipe!PipeNext, Pipe!NewChain, SetChain, stepVars, Picture, frame, DrawsOf
<1> QED
  BY <1>3, <1>4

LEMMA ResizeKeeps ==
  ASSUME EngineInv, NEW s \in Nat, Resize(s)
  PROVE  EngineInv' /\ PipeStep /\ size' = s
<1>1. CASE s = size
  BY <1>1 DEF EngineInv, EngineTyped, StageAgrees, OneSize, Resize, stepVars, Effect, PipeStep,
              Pipe!pipeVars, Picture, frame, Source
<1>2. CASE s # size
  <2>1. /\ chain' \in Seq(Effects) /\ DOMAIN chain' = DOMAIN chain
        /\ \A e \in DOMAIN chain : chain'[e].size = s /\ DrawsOf(chain'[e]) = DrawsOf(chain[e])
    <3>1. chain' = [e \in 1..Len(chain) |-> Initialised(chain[e], s)]
      BY <1>2 DEF Resize, EngineInv, EngineTyped
    <3>2. \A e \in 1..Len(chain) : Initialised(chain[e], s) \in Effects
      <4>1. ASSUME NEW e \in 1..Len(chain) PROVE chain[e] \in Effects
        BY DEF EngineInv, EngineTyped
      <4>2. ASSUME NEW e \in 1..Len(chain)
            PROVE  chain[e].kind \in {"plain", "scripted", "composite"} /\ chain[e].kids \in Nat
        BY <4>1 DEF Effects
      <4> QED
        BY <4>2, InitialisedIsEffect
    <3>3. Len(chain) \in Nat /\ DOMAIN chain = 1..Len(chain)
      BY DEF EngineInv, EngineTyped
    <3>4. chain' \in Seq(Effects) /\ DOMAIN chain' = 1..Len(chain)
      BY <3>1, <3>2, <3>3
    <3>5. ASSUME NEW e \in 1..Len(chain)
          PROVE  chain'[e].size = s /\ DrawsOf(chain'[e]) = DrawsOf(chain[e])
      <4>1. chain'[e] = Initialised(chain[e], s)
        BY <3>1
      <4> QED
        BY <4>1 DEF Initialised, DrawsOf
    <3> QED
      BY <3>3, <3>4, <3>5
  <2>2. fb' \in [0..1 -> Buffers]
        /\ \A b \in 0..1 : fb'[b].size = s /\ fb'[b].pixels = s /\ fb'[b].content = fb[b].content
    BY <1>2 DEF Resize, EngineInv, EngineTyped, Allocated, Buffers
  <2>3. EngineInv'
    BY <2>1, <2>2 DEF EngineInv, EngineTyped, StageAgrees, OneSize, Resize, stepVars
  <2>4. UNCHANGED Pipe!pipeVars
    BY <2>1, <2>2 DEF EngineInv, EngineTyped, Resize, stepVars, Pipe!pipeVars, Picture, frame
  <2> QED
    BY <2>3, <2>4 DEF Resize, PipeStep
<1> QED
  BY <1>1, <1>2

LEMMA StepBeginKeeps ==
  ASSUME EngineInv, StepBegin
  PROVE  EngineInv' /\ PipeStep
<1>1. /\ fb' \in [0..1 -> Buffers]
      /\ \A b \in 0..1 : fb'[b].size = size /\ fb'[b].pixels = size
      /\ fb'[cur].content = 0
  BY DEF EngineInv, EngineTyped, OneSize, StepBegin, Buffers
<1>2. EngineInv'
  BY <1>1 DEF EngineInv, EngineTyped, StageAgrees, OneSize, StepBegin
<1>3. Pipe!BeginPass
  BY <1>1 DEF Pipe!BeginPass, StepBegin, Picture, DrawsOf
<1> QED
  BY <1>2, <1>3 DEF PipeStep, Pipe!PipeNext

\* What the effect at the step's place is, for the steps that draw.
LEMMA EffectTyped ==
  ASSUME EngineInv, k < Len(chain)
  PROVE  /\ k + 1 \in DOMAIN chain /\ DOMAIN chain = 1..Len(chain)
         /\ Effect \in Effects /\ Effect.size = size
         /\ [e \in DOMAIN chain |-> DrawsOf(chain[e])][k + 1] = DrawsOf(Effect)
         /\ Len([e \in DOMAIN chain |-> DrawsOf(chain[e])]) = Len(chain)
BY DEF EngineInv, EngineTyped, OneSize, Effect

\* A draw of the whole effect into the buffer that is not read, and the swap.
LEMMA DrawKeeps ==
  ASSUME EngineInv, stage \in {"effects", "children"}, k < Len(chain), NEW c \in Int,
         fb' = [fb EXCEPT ![out] = [size |-> size, pixels |-> size, content |-> c]],
         Swap, stage' = "effects", UNCHANGED <<size, cur, chain, child, from, bufferIndex>>
  PROVE  /\ EngineInv' /\ Picture' = c
         /\ k' = k + 1
<1>1. /\ fb' \in [0..1 -> Buffers]
      /\ \A b \in 0..1 : fb'[b].size = size /\ fb'[b].pixels = size
      /\ fb'[out].content = c
  BY DEF EngineInv, EngineTyped, OneSize, Buffers
<1>2. EngineInv'
  BY <1>1 DEF EngineInv, EngineTyped, StageAgrees, OneSize, Swap, Effect
<1> QED
  BY <1>1, <1>2 DEF Picture, Swap

LEMMA ProcessPlainKeeps ==
  ASSUME EngineInv, ProcessPlain \/ ProcessScripted
  PROVE  EngineInv' /\ PipeStep
<1>1. /\ stage = "effects" /\ k < Len(chain) /\ DrawsOf(Effect) = 1
      /\ Swap /\ stage' = "effects" /\ UNCHANGED <<size, cur, chain, child, from, bufferIndex>>
  BY DEF ProcessPlain, ProcessScripted, Writing, DrawsOf
<1>2. fb' = [fb EXCEPT ![out] = [size |-> size, pixels |-> size, content |-> fb[in].content + 1]]
      /\ fb[in].content + 1 \in Int
  BY <1>1, EffectTyped DEF ProcessPlain, ProcessScripted, Drawn, EngineInv, EngineTyped, OneSize, Buffers
<1>3. EngineInv' /\ Picture' = fb[in].content + 1 /\ k' = k + 1
  BY <1>1, <1>2, DrawKeeps
<1>4. Pipe!Draw
  BY <1>1, <1>3, EffectTyped DEF Pipe!Draw, Pipe!Underway, Picture
<1> QED
  BY <1>3, <1>4 DEF PipeStep, Pipe!PipeNext

LEMMA ProcessEmptyKeeps ==
  ASSUME EngineInv, ProcessEmpty
  PROVE  EngineInv' /\ PipeStep
<1>1. /\ stage = "effects" /\ k < Len(chain) /\ DrawsOf(Effect) = 0
      /\ Swap /\ stage' = "effects" /\ UNCHANGED <<size, cur, chain, child, from, bufferIndex>>
  BY DEF ProcessEmpty, Writing, DrawsOf
<1>2. fb' = [fb EXCEPT ![out] = [size |-> size, pixels |-> size, content |-> fb[in].content]]
      /\ fb[in].content \in Int
  BY DEF ProcessEmpty, EngineInv, EngineTyped, OneSize, Buffers
<1>3. EngineInv' /\ Picture' = fb[in].content /\ k' = k + 1
  BY <1>1, <1>2, DrawKeeps
<1>4. Pipe!PassThrough
  BY <1>1, <1>3, EffectTyped DEF Pipe!PassThrough, Pipe!Underway, Picture
<1> QED
  BY <1>3, <1>4 DEF PipeStep, Pipe!PipeNext

LEMMA CompositeBeginKeeps ==
  ASSUME EngineInv, CompositeBegin
  PROVE  EngineInv' /\ PipeStep
<1>1. stage = "effects" /\ k < Len(chain) /\ Effect.kind = "composite" /\ 0 < Effect.kids
  BY DEF CompositeBegin, Writing
<1>2. chain' = chain
  BY <1>1, EffectTyped DEF CompositeBegin, EngineInv, EngineTyped, OneSize, Effects, Effect
<1>3. EngineInv'
  BY <1>1, <1>2 DEF CompositeBegin, EngineInv, EngineTyped, StageAgrees, OneSize, Effect
<1>4. UNCHANGED Pipe!pipeVars
  BY <1>1, <1>2 DEF CompositeBegin, Pipe!pipeVars, Picture, Source
<1> QED
  BY <1>3, <1>4 DEF PipeStep

LEMMA SourceTyped ==
  ASSUME EngineInv, stage = "children"
  PROVE  Source.content \in Int
<1>1. Effect.buffers \in [0..1 -> Buffers]
  BY EffectTyped DEF EngineInv, StageAgrees, Effects
<1> QED
  BY <1>1, SMTT(30) DEF Source, EngineInv, EngineTyped, Buffers

\* Writing to one buffer of a composite leaves the rest of it.
LEMMA BufferWritten ==
  ASSUME NEW r \in [kind : {"plain", "scripted", "composite"}, kids : Nat, size : Nat,
                    buffers : [0..1 -> Buffers]], NEW b
  PROVE  [r EXCEPT !.buffers = b]
           = [kind |-> r.kind, kids |-> r.kids, size |-> r.size, buffers |-> b]
BY SMT

LEMMA ProcessChildKeeps ==
  ASSUME EngineInv, ProcessChild
  PROVE  EngineInv' /\ PipeStep
<1> DEFINE new == [size |-> size, pixels |-> size, content |-> Source.content + 1]
           bufs == [Effect.buffers EXCEPT ![bufferIndex] = new]
           next == [kind |-> Effect.kind, kids |-> Effect.kids, size |-> size, buffers |-> bufs]
<1>1. /\ stage = "children" /\ k < Len(chain) /\ Effect.kind = "composite"
      /\ child + 1 < Effect.kids
  BY DEF ProcessChild, EngineInv, StageAgrees
<1>2. /\ Effect \in Effects /\ Effect.size = size /\ k + 1 \in 1..Len(chain)
      /\ chain \in Seq(Effects) /\ bufferIndex \in 0..1 /\ size \in Nat /\ new \in Buffers
  BY <1>1, EffectTyped, SourceTyped DEF EngineInv, EngineTyped, Buffers
<1>3. bufs \in [0..1 -> Buffers] /\ bufs[bufferIndex] = new
  BY <1>2 DEF Effects
<1>4. next \in Effects
  BY <1>2, <1>3 DEF Effects
<1>5. chain' = [chain EXCEPT ![k + 1] = next]
  <2>1. Drawn(Source, Effect.size) = new
    BY <1>2 DEF Drawn
  <2>2. chain' = [chain EXCEPT ![k + 1] = [chain[k + 1] EXCEPT !.buffers = bufs]]
    BY <2>1, Zenon DEF ProcessChild, Effect
  <2>3. [Effect EXCEPT !.buffers = bufs] = next
    BY <1>2, BufferWritten, Zenon DEF Effects
  <2> QED
    BY <2>2, <2>3, Zenon DEF Effect
<1>6. /\ chain' \in Seq(Effects) /\ Len(chain') = Len(chain) /\ DOMAIN chain' = 1..Len(chain)
      /\ chain'[k + 1] = next
      /\ \A e \in 1..Len(chain) : chain'[e].size = size /\ DrawsOf(chain'[e]) = DrawsOf(chain[e])
  <2> HIDE DEF new, bufs
  <2>1. next.size = size /\ next.kids = Effect.kids /\ next.kind = Effect.kind
    OBVIOUS
  <2> HIDE DEF next
  <2>2. /\ chain' \in Seq(Effects) /\ Len(chain') = Len(chain) /\ DOMAIN chain' = 1..Len(chain)
        /\ chain'[k + 1] = next
        /\ \A e \in 1..Len(chain) : e # k + 1 => chain'[e] = chain[e]
    BY <1>2, <1>4, <1>5
  <2>3. \A e \in 1..Len(chain) : chain[e].size = size
    BY <1>2 DEF EngineInv, OneSize
  <2>4. DrawsOf(next) = DrawsOf(chain[k + 1])
    BY <2>1, Zenon DEF DrawsOf, Effect
  <2> QED
    BY <2>1, <2>2, <2>3, <2>4
<1>7. EngineInv'
  BY <1>1, <1>6 DEF ProcessChild, EngineInv, EngineTyped, StageAgrees, OneSize, Effect
<1>8. Picture' = Source.content + 1
  BY <1>1, <1>2, <1>3, <1>6 DEF ProcessChild, Picture, Source, Effect
<1>9. Pipe!Draw
  <2>1. [e \in DOMAIN chain' |-> DrawsOf(chain'[e])] = [e \in DOMAIN chain |-> DrawsOf(chain[e])]
    BY <1>1, <1>6, EffectTyped
  <2>2. DrawsOf(Effect) = Effect.kids /\ Effect.kids \in Nat /\ child \in Nat
    BY <1>1, <1>2 DEF DrawsOf, Effects, EngineInv, EngineTyped
  <2> QED
    BY <1>1, <1>8, <2>1, <2>2, EffectTyped
    DEF ProcessChild, Pipe!Draw, Pipe!Underway, Picture
<1> QED
  BY <1>7, <1>9 DEF PipeStep, Pipe!PipeNext

LEMMA ProcessLastChildKeeps ==
  ASSUME EngineInv, ProcessLastChild
  PROVE  EngineInv' /\ PipeStep
<1>1. /\ stage = "children" /\ k < Len(chain) /\ DrawsOf(Effect) = child + 1
      /\ Swap /\ stage' = "effects" /\ UNCHANGED <<size, cur, chain, child, from, bufferIndex>>
  BY DEF ProcessLastChild, DrawsOf, EngineInv, StageAgrees
<1>2. fb' = [fb EXCEPT ![out] = [size |-> size, pixels |-> size, content |-> Source.content + 1]]
      /\ Source.content + 1 \in Int
  <2>1. Effect.size = size /\ Source.content + 1 \in Int
    BY <1>1, EffectTyped, SourceTyped
  <2> QED
    BY <2>1 DEF ProcessLastChild, Drawn
<1>3. EngineInv' /\ Picture' = Source.content + 1 /\ k' = k + 1
  BY <1>1, <1>2, DrawKeeps
<1>4. Pipe!Draw
  BY <1>1, <1>3, EffectTyped DEF Pipe!Draw, Pipe!Underway, Picture, EngineInv, EngineTyped
<1> QED
  BY <1>3, <1>4 DEF PipeStep, Pipe!PipeNext

LEMMA StepEndKeeps ==
  ASSUME EngineInv, StepEnd
  PROVE  EngineInv' /\ PipeStep
<1>1. EngineInv'
  BY DEF StepEnd, EngineInv, EngineTyped, StageAgrees, OneSize
<1>2. Len([e \in DOMAIN chain |-> DrawsOf(chain[e])]) = Len(chain)
  BY DEF EngineInv, EngineTyped
<1>3. Pipe!EndPass
  BY <1>2 DEF StepEnd, Pipe!EndPass, Picture
<1> QED
  BY <1>1, <1>3 DEF PipeStep, Pipe!PipeNext

LEMMA StepKeeps ==
  ASSUME EngineInv, Step
  PROVE  EngineInv' /\ PipeStep
BY ProcessPlainKeeps, ProcessEmptyKeeps, CompositeBeginKeeps, ProcessChildKeeps,
   ProcessLastChildKeeps, StepEndKeeps DEF Step

LEMMA UnchangedKeeps ==
  ASSUME EngineInv, UNCHANGED engineVars
  PROVE  EngineInv' /\ PipeStep
BY DEF engineVars, EngineInv, EngineTyped, StageAgrees, OneSize, Effect, PipeStep, Pipe!pipeVars,
       Picture, Source

-------------------------------------------------------------------------------
(* The player. *)

PlayerInv == EngineInv /\ WindowAgrees

LEMMA PlayerStarts == PlayerInit => PlayerInv /\ Pipe!PipeInit
<1>1. ASSUME PlayerInit PROVE PlayerInv
  BY <1>1, EngineAssumption
  DEF PlayerInit, EngineInit, PlayerInv, EngineInv, EngineTyped, StageAgrees, OneSize, WindowAgrees,
      Buffers
<1>2. ASSUME PlayerInit PROVE Pipe!PipeInit
  BY <1>2 DEF PlayerInit, EngineInit, Pipe!PipeInit, Picture
<1> QED
  BY <1>1, <1>2

LEMMA InstallKeeps ==
  ASSUME EngineInv, NEW kinds \in Chains, Install(kinds)
  PROVE  EngineInv' /\ PipeStep
BY SetChainKeeps, UnchangedKeeps DEF Install, engineVars

LEMMA PlayerKeeps ==
  ASSUME PlayerInv, [PlayerNext]_allVars
  PROVE  PlayerInv' /\ PipeStep
<1> USE DEF PlayerInv
<1>1. CASE UNCHANGED engineVars /\ UNCHANGED <<pc, window>>
  BY <1>1, UnchangedKeeps DEF WindowAgrees, engineVars
<1>2. ASSUME NEW kinds \in Chains, NEW directory \in BOOLEAN,
             FirstLoad(kinds, directory) \/ Fallback(kinds) \/ Load(kinds)
      PROVE  PlayerInv' /\ PipeStep
  <2>1. EngineInv' /\ PipeStep
    BY <1>2, InstallKeeps, SetChainKeeps DEF FirstLoad, Fallback, Load
  <2>2. WindowAgrees'
    BY <1>2 DEF FirstLoad, Fallback, Load, WindowAgrees
  <2> QED
    BY <2>1, <2>2
<1>3. CASE ResizeEngine
  <2>1. EngineInv' /\ PipeStep /\ size' = window
    BY <1>3, ResizeKeeps, EngineAssumption DEF ResizeEngine, WindowAgrees
  <2> QED
    BY <1>3, <2>1 DEF ResizeEngine, WindowAgrees
<1>4. CASE BeginStep
  <2>1. EngineInv' /\ PipeStep
    BY <1>4, StepBeginKeeps DEF BeginStep
  <2> QED
    BY <1>4, <2>1 DEF BeginStep, StepBegin, WindowAgrees
<1>5. CASE StepEngine
  <2>1. EngineInv' /\ PipeStep
    BY <1>5, StepKeeps DEF StepEngine
  <2>2. size' = size
    BY <1>5 DEF StepEngine, Step, ProcessPlain, ProcessScripted, ProcessEmpty, CompositeBegin,
                ProcessChild, ProcessLastChild, StepEnd
  <2> QED
    BY <1>5, <2>1, <2>2 DEF StepEngine, WindowAgrees
<1>6. ASSUME NEW preset \in BOOLEAN, NEW s \in Sizes,
             StartWith(preset) \/ PollWindow(s) \/ Watch \/ Blit \/ PressReload \/ Close
      PROVE  PlayerInv' /\ PipeStep
  <2>1. UNCHANGED engineVars
    BY <1>6 DEF StartWith, PollWindow, Watch, Blit, PressReload, Close
  <2>2. WindowAgrees'
    BY <1>6, <2>1 DEF StartWith, PollWindow, Watch, Blit, PressReload, Close, WindowAgrees, engineVars
  <2> QED
    BY <2>1, <2>2, UnchangedKeeps
<1>7. EditFile \/ Exited \/ UNCHANGED allVars => UNCHANGED engineVars /\ UNCHANGED <<pc, window>>
  BY DEF EditFile, Exited, allVars, playerVars
<1> QED
  BY <1>1, <1>2, <1>3, <1>4, <1>5, <1>6, <1>7, EngineAssumption DEF PlayerNext, PlayerStep

\* The engine (engine.cpp, composite.cpp) implements one picture that goes through
\* the chain: for every chain, with composites of any number of children, and
\* whatever presets are loaded and sizes the window takes between the steps.
THEOREM EngineIsAPipe == PlayerSpec => OnePicture
<1>1. PlayerInv /\ [PlayerNext]_allVars => [Pipe!PipeNext]_(Pipe!pipeVars)
  BY PlayerKeeps DEF PipeStep
<1>2. PlayerInv /\ [PlayerNext]_allVars => PlayerInv'
  BY PlayerKeeps
<1> QED
  BY <1>1, <1>2, PlayerStarts, PTL DEF PlayerSpec, OnePicture, Pipe!PipeSpec

\* What blit reads (main.cpp, line 884) is as large as the window, for every chain
\* and every set of sizes.
THEOREM FramesFit == PlayerSpec => []BlitFits
<1>1. PlayerInv => BlitFits
  BY DEF PlayerInv, EngineInv, EngineTyped, OneSize, WindowAgrees, BlitFits, frame
<1> QED
  BY <1>1, PlayerStarts, PlayerKeeps, PTL DEF PlayerSpec

===============================================================================
