-------------------------------- MODULE Engine --------------------------------
(***************************************************************************)
(* avs::Engine (libs/avs-compat/src/engine.cpp) and CompositeEffect: a     *)
(* chain of effects over two framebuffers that swap roles at every effect. *)
(* A composite runs its children over two buffers of its own.              *)
(*                                                                         *)
(* A size stands for a width and a height; a buffer holds Area(size)       *)
(* pixels.  The content of a buffer is told by the number of effects and   *)
(* children the frame shown before this step has been through.             *)
(***************************************************************************)
EXTENDS Integers, Sequences

CONSTANTS
  Sizes,       \* sizes of the window; 0 is a minimised one
  Start,       \* the size the engine is constructed with
  Chains       \* the chains a preset may give: sequences of kinds

Kinds == [kind : {"plain", "scripted", "composite"}, kids : Nat]

ASSUME EngineAssumption ==
  /\ Sizes \subseteq Nat /\ Start \in Sizes
  /\ Chains \subseteq Seq(Kinds)

VARIABLES
  fb,        \* [0..1 -> [size, pixels, content]]
  size,      \* w_, h_
  cur,       \* cur_
  chain,     \* sequence of [kind, kids, size, buffers]
  stage,     \* "idle", or the step: "effects" or "children"
  in, out,   \* the local variables of step
  k,         \* effects processed in this step
  child, from, bufferIndex    \* the local variables of CompositeEffect::process

engineVars == <<fb, size, cur, chain, stage, in, out, k, child, from, bufferIndex>>
stepVars   == <<stage, in, out, k, child, from, bufferIndex>>

Junk  == -1
Input == 2      \* from: the input of the composite rather than one of its buffers

\* An effect of a chain just after its init for the size s.
\* A plain effect follows its input; a scripted one and a composite keep s.
Initialised(kind, s) ==
  [kind |-> kind.kind, kids |-> kind.kids, size |-> s,
   buffers |-> [b \in 0..1 |-> [size |-> s, pixels |-> s, content |-> Junk]]]

Allocated(b, s) == [size |-> s, pixels |-> s, content |-> b.content]

EngineInit ==
  /\ fb = [b \in 0..1 |-> [size |-> Start, pixels |-> Start, content |-> 0]]
  /\ size = Start
  /\ cur = 0
  /\ chain = <<>>
  /\ stage = "idle"
  /\ in = 0 /\ out = 1
  /\ k = 0
  /\ child = 0 /\ from = Input /\ bufferIndex = 0

-------------------------------------------------------------------------------
(* Engine *)

\* mutant: the chain is not told of the new size
ResizeBuffersOnly(s) ==
  /\ stage = "idle"
  /\ size' = s
  /\ fb' = IF s = size THEN fb ELSE [b \in 0..1 |-> Allocated(fb[b], s)]
  /\ UNCHANGED <<cur, chain, stepVars>>

Resize(s) ==
  /\ stage = "idle"
  /\ size' = s
  /\ IF s = size
       THEN UNCHANGED <<fb, chain>>
       ELSE /\ fb' = [b \in 0..1 |-> Allocated(fb[b], s)]
            /\ chain' = [e \in DOMAIN chain |-> Initialised(chain[e], s)]
  /\ UNCHANGED <<cur, stepVars>>

SetChain(kinds) ==
  /\ stage = "idle"
  /\ chain' = [e \in DOMAIN kinds |-> Initialised(kinds[e], size)]
  /\ UNCHANGED <<fb, size, cur, stepVars>>

\* step: the frame shown so far is copied to the other buffer.
StepBegin ==
  /\ stage = "idle"
  /\ in' = cur
  /\ out' = 1 - cur
  /\ fb' = [b \in 0..1 |-> [size |-> fb[b].size, pixels |-> fb[cur].pixels, content |-> 0]]
  /\ k' = 0
  /\ stage' = "effects"
  /\ UNCHANGED <<size, cur, chain, child, from, bufferIndex>>

Effect  == chain[k + 1]
Writing == stage = "effects" /\ k < Len(chain)

\* mutant: no swap, so every effect reads the previous frame
SwapMissing ==
  /\ UNCHANGED <<in, out>>
  /\ k' = k + 1

\* The swap after each effect.
Swap ==
  /\ in' = out
  /\ out' = in
  /\ k' = k + 1

\* A frame of the size s drawn from another one.
Drawn(before, s) == [size |-> s, pixels |-> s, content |-> before.content + 1]

\* An effect that writes every pixel of a frame of its input's size.
ProcessPlain ==
  /\ Writing /\ Effect.kind = "plain"
  /\ fb' = [fb EXCEPT ![out] = Drawn(fb[in], fb[in].size)]
  /\ Swap
  /\ UNCHANGED <<size, cur, chain, stage, child, from, bufferIndex>>

\* ScriptedEffect: a frame of the size it was initialised with.
ProcessScripted ==
  /\ Writing /\ Effect.kind = "scripted"
  /\ fb' = [fb EXCEPT ![out] = Drawn(fb[in], Effect.size)]
  /\ Swap
  /\ UNCHANGED <<size, cur, chain, stage, child, from, bufferIndex>>

\* A composite without children copies.
ProcessEmpty ==
  /\ Writing /\ Effect.kind = "composite" /\ Effect.kids = 0
  /\ fb' = [fb EXCEPT ![out] = fb[in]]
  /\ Swap
  /\ UNCHANGED <<size, cur, chain, stage, child, from, bufferIndex>>

\* A composite of size 0 takes its size from its input.
CompositeBegin ==
  /\ Writing /\ Effect.kind = "composite" /\ Effect.kids > 0
  /\ chain' = IF Effect.size = 0 THEN [chain EXCEPT ![k + 1].size = fb[in].size] ELSE chain
  /\ child' = 0
  /\ from' = Input
  /\ bufferIndex' = 0
  /\ stage' = "children"
  /\ UNCHANGED <<fb, size, cur, in, out, k>>

Source == IF from = Input THEN fb[in] ELSE Effect.buffers[from]

\* A child but the last writes to one of the composite's buffers.
ProcessChild ==
  /\ stage = "children" /\ child + 1 < Effect.kids
  /\ chain' = [chain EXCEPT ![k + 1].buffers[bufferIndex] = Drawn(Source, Effect.size)]
  /\ from' = bufferIndex
  /\ bufferIndex' = 1 - bufferIndex
  /\ child' = child + 1
  /\ UNCHANGED <<fb, size, cur, stage, in, out, k>>

ProcessLastChild ==
  /\ stage = "children" /\ child + 1 = Effect.kids
  /\ fb' = [fb EXCEPT ![out] = Drawn(Source, Effect.size)]
  /\ stage' = "effects"
  /\ Swap
  /\ UNCHANGED <<size, cur, chain, child, from, bufferIndex>>

StepEnd ==
  /\ stage = "effects" /\ k = Len(chain)
  /\ cur' = in
  /\ stage' = "idle"
  /\ UNCHANGED <<fb, size, chain, in, out, k, child, from, bufferIndex>>

Step ==
  \/ ProcessPlain \/ ProcessScripted \/ ProcessEmpty
  \/ CompositeBegin \/ ProcessChild \/ ProcessLastChild
  \/ StepEnd

frame == fb[cur]

EngineNext ==
  \/ \E s \in Sizes : Resize(s)
  \/ \E kinds \in Chains : SetChain(kinds)
  \/ StepBegin \/ Step

EngineSpec == EngineInit /\ [][EngineNext]_engineVars

-------------------------------------------------------------------------------
\* The picture: between steps the frame shown, else what the next draw reads.
Picture ==
  IF stage = "children" THEN Source.content ELSE fb[IF stage = "idle" THEN cur ELSE in].content

DrawsOf(effect) == IF effect.kind = "composite" THEN effect.kids ELSE 1

Pipe == INSTANCE FramePipe WITH
  picture <- Picture, draws <- [e \in DOMAIN chain |-> DrawsOf(chain[e])],
  busy <- stage # "idle", passed <- k, drawn <- IF stage = "children" THEN child ELSE 0

\* Through all the swaps of the two buffers, and of the two each composite has of
\* its own, every effect and child reads what the one before it in the chain has
\* written, the first one the frame shown before, and frame() is what the last
\* one wrote.
OnePicture == Pipe!PipeSpec

===============================================================================
