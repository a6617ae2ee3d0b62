------------------------------- MODULE FramePipe -------------------------------
(***************************************************************************)
(* What avs::Engine promises: there is one picture, and a step passes it   *)
(* through the effects of the chain, in their order.  An effect draws on   *)
(* it once, a composite once for each child; a draw sees what the one      *)
(* before it has left, and after the step the picture is what the last one *)
(* has left.  Which buffer holds it is nobody's business.                  *)
(***************************************************************************)
EXTENDS Naturals, Sequences

VARIABLES
  picture,    \* the draws it has been through since the step began
  draws,      \* of each effect of the chain: how often it draws
  busy,       \* whether a step is underway
  passed,     \* effects that are done with in this step
  drawn       \* draws of the effect after them

pipeVars == <<picture, draws, busy, passed, drawn>>

PipeInit ==
  /\ picture = 0 /\ draws = <<>>
  /\ busy = FALSE /\ passed = 0 /\ drawn = 0

\* Between steps the chain may be another one.
NewChain ==
  /\ ~busy
  /\ draws' \in Seq(Nat)
  /\ UNCHANGED <<picture, busy, passed, drawn>>

BeginPass ==
  /\ ~busy /\ busy'
  /\ picture' = 0 /\ passed' = 0 /\ drawn' = 0
  /\ UNCHANGED draws

Underway == busy /\ passed < Len(draws)

Draw ==
  /\ Underway /\ drawn < draws[passed + 1]
  /\ picture' = picture + 1
  /\ IF drawn + 1 = draws[passed + 1]
       THEN passed' = passed + 1 /\ drawn' = 0
       ELSE drawn' = drawn + 1 /\ UNCHANGED passed
  /\ UNCHANGED <<draws, busy>>

\* An effect that draws nothing leaves the picture alone.
PassThrough ==
  /\ Underway /\ draws[passed + 1] = 0
  /\ passed' = passed + 1
  /\ UNCHANGED <<picture, draws, busy, drawn>>

EndPass ==
  /\ busy /\ passed = Len(draws)
  /\ busy' = FALSE
  /\ UNCHANGED <<picture, draws, passed, drawn>>

PipeNext == NewChain \/ BeginPass \/ Draw \/ PassThrough \/ EndPass

PipeSpec == PipeInit /\ [][PipeNext]_pipeVars

===============================================================================
