------------------------------- MODULE Pipeline -------------------------------
(***************************************************************************)
(* avs::core::Pipeline (libs/avs-core/src/Pipeline.cpp) and the factory    *)
(* look-up of EffectRegistry, on top of its ThreadPool.  The thread that   *)
(* calls render is the owner of the pool: a multi-threaded effect is one   *)
(* execute, whose lambda captures the local renderSuccess by reference.    *)
(*                                                                         *)
(* A null threadPool_ is a pool with no threads.                           *)
(***************************************************************************)
EXTENDS ThreadPool, Sequences

CONSTANTS
  Keys,          \* effect keys a caller may name
  Registered,    \* the keys with a factory that makes an effect
  Smp,           \* the effects with supportsMultiThreaded()
  MaxNodes,      \* bound: length of the chain
  MaxFrames      \* bound: calls of render

ASSUME PipelineAssumption ==
  /\ Registered \subseteq Keys
  /\ Smp \subseteq Registered
  /\ MaxNodes \in Nat
  /\ MaxFrames \in Nat

VARIABLES
  nodes,         \* nodes_: the keys of the effects of the chain
  at,            \* index of the loop of render, 0 outside of it
  success,       \* the local success
  renderSuccess, \* the local renderSuccess of the effect being executed
  frame,         \* frames begun
  frameOf,       \* history: the frame and the effect each execute belongs to
  reports,       \* history: <<frame, node, verdict>> of each effect call
  failedFrames,  \* history: the frames to a verdict of which a failure was written
  returned       \* history: the value of each render that has returned

chainVars  == <<nodes, at, success, renderSuccess, frame, frameOf, reports, failedFrames, returned>>
allVars    == <<vars, chainVars>>

MultiThreaded == threads # {}

\* Between frames, with the pool at rest or about to be replaced.
Outside == at = 0 /\ owner = "idle"

PipelineInit ==
  /\ Init
  /\ nodes         = <<>>
  /\ at            = 0
  /\ success       = TRUE
  /\ renderSuccess = TRUE
  /\ frame         = 0
  /\ frameOf       = [c \in 1..MaxCalls |-> <<0, 0>>]
  /\ reports       = {}
  /\ failedFrames  = {}
  /\ returned      = <<>>

-------------------------------------------------------------------------------
(* add: a key without a factory is ignored. *)
Add(k) ==
  /\ Outside
  /\ Len(nodes) < MaxNodes
  /\ nodes' = IF k \in Registered THEN Append(nodes, k) ELSE nodes
  /\ UNCHANGED <<vars, at, success, renderSuccess, frame, frameOf, reports, failedFrames, returned>>

Clear ==
  /\ Outside
  /\ nodes' = <<>>
  /\ UNCHANGED <<vars, at, success, renderSuccess, frame, frameOf, reports, failedFrames, returned>>

\* setThreadCount: the old pool is destroyed (Destroy .. Join) and the next one
\* starts as Init says.
DropPool ==
  /\ Outside
  /\ Destroy
  /\ UNCHANGED chainVars

ReplacePool ==
  /\ owner = "destroyed"
  /\ threads' \in {S \in SUBSET Workers : Cardinality(S) # 1}
  /\ pc'        = [w \in Workers |-> IF w \in threads' THEN "lock" ELSE "exited"]
  /\ task'      = 0
  /\ hasTask'   = FALSE
  /\ shutdown'  = FALSE
  /\ completed' = 0
  /\ owner'     = "idle"
  /\ UNCHANGED <<held, calls, runs, chainVars>>

-------------------------------------------------------------------------------
(* render *)

\* mutant: success survives from the last frame
BeginStale ==
  /\ Outside
  /\ nodes # <<>>
  /\ frame < MaxFrames
  /\ at'    = 1
  /\ frame' = frame + 1
  /\ UNCHANGED <<vars, nodes, success, renderSuccess, frameOf, reports, failedFrames, returned>>

\* MaxFrames and MaxCalls bound the frames.
Begin ==
  /\ Outside
  /\ nodes # <<>>
  /\ frame < MaxFrames
  /\ calls + Len(nodes) <= MaxCalls
  /\ at'      = 1
  /\ success' = TRUE
  /\ frame'   = frame + 1
  /\ UNCHANGED <<vars, nodes, renderSuccess, frameOf, reports, failedFrames, returned>>

AtNode == at \in DOMAIN nodes /\ owner = "idle"
OnPool == AtNode /\ MultiThreaded /\ nodes[at] \in Smp

\* The loop breaks on the first failure.
Advance(ok) ==
  /\ success' = (success /\ ok)
  /\ at'      = IF ok THEN at + 1 ELSE Len(nodes) + 1

RenderHere(ok) ==
  /\ AtNode
  /\ ~OnPool
  /\ Advance(ok)
  /\ reports' = reports \cup {<<frame, at, ok>>}
  /\ failedFrames' = IF ok THEN failedFrames ELSE failedFrames \cup {frame}
  /\ UNCHANGED <<vars, nodes, renderSuccess, frame, frameOf, returned>>

ExecuteOnPool ==
  /\ OnPool
  /\ StoreTask
  /\ renderSuccess' = TRUE
  /\ frameOf' = [frameOf EXCEPT ![calls + 1] = <<frame, at>>]
  /\ UNCHANGED <<nodes, at, success, frame, reports, failedFrames, returned>>

\* history only: what was reported, and whether it reached the frame in progress
Reported(w, ok, lands) ==
  /\ reports' = reports \cup {Append(frameOf[held[w]], ok)}
  /\ failedFrames' = IF ~ok /\ InCall /\ lands THEN failedFrames \cup {frame} ELSE failedFrames

\* mutant: a later success overwrites an earlier failure
ReportLast(w, ok, aliased) ==
  LET own == InCall /\ held[w] = calls
  IN  /\ RunTask(w)
      /\ renderSuccess' = IF ~own /\ ~aliased THEN renderSuccess ELSE ok
      /\ Reported(w, ok, own \/ aliased)
      /\ UNCHANGED <<nodes, at, success, frame, frameOf, returned>>

\* The lambda: smp_render reports to the renderSuccess it captured.  When the
\* execute it was made for has returned, that variable is dead: a write to it
\* may or may not land in the one of the effect now being executed.
Report(w, ok, aliased) ==
  LET own == InCall /\ held[w] = calls
  IN  /\ RunTask(w)
      /\ renderSuccess' = IF ok \/ (~own /\ ~aliased) THEN renderSuccess ELSE FALSE
      /\ Reported(w, ok, own \/ aliased)
      /\ UNCHANGED <<nodes, at, success, frame, frameOf, returned>>

Executed ==
  /\ Return
  /\ Advance(renderSuccess)
  /\ UNCHANGED <<nodes, renderSuccess, frame, frameOf, reports, failedFrames, returned>>

Finish ==
  /\ at = Len(nodes) + 1
  /\ at > 1
  /\ at' = 0
  /\ returned' = Append(returned, success)
  /\ UNCHANGED <<vars, nodes, success, renderSuccess, frame, frameOf, reports, failedFrames>>

PoolStep ==
  /\ \/ \E w \in Workers : AwaitTask(w) \/ TakeTask(w) \/ Exit(w) \/ SignalDone(w)
     \/ NotifyWorkers \/ AwaitCompletion \/ NotifyShutdown \/ Join
     \/ SpuriousOwnerWakeup
  /\ UNCHANGED chainVars

PipelineNext ==
  \/ \E k \in Keys : Add(k)
  \/ Clear \/ DropPool \/ ReplacePool \/ Begin
  \/ \E ok \in BOOLEAN : RenderHere(ok)
  \/ ExecuteOnPool \/ Executed \/ Finish
  \/ \E w \in Workers, ok, aliased \in BOOLEAN : Report(w, ok, aliased)
  \/ PoolStep

PipelineSpec == PipelineInit /\ [][PipelineNext]_allVars

-------------------------------------------------------------------------------
Failed(f, i) == <<f, i, FALSE>> \in reports

\* A failure counts from the moment it is reported.  The chain stops at the first one
\* that render has seen: when it goes on to the next effect it has seen none, and of
\* the effects behind it only one that was on the pool can have failed, unseen.  And
\* what a worker reports while its execute is in progress is not overwritten by the
\* successes of the others before render looks.
StopsAtFailure ==
  at' \in DOMAIN nodes /\ at' > at /\ at > 0
    => /\ success'
       /\ \A i \in 1..at : <<frame, i, FALSE>> \in reports' => MultiThreaded /\ nodes[i] \in Smp

FailureSticks ==
  \A w \in Workers :
    pc[w] = "run" /\ pc'[w] = "signal" /\ InCall /\ held[w] = calls
      => (~renderSuccess => ~renderSuccess')

FailureCounts == [][StopsAtFailure /\ FailureSticks]_allVars

\* The verdict of each frame is what was written to its variables, success and the
\* renderSuccess of each effect on the pool, and nothing else: render returns false
\* exactly when a failing effect wrote there while the frame was in progress.  That
\* may be a worker left over from an earlier execute, whose dead renderSuccess was the
\* living one's place; but no failure comes from what a variable still held, no
\* failure that arrived in time is lost, and what arrives too late changes nothing.
VerdictFollowsReports ==
  \A f \in DOMAIN returned : ~returned[f] <=> f \in failedFrames

\* "@return true if every effect reported success" (Pipeline.hpp:29).
TrueMeansAllSucceeded ==
  \A f \in DOMAIN returned : returned[f] => \A i \in 1..MaxNodes : ~Failed(f, i)

===============================================================================
