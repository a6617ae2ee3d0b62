-------------------------------- MODULE SmpBlur --------------------------------
(***************************************************************************)
(* R_Blur::smp_render (libs/avs-effects-legacy/src/trans/effect_blur.cpp): *)
(* the one effect that renders on several threads, as the task of the      *)
(* ThreadPool.  In each run of the task thread 0 copies the frame, then    *)
(* every thread makes the horizontal pass, the vertical pass and the blend *)
(* of its own rows, in buffers they all share.  The pool does not promise  *)
(* one run for each thread and call, nor that the threads have ended when  *)
(* the call returns, and the model does not assume it.                     *)
(*                                                                         *)
(* A row is its level: how often it has been blurred as renderBox, the     *)
(* single-threaded version, would, since the picture of this call was      *)
(* drawn.  It is Mixed when it is of an earlier picture or of several      *)
(* levels.  A row is read and written in one step.                         *)
(***************************************************************************)
EXTENDS ThreadPool

CONSTANTS
  MaxThreads,   \* bound: size of the pool
  MaxHeight,    \* bound: rows of the frame
  Columns,      \* columns of the frame
  BlurSettings, \* the parameters, heights and thread counts of the effect
  MaxRuns       \* bound: runs of the task by one thread

Settings ==
  [radius : Nat, strength : {"none", "part", "full"},
   horizontal : BOOLEAN, vertical : BOOLEAN,
   height : 1..MaxHeight, threads : 2..MaxThreads]

ASSUME BlurAssumption ==
  /\ MaxThreads \in Nat /\ Workers = 0..(MaxThreads - 1)
  /\ MaxHeight \in Nat \ {0}
  /\ Columns \in Nat \ {0}
  /\ BlurSettings \subseteq Settings
  /\ MaxRuns \in Nat

VARIABLES
  cfg,          \* the parameters of the effect, the height and the thread count
  stage,        \* where each thread is in renderBoxThreaded, "left" outside of it
  step,         \* the next row (or column) of the stage
  framebuffer,  \* context.framebuffer, by row
  original,     \* original_, temp_ and blurred_, by row
  temp,
  blurred,
  allocated,    \* the buffers are large enough for the frame
  stray,        \* the threads whose data() pointers are of too small a buffer
  blended,      \* history: how often each row of the frame was blended
  finished,     \* history: how often each thread ran the task to its end
  rounds,       \* history: how often thread 0 did since the picture was drawn
  overtaken     \* history: thread 0 was in the task when the picture was drawn

bufferRows    == <<framebuffer, original, temp, blurred>>
blurHistories == <<blended, finished, rounds, overtaken>>
blurVars == <<cfg, stage, step, bufferRows, allocated, stray, blurHistories>>

Mixed == -1

Rows == 0..(cfg.height - 1)

\* renderBoxThreaded leaves at once unless there is something to blur.
Active ==
  /\ cfg.radius > 0
  /\ cfg.strength # "none"
  /\ cfg.horizontal \/ cfg.vertical

\* The rows of thread t of n: the last thread takes the remainder.
StartRow(h, n, t) == t * (h \div n)

\* mutant: the last row of a share is inclusive
EndRowInclusive(h, n, t) ==
  IF t = n - 1 THEN h ELSE StartRow(h, n, t) + h \div n + 1

EndRow(h, n, t) ==
  IF t = n - 1 THEN h ELSE StartRow(h, n, t) + h \div n

Share(h, n, t) == {r \in 0..(h - 1) : StartRow(h, n, t) <= r /\ r < EndRow(h, n, t)}
Own(t) == Share(cfg.height, cfg.threads, t)

\* The rows the vertical pass reads for row r, clamped to the frame.
Window(r) == {s \in Rows : r - cfg.radius <= s /\ s <= r + cfg.radius}

AllRows(level) == [r \in 0..(MaxHeight - 1) |-> level]

\* An effect without threads, or with one, takes the single-threaded renderBox.
BlurInit ==
  /\ cfg \in BlurSettings
  /\ Init /\ threads = 0..(cfg.threads - 1)
  /\ stage       = [t \in Workers |-> "left"]
  /\ step        = [t \in Workers |-> 0]
  /\ framebuffer = AllRows(0)
  /\ original    = AllRows(Mixed) /\ temp = AllRows(Mixed) /\ blurred = AllRows(Mixed)
  /\ allocated \in BOOLEAN
  /\ stray       = {}
  /\ blended     = AllRows(0)
  /\ finished    = [t \in Workers |-> 0]
  /\ rounds      = 0
  /\ overtaken   = FALSE

-------------------------------------------------------------------------------
(* The pool. *)

PoolAlone ==
  /\ \/ \E w \in Workers : AwaitTask(w) \/ SpuriousWakeup(w) \/ Exit(w) \/ SignalDone(w)
     \/ NotifyWorkers \/ AwaitCompletion \/ Return \/ SpuriousOwnerWakeup
     \/ Destroy \/ NotifyShutdown \/ Join \/ Destroyed
  /\ UNCHANGED blurVars

\* The next frame: its picture is drawn and the effect called, with whatever
\* threads are still in the task of the last one.
NextPicture ==
  /\ StoreTask
  /\ framebuffer' = AllRows(0)
  /\ original' = AllRows(Mixed) /\ temp' = AllRows(Mixed) /\ blurred' = AllRows(Mixed)
  /\ rounds'    = 0
  /\ overtaken' = (stage[0] \notin {"entry", "left"})
  /\ UNCHANGED <<cfg, stage, step, allocated, stray, blended, finished>>

TakeBlur(t) ==
  /\ finished[t] < MaxRuns
  /\ TakeTask(t)
  /\ stage' = [stage EXCEPT ![t] = "entry"]
  /\ UNCHANGED <<cfg, step, bufferRows, allocated, stray, blurHistories>>

\* smp_render has returned to the worker.
EndTask(t) ==
  /\ stage[t] = "left"
  /\ RunTask(t)
  /\ UNCHANGED blurVars

-------------------------------------------------------------------------------
(* renderBoxThreaded *)

\* Thread t goes on with the first row of its share, or the first column, and
\* takes the pointers of the buffers anew.
Enter(t, next) ==
  /\ stage' = [stage EXCEPT ![t] = next]
  /\ step'  = [step EXCEPT ![t] =
                 IF next = "vertical" THEN 0 ELSE StartRow(cfg.height, cfg.threads, t)]
  /\ stray' = IF allocated' THEN stray \ {t} ELSE stray \cup {t}
  /\ UNCHANGED <<vars, cfg, bufferRows, blurHistories>>

\* Thread t has done what it did for row (or column) step[t].
Continue(t) ==
  /\ step' = [step EXCEPT ![t] = @ + 1]
  /\ UNCHANGED <<vars, cfg, stage, allocated, stray, finished, rounds, overtaken>>

Leave(t) ==
  /\ stage'    = [stage EXCEPT ![t] = "left"]
  /\ finished' = [finished EXCEPT ![t] = @ + 1]
  /\ rounds'   = IF t = 0 THEN rounds + 1 ELSE rounds
  /\ UNCHANGED <<vars, cfg, step, bufferRows, allocated, stray, blended, overtaken>>

OwnRow(t) == step[t] < EndRow(cfg.height, cfg.threads, t)

NothingToDo(t) ==
  /\ stage[t] = "entry"
  /\ ~Active
  /\ Leave(t)

\* Thread 0: ensureBuffers makes the buffers anew when they are too small, under
\* the pointers of the threads that are already in their passes.
Prepare ==
  /\ stage[0] = "entry"
  /\ Active
  /\ allocated' = TRUE
  /\ Enter(0, "copy")

\* Nothing makes the other threads wait for thread 0.
EnterPasses(t) ==
  /\ t # 0
  /\ stage[t] = "entry"
  /\ Active
  /\ UNCHANGED allocated
  /\ Enter(t, "horizontal")

\* Thread 0: memcpy of the framebuffer to original_, row by row.
CopyRow ==
  /\ stage[0] = "copy"
  /\ step[0] \in Rows
  /\ original' = [original EXCEPT ![step[0]] = framebuffer[step[0]]]
  /\ UNCHANGED <<framebuffer, temp, blurred, blended>>
  /\ Continue(0)

\* mutant: the copy is left to whichever thread is last and thread 0 goes on
CopySkipped ==
  /\ stage[0] = "copy"
  /\ UNCHANGED allocated
  /\ Enter(0, "horizontal")

CopyDone ==
  /\ stage[0] = "copy"
  /\ step[0] \notin Rows
  /\ UNCHANGED allocated
  /\ Enter(0, "horizontal")

\* The horizontal pass of a row goes to temp_, or to blurred_ if it is the last
\* pass.  (Without it thread 0 fills temp_, which the vertical pass then does
\* not read.)  What a stray thread writes is lost.
HorizontalRow(t) ==
  /\ stage[t] = "horizontal"
  /\ cfg.horizontal
  /\ OwnRow(t)
  /\ \/ t \in stray /\ UNCHANGED <<temp, blurred>>
     \/ /\ t \notin stray /\ cfg.vertical
        /\ temp' = [temp EXCEPT ![step[t]] = original[step[t]]] /\ UNCHANGED blurred
     \/ /\ t \notin stray /\ ~cfg.vertical
        /\ blurred' = [blurred EXCEPT ![step[t]] = original[step[t]]] /\ UNCHANGED temp
  /\ UNCHANGED <<framebuffer, original, blended>>
  /\ Continue(t)

HorizontalDone(t) ==
  /\ stage[t] = "horizontal"
  /\ ~(cfg.horizontal /\ OwnRow(t))
  /\ UNCHANGED allocated
  /\ Enter(t, IF cfg.vertical THEN "vertical" ELSE "blend")

\* The vertical pass goes by columns; a row is of one level when the rows it is
\* made from are, in all of its columns.
VerticalColumn(t) ==
  /\ stage[t] = "vertical"
  /\ step[t] < Columns
  /\ LET source    == IF cfg.horizontal THEN temp ELSE original
         OneLevel(r) == \A s \in Window(r) : source[s] = source[r]
         Before(r) == step[t] = 0 \/ blurred[r] = source[r]
     IN  blurred' = [r \in DOMAIN blurred |->
                       IF t \in stray \/ r \notin Own(t) THEN blurred[r]
                       ELSE IF OneLevel(r) /\ Before(r) THEN source[r] ELSE Mixed]
  /\ UNCHANGED <<framebuffer, original, temp, blended>>
  /\ Continue(t)

VerticalDone(t) ==
  /\ stage[t] = "vertical"
  /\ step[t] = Columns
  /\ UNCHANGED allocated
  /\ Enter(t, "blend")

\* At full strength the blend does not look at original_.
BlendRow(t) ==
  /\ stage[t] = "blend"
  /\ OwnRow(t)
  /\ LET r    == step[t]
         good == /\ t \notin stray /\ blurred[r] # Mixed
                 /\ cfg.strength = "full" \/ original[r] = blurred[r]
     IN  /\ framebuffer' = [framebuffer EXCEPT ![r] = IF good THEN blurred[r] + 1 ELSE Mixed]
         /\ blended'     = [blended EXCEPT ![r] = @ + 1]
  /\ UNCHANGED <<original, temp, blurred>>
  /\ Continue(t)

BlendDone(t) ==
  /\ stage[t] = "blend"
  /\ ~OwnRow(t)
  /\ Leave(t)

BlurStep(t) ==
  \/ NothingToDo(t) \/ EnterPasses(t)
  \/ HorizontalRow(t) \/ HorizontalDone(t)
  \/ VerticalColumn(t) \/ VerticalDone(t)
  \/ BlendRow(t) \/ BlendDone(t)

BlurNext ==
  \/ PoolAlone \/ NextPicture
  \/ Prepare \/ CopyRow \/ CopyDone
  \/ \E t \in threads : TakeBlur(t) \/ BlurStep(t) \/ EndTask(t)

BlurSpec == BlurInit /\ [][BlurNext]_<<vars, blurVars>>

-------------------------------------------------------------------------------
Stages == {"entry", "copy", "horizontal", "vertical", "blend", "left"}
BlurLevels == Nat \cup {Mixed}

BlurTypeOK ==
  /\ TypeOK
  /\ cfg \in BlurSettings
  /\ stage \in [Workers -> Stages]
  /\ step \in [Workers -> 0..(MaxHeight + Columns)]
  /\ framebuffer \in [0..(MaxHeight - 1) -> BlurLevels]
  /\ original \in [0..(MaxHeight - 1) -> BlurLevels]
  /\ temp \in [0..(MaxHeight - 1) -> BlurLevels]
  /\ blurred \in [0..(MaxHeight - 1) -> BlurLevels]
  /\ allocated \in BOOLEAN /\ stray \subseteq threads
  /\ blended \in [0..(MaxHeight - 1) -> Nat]
  /\ finished \in [Workers -> 0..MaxRuns]
  /\ rounds \in Nat /\ overtaken \in BOOLEAN

\* The thread a row belongs to, without the bounds the code computes: equal shares
\* in order, and the last thread has what is left.
OwnerOf(r) ==
  LET share == cfg.height \div cfg.threads
  IN  IF share = 0 \/ r \div share > cfg.threads - 1 THEN cfg.threads - 1 ELSE r \div share

\* Every row of the frame is blended by one thread, once in each run of the task by
\* that thread and never by another, for fewer rows than threads too, and however
\* often the pool has a thread run the task, in whatever calls; an inactive effect
\* blends none.
RowsFollowRuns ==
  \A r \in Rows :
    LET t == OwnerOf(r)
    IN  blended[r] = IF ~Active THEN 0
                     ELSE finished[t] + (IF stage[t] = "blend" /\ r < step[t] THEN 1 ELSE 0)

\* Thread 0's copy protects thread 0: without the vertical pass, which looks at
\* other threads' rows, the rows of its share have been blurred as often as it ran the
\* task for this picture, whatever the other threads do, early, late or again, and
\* although the buffers may be made anew.  (Not when it is itself late from the last
\* call: then its run goes on with the rows of two pictures.)
OwnShareSafe ==
  Active /\ ~cfg.vertical /\ ~overtaken =>
    \A r \in Own(0) :
      framebuffer[r] = rounds + (IF stage[0] = "blend" /\ r < step[0] THEN 1 ELSE 0)

\* "Wait for all threads (implicit barrier in ThreadPool)" (effect_blur.cpp:321):
\* no thread is past its pass over original_ while thread 0 is filling it.
BarrierAfterCopy ==
  \A t \in threads : cfg.horizontal /\ stage[t] \in {"vertical", "blend"} => stage[0] # "copy"

===============================================================================
