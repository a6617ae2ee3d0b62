------------------------------ MODULE CoreProofs ------------------------------
(* Of avs-core: safety of the thread pool for any number of workers and of   *)
(* calls, and of the pipeline that renders on it for any chain and number of *)
(* frames; of the blur that runs as its task; and that every reader of a     *)
(* framebuffer gets the picture last written to it.                          *)
EXTENDS Pipeline, SmpBlur, RenderBackends, FiniteSetTheorems, TLAPS

-------------------------------------------------------------------------------
(* The thread pool. *)

\* The owner has begun the destructor exactly when shutdown_ is set, and a task
\* is announced exactly while a call or the destructor is under way.
Announced ==
  /\ shutdown <=> owner \in {"release", "join", "destroyed"}
  /\ hasTask <=> InCall \/ shutdown
  /\ InCall => task = calls

\* Only a worker in a task holds a copy of it.
HeldWhileRunning ==
  \A w \in Workers : pc[w] \in {"lock", "blocked", "exited"} => held[w] = 0

IInv ==
  /\ TypeOK
  /\ Announced
  /\ HeldWhileRunning
  /\ NoLostWakeup
  /\ CallerNotStranded
  /\ NothingOutlivesPool

\* The constants are numbers that the counter can hold.
LEMMA ConstantsOK == CounterRange \in Nat \ {0} /\ MaxCalls \in Nat
<1>1. Cardinality(Workers) \in Nat
  BY PoolAssumption, FS_CardinalityType
<1> QED
  BY <1>1, PoolAssumption

LEMMA InitEstablishes == Init => IInv
<1> SUFFICES ASSUME Init PROVE IInv
  OBVIOUS
<1> USE DEF Init
<1>1. TypeOK
  <2>1. threads \subseteq Workers
    BY DEF Construct
  <2>2. pc \in [Workers -> {"lock", "blocked", "run", "signal", "exited"}]
    OBVIOUS
  <2>3. completed \in 0..(CounterRange - 1) /\ 0 \in 0..MaxCalls
    BY ConstantsOK
  <2>4. runs \in [Workers -> 0..Twice]
    BY DEF Twice
  <2> QED
    BY <2>1, <2>2, <2>3, <2>4 DEF TypeOK
<1>2. Announced
  BY DEF Announced, InCall
<1>3. HeldWhileRunning /\ NoLostWakeup /\ CallerNotStranded /\ NothingOutlivesPool
  BY DEF HeldWhileRunning, NoLostWakeup, CallerNotStranded, NothingOutlivesPool
<1> QED
  BY <1>1, <1>2, <1>3 DEF IInv

LEMMA StepPreserves == IInv /\ [Next]_vars => IInv'
<1> SUFFICES ASSUME IInv, [Next]_vars PROVE IInv'
  OBVIOUS
<1> USE DEF IInv
<1>1. TypeOK'
  <2> USE ConstantsOK DEF TypeOK
  <2>1. ASSUME NEW w \in Workers, WorkerStep(w) PROVE TypeOK'
    <3>1. CASE AwaitTask(w)   BY <3>1 DEF AwaitTask
    <3>2. CASE TakeTask(w)    BY <3>2 DEF TakeTask
    <3>3. CASE Exit(w)        BY <3>3 DEF Exit
    <3>4. CASE RunTask(w)     BY <3>4 DEF RunTask, Twice
    <3>5. CASE SignalDone(w)  BY <3>5 DEF SignalDone
    <3> QED BY <2>1, <3>1, <3>2, <3>3, <3>4, <3>5 DEF WorkerStep
  <2>2. ASSUME NEW w \in Workers, SpuriousWakeup(w) PROVE TypeOK'
    BY <2>2 DEF SpuriousWakeup
  <2>3. CASE ExecuteInline        BY <2>3 DEF ExecuteInline
  <2>4. CASE StoreTask            BY <2>4 DEF StoreTask, Twice
  <2>5. CASE SpuriousOwnerWakeup  BY <2>5 DEF SpuriousOwnerWakeup, workerVars
  <2>6. CASE Destroy              BY <2>6 DEF Destroy, workerVars
  <2>7. CASE NotifyWorkers        BY <2>7 DEF NotifyWorkers, WakeWorkers
  <2>8. CASE AwaitCompletion      BY <2>8 DEF AwaitCompletion, workerVars
  <2>9. CASE Return               BY <2>9 DEF Return, workerVars
  <2>10. CASE NotifyShutdown      BY <2>10 DEF NotifyShutdown, WakeWorkers
  <2>11. CASE Join                BY <2>11 DEF Join, workerVars
  <2>12. CASE UNCHANGED vars      BY <2>12 DEF vars
  <2> QED
    BY <2>1, <2>2, <2>3, <2>4, <2>5, <2>6, <2>7, <2>8, <2>9, <2>10, <2>11, <2>12
    DEF Next, OwnerStep, Destroyed
<1>2. Announced'
  <2> USE DEF Announced, InCall
  <2>1. ASSUME NEW w \in Workers, WorkerStep(w) PROVE Announced'
    BY <2>1 DEF WorkerStep, AwaitTask, TakeTask, Exit, RunTask, SignalDone
  <2>2. CASE OwnerStep
    BY <2>2 DEF OwnerStep, NotifyWorkers, AwaitCompletion, Return, NotifyShutdown, Join
  <2>3. CASE ExecuteInline \/ StoreTask \/ SpuriousOwnerWakeup \/ Destroy
    BY <2>3 DEF ExecuteInline, StoreTask, SpuriousOwnerWakeup, Destroy
  <2>4. CASE UNCHANGED vars
    BY <2>4 DEF vars
  <2> QED
    BY <2>1, <2>2, <2>3, <2>4 DEF Next, Destroyed, SpuriousWakeup
<1>3. HeldWhileRunning'
  <2> USE DEF HeldWhileRunning, TypeOK
  <2>1. ASSUME NEW w \in Workers, WorkerStep(w) PROVE HeldWhileRunning'
    BY <2>1 DEF WorkerStep, AwaitTask, TakeTask, Exit, RunTask, SignalDone
  <2>2. CASE NotifyWorkers \/ NotifyShutdown
    BY <2>2 DEF NotifyWorkers, NotifyShutdown, WakeWorkers
  <2>3. CASE UNCHANGED <<pc, held>>
    BY <2>3
  <2> QED
    BY <2>1, <2>2, <2>3
    DEF Next, OwnerStep, AwaitCompletion, Return, Join, ExecuteInline, StoreTask,
        SpuriousOwnerWakeup, Destroy, Destroyed, SpuriousWakeup, vars, workerVars
<1>4. NoLostWakeup'
  <2> USE DEF NoLostWakeup, TypeOK
  <2>1. ASSUME NEW w \in Workers, WorkerStep(w) PROVE NoLostWakeup'
    BY <2>1 DEF WorkerStep, AwaitTask, TakeTask, Exit, RunTask, SignalDone
  <2>2. CASE NotifyWorkers \/ NotifyShutdown
    BY <2>2 DEF NotifyWorkers, NotifyShutdown, WakeWorkers
  <2>3. CASE AwaitCompletion \/ Return \/ Join
    BY <2>3 DEF AwaitCompletion, Return, Join, workerVars
  <2>4. CASE ExecuteInline \/ StoreTask \/ SpuriousOwnerWakeup \/ Destroy
    BY <2>4 DEF ExecuteInline, StoreTask, SpuriousOwnerWakeup, Destroy, workerVars
  <2>5. ASSUME NEW w \in Workers, SpuriousWakeup(w) PROVE NoLostWakeup'
    BY <2>5 DEF SpuriousWakeup
  <2>6. CASE UNCHANGED vars
    BY <2>6 DEF vars
  <2> QED
    BY <2>1, <2>2, <2>3, <2>4, <2>5, <2>6 DEF Next, OwnerStep, Destroyed
<1>5. CallerNotStranded'
  <2> USE DEF CallerNotStranded, N
  <2>1. ASSUME NEW w \in Workers, WorkerStep(w) PROVE CallerNotStranded'
    BY <2>1 DEF WorkerStep, AwaitTask, TakeTask, Exit, RunTask, SignalDone
  <2>2. CASE OwnerStep
    BY <2>2 DEF OwnerStep, NotifyWorkers, AwaitCompletion, Return, NotifyShutdown, Join
  <2>3. CASE ExecuteInline \/ StoreTask \/ SpuriousOwnerWakeup \/ Destroy
    BY <2>3 DEF ExecuteInline, StoreTask, SpuriousOwnerWakeup, Destroy
  <2>4. CASE UNCHANGED vars
    BY <2>4 DEF vars
  <2> QED
    BY <2>1, <2>2, <2>3, <2>4 DEF Next, Destroyed, SpuriousWakeup
<1>6. NothingOutlivesPool'
  <2> USE DEF NothingOutlivesPool, TypeOK
  <2>1. ASSUME NEW w \in Workers, WorkerStep(w) PROVE NothingOutlivesPool'
    BY <2>1 DEF WorkerStep, AwaitTask, TakeTask, Exit, RunTask, SignalDone
  <2>2. CASE OwnerStep
    BY <2>2 DEF OwnerStep, NotifyWorkers, AwaitCompletion, Return, NotifyShutdown, Join,
                HeldWhileRunning, workerVars
  <2>3. CASE ExecuteInline \/ StoreTask \/ SpuriousOwnerWakeup \/ Destroy
    BY <2>3 DEF ExecuteInline, StoreTask, SpuriousOwnerWakeup, Destroy
  <2>4. ASSUME NEW w \in Workers, SpuriousWakeup(w) PROVE NothingOutlivesPool'
    BY <2>4 DEF SpuriousWakeup
  <2>5. CASE UNCHANGED vars
    BY <2>5 DEF vars
  <2> QED
    BY <2>1, <2>2, <2>3, <2>4, <2>5 DEF Next, Destroyed
<1> QED
  BY <1>1, <1>2, <1>3, <1>4, <1>5, <1>6

\* The invariant holds in every reachable state.
THEOREM Invariance == Spec => []IInv
<1> QED
  BY InitEstablishes, StepPreserves, PTL DEF Spec

\* execute, workerLoop and the destructor keep every variable in its type.
THEOREM TypeCorrect == Spec => []TypeOK
<1>1. IInv => TypeOK
  BY DEF IInv
<1> QED
  BY <1>1, Invariance, PTL

\* No worker sleeps through a task or a shutdown that has been announced.
THEOREM WakeupsNotLost == Spec => []NoLostWakeup
<1>1. IInv => NoLostWakeup
  BY DEF IInv
<1> QED
  BY <1>1, Invariance, PTL

\* The caller of execute never sleeps once its predicate is true.
THEOREM CallerIsWoken == Spec => []CallerNotStranded
<1>1. IInv => CallerNotStranded
  BY DEF IInv
<1> QED
  BY <1>1, Invariance, PTL

\* After ~ThreadPool there is no thread and no copy of a task.
THEOREM PoolIsEmptied == Spec => []NothingOutlivesPool
<1>1. IInv => NothingOutlivesPool
  BY DEF IInv
<1> QED
  BY <1>1, Invariance, PTL

\* A worker starts a task only inside the execute call that stored it.
THEOREM TasksStartInsideTheirCall == Spec => StartsInsideCall
<1> DEFINE Starts(w) == pc[w] = "lock" /\ pc'[w] = "run"
<1>1. ASSUME IInv, [Next]_vars, NEW w \in Workers, Starts(w)
      PROVE InCall /\ held'[w] = calls
  <2> USE DEF IInv, TypeOK
  <2>1. TakeTask(w)
    <3>1. ASSUME NEW v \in Workers, WorkerStep(v) PROVE TakeTask(w)
      BY <1>1, <3>1 DEF WorkerStep, AwaitTask, TakeTask, Exit, RunTask, SignalDone
    <3>2. CASE NotifyWorkers \/ NotifyShutdown
      BY <1>1, <3>2 DEF NotifyWorkers, NotifyShutdown, WakeWorkers
    <3>3. ASSUME NEW v \in Workers, SpuriousWakeup(v) PROVE FALSE
      BY <1>1, <3>3 DEF SpuriousWakeup
    <3>4. CASE UNCHANGED pc
      BY <1>1, <3>4
    <3> QED
      BY <1>1, <3>1, <3>2, <3>3, <3>4
      DEF Next, OwnerStep, AwaitCompletion, Return, Join, ExecuteInline, StoreTask,
          SpuriousOwnerWakeup, Destroy, Destroyed, vars, workerVars
  <2> QED
    BY <1>1, <2>1 DEF TakeTask, Announced
<1>2. IInv /\ [Next]_vars =>
        [\A w \in Workers : Starts(w) => InCall /\ held'[w] = calls]_vars
  BY <1>1
<1> QED
  BY <1>2, Invariance, PTL DEF Spec, StartsInsideCall

-------------------------------------------------------------------------------
(* SmpBlur: the division of the frame among the threads. *)

\* Multiplication by a natural number preserves order.
LEMMA TimesMonotone ==
  ASSUME NEW q \in Nat, NEW a \in Nat, NEW b \in Nat, a <= b
  PROVE  a * q <= b * q
<1>1. PICK d \in Nat : b = a + d
  <2>1. b - a \in Nat /\ b = a + (b - a)
    OBVIOUS
  <2> QED BY <2>1
<1>2. b * q = a * q + d * q
  BY <1>1
<1>3. d * q \in Nat
  OBVIOUS
<1> QED
  BY <1>2, <1>3

\* A share ends where the next one starts, or before.
LEMMA SharesAreDisjoint ==
  ASSUME NEW h \in Nat, NEW m \in Nat \ {0},
         NEW t \in 0..(m - 1), NEW u \in 0..(m - 1), t # u
  PROVE  Share(h, m, t) \cap Share(h, m, u) = {}
<1> DEFINE q == h \div m
<1>0. q \in Nat
  OBVIOUS
<1>1. ASSUME NEW a \in 0..(m - 1), NEW b \in 0..(m - 1), a < b
      PROVE  Share(h, m, a) \cap Share(h, m, b) = {}
  <2>1. (a + 1) * q <= b * q
    BY <1>0, <1>1, TimesMonotone
  <2>2. (a + 1) * q = a * q + q /\ a * q \in Nat /\ b * q \in Nat
    BY <1>0
  <2>3. a # m - 1
    BY <1>1
  <2>4. EndRow(h, m, a) <= StartRow(h, m, b)
    BY <2>1, <2>2, <2>3 DEF EndRow, StartRow
  <2>5. EndRow(h, m, a) \in Int /\ StartRow(h, m, b) \in Int
    BY <2>2, <2>3, <1>0 DEF EndRow, StartRow
  <2> QED
    BY <2>4, <2>5 DEF Share
<1> QED
  <2>1. t < u \/ u < t
    OBVIOUS
  <2> QED
    BY <2>1, <1>1

-------------------------------------------------------------------------------
LEMMA BoundsInFrame ==
  ASSUME NEW h \in Nat, NEW m \in Nat \ {0}, NEW t \in 0..(m - 1)
  PROVE  StartRow(h, m, t) \in 0..h /\ EndRow(h, m, t) \in 0..h
<1> DEFINE q == h \div m
<1>0. q \in Nat /\ t * q \in Nat /\ m * q \in Nat /\ m * q <= h
  OBVIOUS
<1>1. (t + 1) * q <= m * q
  BY <1>0, TimesMonotone
<1>2. (t + 1) * q = t * q + q
  BY <1>0
<1> QED
  BY <1>0, <1>1, <1>2 DEF StartRow, EndRow

\* A row's owner is the thread whose share it is in.
LEMMA OwnerHasRow ==
  ASSUME cfg \in BlurSettings, NEW r \in Rows
  PROVE  OwnerOf(r) \in 0..(cfg.threads - 1) /\ r \in Own(OwnerOf(r))
<1> DEFINE h == cfg.height
           m == cfg.threads
           q == h \div m
<1>1. h \in Nat /\ m \in Nat \ {0} /\ r \in 0..(h - 1)
  BY BlurAssumption DEF Settings, Rows
<1>2. q \in Nat /\ (m - 1) * q \in Nat
  BY <1>1
<1>3. CASE q = 0
  <2>1. OwnerOf(r) = m - 1 /\ StartRow(h, m, m - 1) = 0 /\ EndRow(h, m, m - 1) = h
    BY <1>1, <1>3 DEF OwnerOf, StartRow, EndRow
  <2> QED
    BY <1>1, <2>1 DEF Own, Share
<1>4. CASE q # 0
  <2> DEFINE t == r \div q
  <2>1. t \in Nat /\ t * q <= r /\ r < t * q + q /\ r \in Nat
    BY <1>1, <1>2, <1>4
  <2>2. CASE t > m - 1
    <3>1. (m - 1) * q <= t * q
      BY <1>1, <1>2, <2>1, <2>2, TimesMonotone
    <3>2. OwnerOf(r) = m - 1 /\ StartRow(h, m, m - 1) = (m - 1) * q /\ EndRow(h, m, m - 1) = h
      BY <1>1, <1>4, <2>2 DEF OwnerOf, StartRow, EndRow
    <3> QED
      BY <1>1, <1>2, <2>1, <3>1, <3>2 DEF Own, Share
  <2>3. CASE ~(t > m - 1)
    <3>1. OwnerOf(r) = t /\ t \in 0..(m - 1)
      BY <1>1, <1>4, <2>1, <2>3 DEF OwnerOf
    <3>2. StartRow(h, m, t) <= r /\ r < EndRow(h, m, t)
      BY <1>1, <1>2, <2>1, <2>3 DEF StartRow, EndRow
    <3> QED
      BY <1>1, <3>1, <3>2 DEF Own, Share
  <2> QED
    BY <2>2, <2>3
<1> QED
  BY <1>3, <1>4

-------------------------------------------------------------------------------
(* The blur: its invariant. *)

BlurTyped ==
  /\ cfg \in BlurSettings /\ threads = 0..(cfg.threads - 1)
  /\ stage \in [Workers -> Stages]
  /\ step \in [Workers -> 0..(MaxHeight + Columns)]
  /\ framebuffer \in [0..(MaxHeight - 1) -> BlurLevels]
  /\ original \in [0..(MaxHeight - 1) -> BlurLevels]
  /\ temp \in [0..(MaxHeight - 1) -> BlurLevels]
  /\ blurred \in [0..(MaxHeight - 1) -> BlurLevels]
  /\ allocated \in BOOLEAN /\ stray \subseteq threads
  /\ blended \in [0..(MaxHeight - 1) -> Nat]
  /\ finished \in [Workers -> 0..MaxRuns]
  /\ rounds \in Nat /\ overtaken \in BOOLEAN

\* A thread is in renderBoxThreaded only while its worker runs the task.
ThreadsInTask ==
  \A t \in threads :
    /\ stage[t] # "left" => pc[t] = "run" /\ finished[t] < MaxRuns
    /\ stage[t] \notin {"entry", "left"} => Active
    /\ stage[t] = "copy" => t = 0
    /\ stage[t] = "vertical" => cfg.vertical
    /\ stage[t] \in {"horizontal", "blend"} => step[t] >= StartRow(cfg.height, cfg.threads, t)

\* How often thread t has blended row r of its share.
Due(t, r) ==
  IF ~Active THEN 0
  ELSE finished[t] + (IF stage[t] = "blend" /\ r < step[t] THEN 1 ELSE 0)

RunsCounted == \A t \in threads : \A r \in Own(t) : blended[r] = Due(t, r)

BlurInv == BlurTyped /\ ThreadsInTask /\ RunsCounted

LEMMA SettingsOK ==
  ASSUME BlurTyped
  PROVE  /\ cfg.height \in 1..MaxHeight /\ cfg.threads \in Nat \ {0, 1}
         /\ Rows \subseteq 0..(MaxHeight - 1) /\ MaxHeight \in Nat /\ Columns \in Nat
         /\ threads \subseteq Workers /\ 0 \in threads
<1>1. cfg \in Settings /\ MaxThreads \in Nat /\ Workers = 0..(MaxThreads - 1)
  BY BlurAssumption DEF BlurTyped
<1>2. cfg.height \in 1..MaxHeight /\ cfg.threads \in 2..MaxThreads
  BY <1>1 DEF Settings
<1>3. MaxHeight \in Nat /\ Columns \in Nat
  BY BlurAssumption
<1>4. threads = 0..(cfg.threads - 1)
  BY DEF BlurTyped
<1>5. cfg.threads \in Nat \ {0, 1} /\ threads \subseteq Workers /\ 0 \in threads
  BY <1>1, <1>2, <1>4
<1> QED
  BY <1>2, <1>3, <1>5 DEF Rows

\* The bounds of a thread's share and the rows in it.
LEMMA ShareOK ==
  ASSUME BlurTyped, NEW t \in threads
  PROVE  /\ StartRow(cfg.height, cfg.threads, t) \in 0..MaxHeight
         /\ EndRow(cfg.height, cfg.threads, t) \in 0..cfg.height
         /\ Own(t) \subseteq Rows
         /\ \A r \in Own(t) : /\ StartRow(cfg.height, cfg.threads, t) <= r
                              /\ r < EndRow(cfg.height, cfg.threads, t)
         /\ \A u \in threads : u # t => Own(u) \cap Own(t) = {}
<1>1. cfg.height \in 1..MaxHeight /\ cfg.threads \in Nat \ {0} /\ t \in 0..(cfg.threads - 1)
  BY SettingsOK DEF BlurTyped
<1>2. /\ StartRow(cfg.height, cfg.threads, t) \in 0..cfg.height
      /\ EndRow(cfg.height, cfg.threads, t) \in 0..cfg.height
  <2>1. cfg.height \in Nat
    BY <1>1, BlurAssumption
  <2> QED
    BY <1>1, <2>1, BoundsInFrame
<1>3. \A u \in threads : u # t => Own(u) \cap Own(t) = {}
  BY <1>1, SharesAreDisjoint DEF Own, BlurTyped
<1>4. MaxHeight \in Nat
  BY BlurAssumption
<1> QED
  BY <1>1, <1>2, <1>3, <1>4 DEF Own, Share, Rows

\* The row a thread is about to pass over or to blend is its own and no other thread's.
LEMMA NextRowIsOwn ==
  ASSUME BlurInv, NEW t \in threads, stage[t] \in {"horizontal", "blend"}, OwnRow(t)
  PROVE  /\ step[t] \in Rows /\ step[t] \in Own(t)
         /\ \A u \in threads : u # t => step[t] \notin Own(u)
<1>1. step[t] \in Nat /\ StartRow(cfg.height, cfg.threads, t) <= step[t]
  <2>1. t \in Workers /\ MaxHeight + Columns \in Nat
    BY SettingsOK DEF BlurInv
  <2> QED
    BY <2>1 DEF BlurInv, BlurTyped, ThreadsInTask
<1>2. step[t] \in Own(t)
  BY <1>1, SettingsOK, ShareOK DEF BlurInv, OwnRow, Own, Share
<1> QED
  BY <1>2, ShareOK DEF BlurInv

LEMMA BlurStarts == BlurInit => BlurInv
<1> SUFFICES ASSUME BlurInit PROVE BlurInv
  OBVIOUS
<1> USE DEF BlurInit
<1>1. /\ cfg \in Settings /\ MaxRuns \in Nat /\ MaxHeight \in Nat /\ Columns \in Nat
  BY BlurAssumption
<1>2. /\ AllRows(0) \in [0..(MaxHeight - 1) -> BlurLevels]
      /\ AllRows(Mixed) \in [0..(MaxHeight - 1) -> BlurLevels]
      /\ AllRows(0) \in [0..(MaxHeight - 1) -> Nat]
  BY DEF AllRows, BlurLevels
<1>3. BlurTyped
  <2>1. 0 \in 0..(MaxHeight + Columns) /\ 0 \in 0..MaxRuns
    BY <1>1
  <2>2. step \in [Workers -> 0..(MaxHeight + Columns)] /\ finished \in [Workers -> 0..MaxRuns]
    BY <2>1
  <2>3. stage \in [Workers -> Stages]
    BY DEF Stages
  <2> QED
    BY <1>2, <2>2, <2>3 DEF BlurTyped
<1>4. threads \subseteq Workers /\ \A t \in threads : Own(t) \subseteq 0..(MaxHeight - 1)
  BY <1>3, SettingsOK, ShareOK
<1>5. \A t \in threads : stage[t] = "left" /\ finished[t] = 0
  BY <1>4
<1>6. ThreadsInTask
  BY <1>5 DEF ThreadsInTask
<1>7. RunsCounted
  BY <1>4, <1>5 DEF RunsCounted, Due, AllRows
<1> QED
  BY <1>3, <1>6, <1>7 DEF BlurInv

-------------------------------------------------------------------------------
(* The blur: its steps. *)

\* Nothing of the pool stops a thread in the middle of the task.
LEMMA OutsideBlur ==
  ASSUME IInv, BlurInv, PoolAlone \/ NextPicture \/ UNCHANGED <<vars, blurVars>>
  PROVE  BlurInv'
<1>1. /\ UNCHANGED <<threads, cfg, stage, step, allocated, stray, blended, finished>>
      /\ \A t \in Workers : pc[t] = "run" => pc'[t] = "run"
  <2>1. CASE PoolAlone
    <3>1. UNCHANGED <<threads, blurVars>>
      BY <2>1 DEF PoolAlone, AwaitTask, SpuriousWakeup, Exit, SignalDone, NotifyWorkers, AwaitCompletion,
                  Return, SpuriousOwnerWakeup, Destroy, NotifyShutdown, Join, Destroyed, vars
    <3>2. \/ \E w \in Workers, s \in {"lock", "blocked", "exited"} :
               pc[w] # "run" /\ pc' = [pc EXCEPT ![w] = s]
          \/ WakeWorkers \/ pc' = pc
      BY <2>1 DEF PoolAlone, AwaitTask, SpuriousWakeup, Exit, SignalDone, NotifyWorkers, AwaitCompletion,
                  Return, SpuriousOwnerWakeup, Destroy, NotifyShutdown, Join, Destroyed, vars, workerVars
    <3>3. \A t \in Workers : pc[t] = "run" => pc'[t] = "run"
      BY <3>2 DEF WakeWorkers, IInv, TypeOK
    <3> QED
      BY <3>1, <3>3 DEF blurVars, blurHistories
  <2>2. CASE NextPicture
    BY <2>2 DEF NextPicture, StoreTask
  <2>3. CASE UNCHANGED <<vars, blurVars>>
    BY <2>3 DEF vars, blurVars, blurHistories
  <2> QED
    BY <2>1, <2>2, <2>3
<1>2. BlurTyped'
  <2>1. CASE UNCHANGED <<bufferRows, rounds, overtaken>>
    BY <1>1, <2>1 DEF BlurInv, BlurTyped, bufferRows
  <2>2. CASE NextPicture
    <3>1. AllRows(0) \in [0..(MaxHeight - 1) -> BlurLevels] /\ AllRows(Mixed) \in [0..(MaxHeight - 1) -> BlurLevels]
      BY DEF AllRows, BlurLevels
    <3> QED
      BY <1>1, <2>2, <3>1 DEF NextPicture, BlurInv, BlurTyped
  <2> QED
    BY <2>1, <2>2 DEF PoolAlone, blurVars, blurHistories
<1>3. threads \subseteq Workers
  BY SettingsOK DEF BlurInv
<1>4. ThreadsInTask' /\ RunsCounted'
  BY <1>1, <1>3 DEF BlurInv, ThreadsInTask, RunsCounted, Own, Due, Active
<1> QED
  BY <1>2, <1>4 DEF BlurInv

\* A worker takes the task with none of it done, and leaves with none of it left.
LEMMA TaskTaken ==
  ASSUME IInv, BlurInv, NEW t \in threads, TakeBlur(t) \/ EndTask(t)
  PROVE  BlurInv'
<1>1. t \in Workers /\ threads \subseteq Workers /\ MaxRuns \in Nat
  BY SettingsOK, BlurAssumption DEF BlurInv
<1>2. CASE TakeBlur(t)
  <2>1. /\ stage[t] = "left" /\ finished[t] < MaxRuns
        /\ stage' = [stage EXCEPT ![t] = "entry"] /\ pc' = [pc EXCEPT ![t] = "run"]
        /\ UNCHANGED <<threads, cfg, step, bufferRows, allocated, stray, blended, finished, rounds, overtaken>>
    BY <1>2 DEF TakeBlur, TakeTask, BlurInv, ThreadsInTask, blurHistories
  <2>2. BlurTyped'
    BY <2>1 DEF BlurInv, BlurTyped, Stages, bufferRows
  <2>3. ThreadsInTask' /\ RunsCounted'
    <3>1. pc'[t] = "run" /\ \A u \in threads : pc[u] = "run" => pc'[u] = "run"
      BY <1>1, <2>1 DEF IInv, TypeOK
    <3>2. stage'[t] = "entry" /\ \A u \in threads : u # t => stage'[u] = stage[u]
      BY <1>1, <2>1 DEF BlurInv, BlurTyped
    <3> QED
      BY <1>1, <2>1, <3>1, <3>2 DEF BlurInv, ThreadsInTask, RunsCounted, Own, Due, Active
  <2> QED
    BY <2>2, <2>3 DEF BlurInv
<1>3. CASE EndTask(t)
  <2>1. stage[t] = "left" /\ pc' = [pc EXCEPT ![t] = "signal"] /\ UNCHANGED <<threads, blurVars>>
    BY <1>3 DEF EndTask, RunTask
  <2> QED
    BY <1>1, <2>1 DEF BlurInv, BlurTyped, ThreadsInTask, RunsCounted, Own, Due, Active, blurVars,
                      blurHistories, bufferRows
<1> QED
  BY <1>2, <1>3

\* Going on to the next stage leaves the count of blends as it was.
LEMMA StageEntered ==
  ASSUME BlurInv, NEW t \in threads, Active, allocated' \in BOOLEAN,
         stage[t] \in {"entry", "copy", "horizontal", "vertical"},
         NEW next \in {"copy", "horizontal", "vertical", "blend"},
         next = "copy" => t = 0, next = "vertical" => cfg.vertical, Enter(t, next)
  PROVE  BlurInv'
<1>1. /\ threads \subseteq Workers /\ t \in Workers /\ MaxHeight \in Nat /\ Columns \in Nat
      /\ StartRow(cfg.height, cfg.threads, t) \in 0..MaxHeight
  BY SettingsOK, ShareOK DEF BlurInv
<1>2. /\ UNCHANGED <<threads, pc, cfg, framebuffer, original, temp, blurred, blended, finished, rounds, overtaken>>
      /\ stage' = [stage EXCEPT ![t] = next]
      /\ stray' \in {stray \ {t}, stray \cup {t}}
  BY DEF Enter, vars, bufferRows, blurHistories
<1> DEFINE s == IF next = "vertical" THEN 0 ELSE StartRow(cfg.height, cfg.threads, t)
<1>3. s \in 0..(MaxHeight + Columns) /\ step' = [step EXCEPT ![t] = s]
  BY <1>1 DEF Enter
<1>4. BlurTyped'
  BY <1>1, <1>2, <1>3 DEF BlurInv, BlurTyped, Stages
<1>5. /\ stage'[t] = next /\ step'[t] = s
      /\ \A u \in threads : u # t => stage'[u] = stage[u] /\ step'[u] = step[u]
  BY <1>1, <1>2, <1>3 DEF BlurInv, BlurTyped
<1>6. ThreadsInTask'
  BY <1>1, <1>2, <1>3, <1>5 DEF BlurInv, ThreadsInTask, Active
<1>7. ASSUME NEW u \in threads, NEW r \in Own(u)
      PROVE  Due(u, r)' = Due(u, r)
  <2>1. CASE u = t
    <3>1. ~(stage'[t] = "blend" /\ r < step'[t])
      <4>1. StartRow(cfg.height, cfg.threads, t) <= r /\ r \in Int
        BY <1>7, <2>1, ShareOK, SettingsOK DEF BlurInv, Own, Share
      <4> QED
        BY <1>1, <1>3, <1>5, <4>1
    <3> QED
      BY <1>2, <2>1, <3>1 DEF Due, Active
  <2>2. CASE u # t
    BY <1>2, <1>5, <2>2 DEF Due, Active
  <2> QED
    BY <2>1, <2>2
<1>8. RunsCounted'
  BY <1>2, <1>7 DEF BlurInv, RunsCounted, Own
<1> QED
  BY <1>4, <1>6, <1>8 DEF BlurInv

\* So does a row or column of a pass before the blend.
LEMMA RowPassed ==
  ASSUME BlurInv, NEW t \in threads, Continue(t),
         stage[t] \in {"copy", "horizontal", "vertical"}, step[t] < MaxHeight + Columns,
         original' \in [0..(MaxHeight - 1) -> BlurLevels], temp' \in [0..(MaxHeight - 1) -> BlurLevels],
         blurred' \in [0..(MaxHeight - 1) -> BlurLevels], UNCHANGED <<framebuffer, blended>>
  PROVE  BlurInv'
<1>1. /\ threads \subseteq Workers /\ t \in Workers /\ MaxHeight \in Nat /\ Columns \in Nat
      /\ StartRow(cfg.height, cfg.threads, t) \in 0..MaxHeight
  BY SettingsOK, ShareOK DEF BlurInv
<1>2. /\ UNCHANGED <<threads, pc, cfg, stage, framebuffer, allocated, stray, blended, finished, rounds, overtaken>>
      /\ step' = [step EXCEPT ![t] = step[t] + 1]
  BY DEF Continue, vars
<1>3. step[t] + 1 \in 0..(MaxHeight + Columns) /\ step[t] \in Nat
  BY <1>1 DEF BlurInv, BlurTyped
<1>4. BlurTyped'
  BY <1>2, <1>3 DEF BlurInv, BlurTyped
<1>5. step'[t] = step[t] + 1 /\ \A u \in threads : u # t => step'[u] = step[u]
  BY <1>1, <1>2 DEF BlurInv, BlurTyped
<1>6. ThreadsInTask'
  BY <1>1, <1>2, <1>3, <1>5 DEF BlurInv, ThreadsInTask, Active
<1>7. RunsCounted'
  BY <1>2, <1>5 DEF BlurInv, RunsCounted, Own, Due, Active
<1> QED
  BY <1>4, <1>6, <1>7 DEF BlurInv

\* A row is blended by its own thread, which then has it behind itself.
LEMMA RowBlended ==
  ASSUME BlurInv, NEW t \in threads, BlendRow(t)
  PROVE  BlurInv'
<1>1. /\ threads \subseteq Workers /\ t \in Workers /\ MaxHeight \in Nat /\ Columns \in Nat
      /\ stage[t] = "blend" /\ step[t] \in Rows /\ step[t] \in 0..(MaxHeight - 1)
      /\ step[t] \in Own(t) /\ \A u \in threads : u # t => step[t] \notin Own(u)
      /\ \A u \in threads : Own(u) \subseteq 0..(MaxHeight - 1)
  BY SettingsOK, ShareOK, NextRowIsOwn DEF BlurInv, BlendRow
<1>2. /\ UNCHANGED <<threads, pc, cfg, stage, original, temp, blurred, allocated, stray, finished, rounds, overtaken>>
      /\ step' = [step EXCEPT ![t] = step[t] + 1]
      /\ blended' = [blended EXCEPT ![step[t]] = blended[step[t]] + 1]
  BY DEF BlendRow, Continue, vars
<1>3. framebuffer' \in [0..(MaxHeight - 1) -> BlurLevels]
  <2>1. PICK level \in {blurred[step[t]] + 1, Mixed} :
          /\ framebuffer' = [framebuffer EXCEPT ![step[t]] = level]
          /\ level # Mixed => blurred[step[t]] # Mixed
    BY DEF BlendRow
  <2>2. blurred[step[t]] \in BlurLevels
    BY <1>1 DEF BlurInv, BlurTyped
  <2>3. level \in BlurLevels
    BY <2>1, <2>2 DEF BlurLevels
  <2> QED
    BY <2>1, <2>3 DEF BlurInv, BlurTyped
<1>4. step[t] + 1 \in 0..(MaxHeight + Columns) /\ step[t] \in Nat /\ blended[step[t]] + 1 \in Nat
  BY <1>1 DEF BlurInv, BlurTyped
<1>5. BlurTyped'
  BY <1>2, <1>3, <1>4 DEF BlurInv, BlurTyped
<1>6. step'[t] = step[t] + 1 /\ \A u \in threads : u # t => step'[u] = step[u]
  BY <1>1, <1>2 DEF BlurInv, BlurTyped
<1>7. ThreadsInTask'
  <2>1. StartRow(cfg.height, cfg.threads, t) \in Int /\ step[t] \in Int
    BY <1>4, ShareOK, BlurAssumption DEF BlurInv
  <2> QED
    BY <1>1, <1>2, <1>6, <2>1 DEF BlurInv, ThreadsInTask, Active
<1>8. ASSUME NEW u \in threads, NEW r \in Own(u) PROVE blended'[r] = Due(u, r)'
  <2>1. r \in 0..(MaxHeight - 1) /\ blended[r] = Due(u, r) /\ Active
    BY <1>1, <1>8 DEF BlurInv, RunsCounted, ThreadsInTask
  <2>2. Active' /\ stage'[u] = stage[u] /\ finished'[u] = finished[u]
    BY <1>2, <2>1 DEF Active
  <2>3. blended'[r] = IF r = step[t] THEN blended[r] + 1 ELSE blended[r]
    BY <1>2, <2>1 DEF BlurInv, BlurTyped
  <2>4. CASE u = t
    <3>1. blended[r] = finished[t] + (IF r < step[t] THEN 1 ELSE 0)
      BY <1>1, <2>1, <2>4 DEF Due
    <3>2. Due(t, r)' = finished[t] + (IF r < step[t] + 1 THEN 1 ELSE 0)
      BY <1>1, <1>6, <2>2, <2>4 DEF Due
    <3>3. finished[t] \in Int
      BY <1>1, BlurAssumption DEF BlurInv, BlurTyped
    <3> QED
      BY <1>4, <2>1, <2>3, <2>4, <3>1, <3>2, <3>3
  <2>5. CASE u # t
    BY <1>1, <1>6, <1>8, <2>1, <2>2, <2>3, <2>5 DEF Due
  <2> QED
    BY <2>4, <2>5
<1>9. RunsCounted'
  BY <1>2, <1>8 DEF RunsCounted, Own
<1> QED
  BY <1>5, <1>7, <1>9 DEF BlurInv

\* A run that ends has blended each row of the thread's share, or there is nothing to do.
LEMMA RunEnded ==
  ASSUME BlurInv, NEW t \in threads, NothingToDo(t) \/ BlendDone(t)
  PROVE  BlurInv'
<1>1. /\ threads \subseteq Workers /\ t \in Workers /\ MaxRuns \in Nat
  BY SettingsOK, BlurAssumption DEF BlurInv
<1>2. /\ UNCHANGED <<threads, pc, cfg, step, framebuffer, original, temp, blurred, allocated, stray, blended, overtaken>>
      /\ stage' = [stage EXCEPT ![t] = "left"]
      /\ finished' = [finished EXCEPT ![t] = finished[t] + 1]
      /\ rounds' \in {rounds, rounds + 1}
  BY DEF NothingToDo, BlendDone, Leave, vars, bufferRows
<1>3. finished[t] + 1 \in 0..MaxRuns /\ finished[t] \in Nat
  BY <1>1 DEF BlurInv, BlurTyped, ThreadsInTask, NothingToDo, BlendDone
<1>4. BlurTyped'
  <2>1. rounds' \in Nat
    BY <1>2 DEF BlurInv, BlurTyped
  <2>2. stage' \in [Workers -> Stages] /\ finished' \in [Workers -> 0..MaxRuns]
    BY <1>2, <1>3 DEF BlurInv, BlurTyped, Stages
  <2> QED
    BY <1>2, <2>1, <2>2 DEF BlurInv, BlurTyped
<1>5. /\ stage'[t] = "left" /\ finished'[t] = finished[t] + 1
      /\ \A u \in threads : u # t => stage'[u] = stage[u] /\ finished'[u] = finished[u]
  BY <1>1, <1>2 DEF BlurInv, BlurTyped
<1>6. ThreadsInTask'
  BY <1>2, <1>5 DEF BlurInv, ThreadsInTask, Active
<1>7. ASSUME NEW u \in threads, NEW r \in Own(u) PROVE Due(u, r)' = Due(u, r)
  <2>1. CASE u # t \/ ~Active
    BY <1>2, <1>5, <2>1 DEF Due, Active
  <2>2. CASE u = t /\ Active
    <3>1. stage[t] = "blend" /\ ~OwnRow(t)
      BY <2>2 DEF NothingToDo, BlendDone
    <3>2. r < step[t]
      <4>1. r \in Int /\ r < EndRow(cfg.height, cfg.threads, t)
        BY <1>7, <2>2 DEF Own, Share
      <4>2. EndRow(cfg.height, cfg.threads, t) \in Int /\ step[t] \in Int
        <5>1. BlurTyped
          BY DEF BlurInv
        <5>2. EndRow(cfg.height, cfg.threads, t) \in Int
          BY <5>1, ShareOK
        <5>3. step[t] \in Int
          BY <1>1, <5>1 DEF BlurTyped
        <5> QED
          BY <5>2, <5>3
      <4> QED
        BY <3>1, <4>1, <4>2 DEF OwnRow
    <3>3. Active' /\ Due(t, r)' = finished[t] + 1 + 0
      BY <1>2, <1>5, <2>2 DEF Due, Active
    <3>4. Due(t, r) = finished[t] + 1
      BY <2>2, <3>1, <3>2 DEF Due
    <3> QED
      BY <1>3, <2>2, <3>3, <3>4
  <2> QED
    BY <2>1, <2>2
<1>8. RunsCounted'
  BY <1>2, <1>7 DEF BlurInv, RunsCounted, Own
<1> QED
  BY <1>4, <1>6, <1>8 DEF BlurInv

\* What a pass writes to a buffer is of a level.
LEMMA PassesKept ==
  ASSUME BlurInv, NEW t \in threads,
         \/ Prepare \/ CopyRow \/ CopyDone \/ EnterPasses(t)
         \/ HorizontalRow(t) \/ HorizontalDone(t) \/ VerticalColumn(t) \/ VerticalDone(t)
  PROVE  BlurInv'
<1>1. /\ 0 \in threads /\ threads \subseteq Workers /\ Rows \subseteq 0..(MaxHeight - 1)
      /\ MaxHeight \in Nat /\ Columns \in Nat \ {0} /\ cfg.height \in Nat
      /\ \A u \in threads : step[u] \in Nat
  <2>1. /\ 0 \in threads /\ threads \subseteq Workers /\ Rows \subseteq 0..(MaxHeight - 1)
        /\ MaxHeight \in Nat /\ Columns \in Nat \ {0} /\ cfg.height \in 1..MaxHeight
    BY SettingsOK, BlurAssumption DEF BlurInv
  <2>2. \A u \in Workers : step[u] \in Nat
    BY <2>1 DEF BlurInv, BlurTyped
  <2> QED
    BY <2>1, <2>2
<1>2. /\ original \in [0..(MaxHeight - 1) -> BlurLevels] /\ temp \in [0..(MaxHeight - 1) -> BlurLevels]
      /\ blurred \in [0..(MaxHeight - 1) -> BlurLevels] /\ framebuffer \in [0..(MaxHeight - 1) -> BlurLevels]
      /\ allocated \in BOOLEAN
  BY DEF BlurInv, BlurTyped
<1>3. \A u \in threads : stage[u] \notin {"entry", "left"} => Active
  BY DEF BlurInv, ThreadsInTask
<1>4. CASE Prepare
  BY <1>1, <1>4, StageEntered DEF Prepare
<1>5. CASE CopyRow
  <2>1. original' \in [0..(MaxHeight - 1) -> BlurLevels] /\ step[0] < MaxHeight + Columns
    BY <1>1, <1>2, <1>5 DEF CopyRow
  <2> QED
    BY <1>1, <1>2, <1>5, <2>1, RowPassed DEF CopyRow
<1>6. CASE CopyDone
  BY <1>1, <1>2, <1>3, <1>6, StageEntered DEF CopyDone
<1>7. CASE EnterPasses(t)
  BY <1>2, <1>7, StageEntered DEF EnterPasses
<1>8. CASE HorizontalRow(t)
  <2>1. step[t] \in 0..(MaxHeight - 1) /\ step[t] < MaxHeight + Columns
    BY <1>1, <1>8, NextRowIsOwn DEF HorizontalRow
  <2>2. original[step[t]] \in BlurLevels
    BY <1>2, <2>1
  <2>3. temp' \in [0..(MaxHeight - 1) -> BlurLevels] /\ blurred' \in [0..(MaxHeight - 1) -> BlurLevels]
        /\ UNCHANGED <<framebuffer, original, blended>>
    BY <1>2, <1>8, <2>2 DEF HorizontalRow
  <2> QED
    BY <1>2, <1>8, <2>1, <2>3, RowPassed DEF HorizontalRow
<1>9. CASE HorizontalDone(t)
  BY <1>2, <1>3, <1>9, StageEntered DEF HorizontalDone
<1>10. CASE VerticalColumn(t)
  <2>1. step[t] < MaxHeight + Columns
    BY <1>1, <1>10 DEF VerticalColumn
  <2>2. blurred' \in [0..(MaxHeight - 1) -> BlurLevels]
    <3>1. Mixed \in BlurLevels
      BY DEF BlurLevels
    <3>2. \A r \in 0..(MaxHeight - 1) : blurred[r] \in BlurLevels /\ temp[r] \in BlurLevels /\ original[r] \in BlurLevels
      BY <1>2
    <3> QED
      BY <1>2, <1>10, <3>1, <3>2 DEF VerticalColumn
  <2> QED
    BY <1>2, <1>10, <2>1, <2>2, RowPassed DEF VerticalColumn
<1>11. CASE VerticalDone(t)
  BY <1>2, <1>3, <1>11, StageEntered DEF VerticalDone
<1> QED
  BY <1>4, <1>5, <1>6, <1>7, <1>8, <1>9, <1>10, <1>11

LEMMA BlurIsOfPool ==
  /\ BlurInit => Init
  /\ IInv /\ [BlurNext]_<<vars, blurVars>> => [Next]_vars
<1>1. BlurInit => Init
  BY DEF BlurInit
<1>2. ASSUME IInv, BlurNext PROVE Next \/ UNCHANGED vars
  <2>1. ASSUME PoolAlone PROVE Next
    BY <2>1 DEF PoolAlone, Next, WorkerStep, OwnerStep
  <2>2. ASSUME NextPicture PROVE Next
    BY <2>2 DEF NextPicture, Next
  <2>3. ASSUME NEW t \in threads, TakeBlur(t) \/ EndTask(t) PROVE Next
    <3>1. t \in Workers
      BY <1>2 DEF IInv, TypeOK
    <3> QED
      BY <2>3, <3>1 DEF TakeBlur, EndTask, Next, WorkerStep
  <2>4. ASSUME NEW t \in threads, BlurStep(t) PROVE UNCHANGED vars
    BY <2>4 DEF BlurStep, NothingToDo, EnterPasses, HorizontalRow, HorizontalDone,
                VerticalColumn, VerticalDone, BlendRow, BlendDone, Enter, Continue, Leave
  <2>5. ASSUME Prepare \/ CopyRow \/ CopyDone PROVE UNCHANGED vars
    BY <2>5 DEF Prepare, CopyRow, CopyDone, Enter, Continue
  <2> QED
    BY <1>2, <2>1, <2>2, <2>3, <2>4, <2>5 DEF BlurNext
<1> QED
  BY <1>1, <1>2 DEF vars

LEMMA BlurKept == IInv /\ BlurInv /\ [BlurNext]_<<vars, blurVars>> => BlurInv'
<1> SUFFICES ASSUME IInv, BlurInv, [BlurNext]_<<vars, blurVars>> PROVE BlurInv'
  OBVIOUS
<1>1. 0 \in threads
  BY SettingsOK DEF BlurInv
<1>2. ASSUME NEW t \in threads, TakeBlur(t) \/ BlurStep(t) \/ EndTask(t) PROVE BlurInv'
  BY <1>2, TaskTaken, PassesKept, RowBlended, RunEnded DEF BlurStep
<1> QED
  BY <1>1, <1>2, OutsideBlur, PassesKept DEF BlurNext

\* The invariant of the blur holds in every reachable state, under the pool's.
THEOREM BlurInvariance == BlurSpec => [](IInv /\ BlurInv)
<1>1. BlurInit => IInv /\ BlurInv
  BY BlurIsOfPool, InitEstablishes, BlurStarts
<1>2. IInv /\ BlurInv /\ [BlurNext]_<<vars, blurVars>> => IInv' /\ BlurInv'
  BY BlurIsOfPool, StepPreserves, BlurKept
<1> QED
  BY <1>1, <1>2, PTL DEF BlurSpec

\* Every row and buffer of the blur is of its type, and no thread goes past the last row
\* or column, in any order of steps of any number of threads under the pool.
THEOREM BlurTypes == BlurSpec => []BlurTypeOK
<1>1. IInv /\ BlurInv => BlurTypeOK
  BY DEF IInv, BlurInv, BlurTyped, BlurTypeOK
<1> QED
  BY <1>1, BlurInvariance, PTL

\* For every height, number of threads and history of the pool, a row is blended by the
\* one thread whose share it is in, once in each of that thread's runs of the task.
THEOREM RowsAlwaysFollowRuns == BlurSpec => []RowsFollowRuns
<1>1. ASSUME BlurInv PROVE RowsFollowRuns
  <2> SUFFICES ASSUME NEW r \in Rows PROVE blended[r] = Due(OwnerOf(r), r)
    BY DEF RowsFollowRuns, Due
  <2>1. OwnerOf(r) \in threads /\ r \in Own(OwnerOf(r))
    BY <1>1, OwnerHasRow DEF BlurInv, BlurTyped
  <2> QED
    BY <1>1, <2>1 DEF BlurInv, RunsCounted
<1> QED
  BY <1>1, BlurInvariance, PTL

-------------------------------------------------------------------------------
(* The blur: the share of thread 0. *)

\* Only thread 0 writes what it reads: without the vertical pass each of its buffers
\* holds the rows of its share at the level its run began with, as far as it has come.
OwnShareKept ==
  /\ stage[0] \notin {"entry", "left"} => allocated /\ 0 \notin stray
  /\ Active /\ ~cfg.vertical /\ ~overtaken =>
       \A r \in Own(0) :
         /\ framebuffer[r] = rounds + (IF stage[0] = "blend" /\ r < step[0] THEN 1 ELSE 0)
         /\ (stage[0] = "copy" /\ r < step[0]) \/ stage[0] \in {"horizontal", "blend"}
              => original[r] = rounds
         /\ (stage[0] = "horizontal" /\ r < step[0]) \/ stage[0] = "blend"
              => blurred[r] = rounds

LEMMA OwnShareStarts == BlurInit => OwnShareKept
<1> SUFFICES ASSUME BlurInit PROVE OwnShareKept
  OBVIOUS
<1>1. BlurTyped
  BY BlurStarts DEF BlurInv
<1>2. 0 \in Workers /\ Own(0) \subseteq 0..(MaxHeight - 1)
  BY <1>1, SettingsOK, ShareOK
<1> QED
  BY <1>2 DEF BlurInit, OwnShareKept, AllRows

\* What every step of the passes relies on.
LEMMA ThreadZero ==
  ASSUME BlurInv
  PROVE  /\ 0 \in threads /\ 0 \in Workers /\ step[0] \in Nat /\ stage[0] \in Stages
         /\ StartRow(cfg.height, cfg.threads, 0) \in Nat
         /\ \A r \in Own(0) : /\ r \in Rows /\ r \in Nat /\ r \in 0..(MaxHeight - 1)
                              /\ StartRow(cfg.height, cfg.threads, 0) <= r
                              /\ r < EndRow(cfg.height, cfg.threads, 0)
         /\ EndRow(cfg.height, cfg.threads, 0) \in Nat /\ cfg.height \in Nat
<1>1. 0 \in threads /\ threads \subseteq Workers /\ Rows \subseteq 0..(MaxHeight - 1)
      /\ cfg.height \in Nat /\ MaxHeight \in Nat /\ Columns \in Nat
  BY SettingsOK DEF BlurInv
<1>2. /\ StartRow(cfg.height, cfg.threads, 0) \in Nat /\ EndRow(cfg.height, cfg.threads, 0) \in Nat
      /\ Own(0) \subseteq Rows
      /\ \A r \in Own(0) : StartRow(cfg.height, cfg.threads, 0) <= r /\ r < EndRow(cfg.height, cfg.threads, 0)
  BY <1>1, ShareOK DEF BlurInv
<1>3. step[0] \in Nat /\ stage[0] \in Stages
  BY <1>1 DEF BlurInv, BlurTyped
<1> QED
  BY <1>1, <1>2, <1>3 DEF Rows

LEMMA OwnShareOutside ==
  ASSUME BlurInv, OwnShareKept,
         \/ PoolAlone \/ NextPicture \/ UNCHANGED <<vars, blurVars>>
         \/ \E t \in threads : TakeBlur(t) \/ EndTask(t) \/ NothingToDo(t)
  PROVE  OwnShareKept'
<1>1. CASE PoolAlone \/ UNCHANGED <<vars, blurVars>> \/ \E t \in threads : EndTask(t)
  <2>1. UNCHANGED blurVars
    BY <1>1 DEF PoolAlone, EndTask
  <2> QED
    BY <2>1 DEF blurVars, blurHistories, bufferRows, OwnShareKept, Own, Active
<1>2. CASE NextPicture
  <2>1. /\ UNCHANGED <<cfg, stage, step, allocated, stray>> /\ framebuffer' = AllRows(0) /\ rounds' = 0
        /\ ~overtaken' => stage[0] \in {"entry", "left"}
    BY <1>2 DEF NextPicture
  <2>2. \A r \in Own(0) : framebuffer'[r] = 0
    BY <2>1, ThreadZero DEF AllRows
  <2> QED
    BY <2>1, <2>2 DEF OwnShareKept, Own, Active
<1>3. ASSUME NEW t \in threads, TakeBlur(t) PROVE OwnShareKept'
  <2>1. /\ stage' = [stage EXCEPT ![t] = "entry"] /\ stage[t] = "left"
        /\ UNCHANGED <<cfg, step, bufferRows, allocated, stray, blurHistories>>
    BY <1>3 DEF TakeBlur, TakeTask, BlurInv, ThreadsInTask
  <2>2. stage'[0] = stage[0] \/ (stage[0] = "left" /\ stage'[0] = "entry")
    <3>1. ASSUME t # 0 PROVE stage'[0] = stage[0]
      BY <2>1, <3>1, ThreadZero DEF BlurInv, BlurTyped
    <3>2. ASSUME t = 0 PROVE stage[0] = "left" /\ stage'[0] = "entry"
      BY <2>1, <3>2, ThreadZero DEF BlurInv, BlurTyped
    <3> QED
      BY <3>1, <3>2
  <2> QED
    BY <2>1, <2>2 DEF OwnShareKept, Own, Active, bufferRows, blurHistories
<1>4. ASSUME NEW t \in threads, NothingToDo(t) PROVE OwnShareKept'
  <2>1. /\ ~Active /\ stage' = [stage EXCEPT ![t] = "left"] /\ UNCHANGED <<cfg, allocated, stray>>
    BY <1>4 DEF NothingToDo, Leave
  <2>2. ~Active' /\ stage'[0] \in {stage[0], "left"}
    BY <2>1, ThreadZero DEF BlurInv, BlurTyped, Active
  <2> QED
    BY <2>1, <2>2 DEF OwnShareKept
<1> QED
  BY <1>1, <1>2, <1>3, <1>4

\* Thread 0 copies the rows of its share as they are and goes on with good pointers.
LEMMA OwnShareCopied ==
  ASSUME BlurInv, OwnShareKept, Prepare \/ CopyRow \/ CopyDone
  PROVE  OwnShareKept'
<1> USE ThreadZero
<1>1. CASE Prepare
  <2>1. /\ stage'[0] = "copy" /\ allocated' /\ 0 \notin stray' /\ stage[0] = "entry"
        /\ step'[0] = StartRow(cfg.height, cfg.threads, 0)
        /\ UNCHANGED <<cfg, framebuffer, rounds, overtaken>>
    BY <1>1 DEF Prepare, Enter, BlurInv, BlurTyped, bufferRows, blurHistories
  <2>2. \A r \in Own(0) : ~(r < step'[0])
    BY <2>1
  <2> QED
    BY <2>1, <2>2 DEF OwnShareKept, Own, Active
<1>2. CASE CopyRow
  <2>1. /\ stage[0] = "copy" /\ step'[0] = step[0] + 1
        /\ original' = [original EXCEPT ![step[0]] = framebuffer[step[0]]]
        /\ UNCHANGED <<cfg, stage, framebuffer, blurred, allocated, stray, rounds, overtaken>>
    BY <1>2 DEF CopyRow, Continue, BlurInv, BlurTyped
  <2>2. ASSUME Active, ~cfg.vertical, ~overtaken, NEW r \in Own(0), r < step[0] + 1
        PROVE  original'[r] = rounds
    <3>1. framebuffer[r] = rounds /\ (r < step[0] => original[r] = rounds)
      BY <2>1, <2>2 DEF OwnShareKept, BlurInv, BlurTyped
    <3>2. r = step[0] \/ r < step[0]
      BY <2>2
    <3> QED
      BY <2>1, <3>1, <3>2 DEF BlurInv, BlurTyped
  <2> QED
    BY <2>1, <2>2 DEF OwnShareKept, Own, Active
<1>3. CASE CopyDone
  <2>1. /\ stage'[0] = "horizontal" /\ stage[0] = "copy" /\ allocated' = allocated
        /\ step'[0] = StartRow(cfg.height, cfg.threads, 0)
        /\ stray' = IF allocated' THEN stray \ {0} ELSE stray \cup {0}
        /\ UNCHANGED <<cfg, framebuffer, original, rounds, overtaken>>
    BY <1>3 DEF CopyDone, Enter, BlurInv, BlurTyped, bufferRows, blurHistories
  <2>2. \A r \in Own(0) : r < step[0] /\ ~(r < step'[0])
    BY <1>3, <2>1 DEF CopyDone, Rows
  <2> QED
    BY <2>1, <2>2 DEF OwnShareKept, Own, Active
<1> QED
  BY <1>1, <1>2, <1>3

\* The passes of the other threads are over rows of their own.
LEMMA OwnSharePassed ==
  ASSUME BlurInv, OwnShareKept, NEW t \in threads,
         EnterPasses(t) \/ HorizontalRow(t) \/ HorizontalDone(t) \/ VerticalColumn(t) \/ VerticalDone(t)
  PROVE  OwnShareKept'
<1> USE ThreadZero
<1>1. ASSUME NEW next \in {"horizontal", "vertical", "blend"}, Enter(t, next), UNCHANGED allocated,
             stage[t] \notin {"blend", "left"}, t = 0 => stage[0] \notin {"entry", "copy"},
             t = 0 /\ ~cfg.vertical =>
               next = "blend" /\ stage[0] = "horizontal" /\ \A r \in Own(0) : r < step[0]
      PROVE  OwnShareKept'
  <2>1. /\ UNCHANGED <<cfg, framebuffer, original, blurred, allocated, rounds, overtaken>>
        /\ stage' = [stage EXCEPT ![t] = next]
        /\ stray' = IF allocated THEN stray \ {t} ELSE stray \cup {t}
        /\ step' = [step EXCEPT ![t] = IF next = "vertical" THEN 0
                                       ELSE StartRow(cfg.height, cfg.threads, t)]
    BY <1>1 DEF Enter, bufferRows, blurHistories
  <2>2. CASE t # 0
    <3>1. stage'[0] = stage[0] /\ step'[0] = step[0] /\ (0 \in stray' <=> 0 \in stray)
      BY <2>1, <2>2 DEF BlurInv, BlurTyped
    <3> QED
      BY <2>1, <3>1 DEF OwnShareKept, Own, Active
  <2>3. CASE t = 0
    <3>1. /\ stage'[0] = next
          /\ ~cfg.vertical => step'[0] = StartRow(cfg.height, cfg.threads, 0)
      BY <1>1, <2>1, <2>3 DEF BlurInv, BlurTyped
    <3>2. allocated' /\ 0 \notin stray'
      BY <1>1, <2>1, <2>3 DEF OwnShareKept
    <3>3. ASSUME Active', ~cfg.vertical, ~overtaken, NEW r \in Own(0)
          PROVE  /\ framebuffer[r] = rounds + 0 /\ original[r] = rounds /\ blurred[r] = rounds
                 /\ stage'[0] = "blend" /\ ~(r < step'[0])
      <4>1. Active /\ stage[0] = "horizontal" /\ r < step[0] /\ stage'[0] = "blend"
        BY <1>1, <2>1, <2>3, <3>1, <3>3 DEF Active
      <4>2. ~(r < step'[0])
        BY <3>1, <3>3
      <4> QED
        BY <3>3, <4>1, <4>2 DEF OwnShareKept
    <3>4. Own(0)' = Own(0) /\ rounds' = rounds /\ overtaken' = overtaken /\ cfg' = cfg
      BY <2>1 DEF Own
    <3> QED
      BY <2>1, <3>2, <3>3, <3>4 DEF OwnShareKept
  <2> QED
    BY <2>2, <2>3
<1>2. CASE EnterPasses(t)
  BY <1>1, <1>2 DEF EnterPasses
<1>3. CASE HorizontalDone(t)
  <2>1. Active
    BY <1>3 DEF HorizontalDone, BlurInv, ThreadsInTask
  <2>2. t = 0 /\ ~cfg.vertical => \A r \in Own(0) : r < step[0]
    BY <1>3, <2>1 DEF HorizontalDone, OwnRow, Active
  <2> QED
    BY <1>1, <1>3, <2>2 DEF HorizontalDone
<1>4. CASE VerticalDone(t)
  <2>1. cfg.vertical
    BY <1>4 DEF VerticalDone, BlurInv, ThreadsInTask
  <2> QED
    BY <1>1, <1>4, <2>1 DEF VerticalDone
<1>5. CASE VerticalColumn(t)
  <2>1. cfg.vertical /\ UNCHANGED <<cfg, stage, allocated, stray>>
    BY <1>5 DEF VerticalColumn, Continue, BlurInv, ThreadsInTask
  <2> QED
    BY <2>1 DEF OwnShareKept
<1>6. CASE HorizontalRow(t)
  <2>1. /\ stage[t] = "horizontal" /\ step' = [step EXCEPT ![t] = step[t] + 1]
        /\ UNCHANGED <<cfg, stage, framebuffer, original, allocated, stray, rounds, overtaken>>
    BY <1>6 DEF HorizontalRow, Continue
  <2>2. step[t] \in Own(t) /\ \A u \in threads : u # t => step[t] \notin Own(u)
    BY <1>6, NextRowIsOwn DEF HorizontalRow
  <2>3. ASSUME Active, ~cfg.vertical, ~overtaken, NEW r \in Own(0)
        PROVE  (stage[0] = "horizontal" /\ r < step'[0]) \/ stage[0] = "blend" => blurred'[r] = rounds
    <3>1. CASE t # 0
      <4>1. step'[0] = step[0] /\ r # step[t]
        BY <2>1, <2>2, <2>3, <3>1 DEF BlurInv, BlurTyped
      <4>2. blurred' = blurred \/ blurred' = [blurred EXCEPT ![step[t]] = original[step[t]]]
        BY <1>6 DEF HorizontalRow
      <4>3. blurred'[r] = blurred[r]
        BY <4>1, <4>2 DEF BlurInv, BlurTyped
      <4> QED
        BY <2>3, <4>1, <4>3 DEF OwnShareKept
    <3>2. CASE t = 0
      <4>1. step'[0] = step[0] + 1 /\ 0 \notin stray
        BY <2>1, <3>2 DEF BlurInv, BlurTyped, OwnShareKept
      <4>2. blurred' = [blurred EXCEPT ![step[0]] = original[step[0]]]
        BY <1>6, <2>3, <3>2, <4>1 DEF HorizontalRow
      <4>3. original[r] = rounds /\ (r < step[0] => blurred[r] = rounds)
        BY <2>1, <2>3, <3>2 DEF OwnShareKept
      <4>4. r < step'[0] => r = step[0] \/ r < step[0]
        BY <2>3, <4>1
      <4> QED
        BY <2>1, <2>3, <3>2, <4>2, <4>3, <4>4 DEF BlurInv, BlurTyped
    <3> QED
      BY <3>1, <3>2
  <2>4. ASSUME stage[0] # "horizontal" PROVE step'[0] = step[0]
    BY <2>1, <2>4 DEF BlurInv, BlurTyped
  <2> QED
    BY <2>1, <2>3, <2>4 DEF OwnShareKept, Own, Active
<1> QED
  BY <1>2, <1>3, <1>4, <1>5, <1>6

\* A blended row of thread 0 is a level higher, and all of them are when its run ends.
LEMMA OwnShareBlended ==
  ASSUME BlurInv, OwnShareKept, NEW t \in threads, BlendRow(t) \/ BlendDone(t)
  PROVE  OwnShareKept'
<1> USE ThreadZero
<1>1. CASE BlendRow(t)
  <2>1. /\ stage[t] = "blend" /\ step' = [step EXCEPT ![t] = step[t] + 1]
        /\ UNCHANGED <<cfg, stage, original, blurred, allocated, stray, rounds, overtaken>>
    BY <1>1 DEF BlendRow, Continue
  <2>2. step[t] \in Own(t) /\ \A u \in threads : u # t => step[t] \notin Own(u)
    BY <1>1, NextRowIsOwn DEF BlendRow
  <2>3. ASSUME Active, ~cfg.vertical, ~overtaken, NEW r \in Own(0)
        PROVE  framebuffer'[r] = rounds + (IF stage[0] = "blend" /\ r < step'[0] THEN 1 ELSE 0)
    <3>1. CASE t # 0
      <4>1. step'[0] = step[0] /\ r # step[t]
        BY <2>1, <2>2, <2>3, <3>1 DEF BlurInv, BlurTyped
      <4>2. framebuffer'[r] = framebuffer[r]
        BY <1>1, <4>1 DEF BlendRow, BlurInv, BlurTyped
      <4> QED
        BY <2>3, <4>1, <4>2 DEF OwnShareKept
    <3>2. CASE t = 0
      <4>1. step'[0] = step[0] + 1 /\ 0 \notin stray /\ rounds \in Nat
        BY <2>1, <3>2 DEF BlurInv, BlurTyped, OwnShareKept
      <4>2. original[r] = rounds /\ blurred[r] = rounds
            /\ framebuffer[r] = rounds + (IF r < step[0] THEN 1 ELSE 0)
        BY <2>1, <2>3, <3>2 DEF OwnShareKept
      <4>3. CASE r = step[0]
        <5>0. blurred[r] # Mixed /\ original[r] = blurred[r]
          BY <4>1, <4>2 DEF Mixed
        <5>1. framebuffer' = [framebuffer EXCEPT ![r] = blurred[r] + 1]
          BY <1>1, <3>2, <4>1, <4>3, <5>0 DEF BlendRow
        <5> QED
          BY <2>1, <3>2, <4>1, <4>2, <4>3, <5>1 DEF BlurInv, BlurTyped
      <4>4. CASE r # step[0]
        <5>1. framebuffer'[r] = framebuffer[r]
          BY <1>1, <3>2, <4>4 DEF BlendRow, BlurInv, BlurTyped
        <5>2. r < step[0] + 1 <=> r < step[0]
          BY <2>3, <4>4
        <5> QED
          BY <2>1, <3>2, <4>1, <4>2, <5>1, <5>2
      <4> QED
        BY <4>3, <4>4
    <3> QED
      BY <3>1, <3>2
  <2>4. ASSUME stage[0] # "blend" PROVE step'[0] = step[0]
    BY <2>1, <2>4 DEF BlurInv, BlurTyped
  <2> QED
    BY <2>1, <2>3, <2>4 DEF OwnShareKept, Own, Active
<1>2. CASE BlendDone(t)
  <2>1. /\ stage[t] = "blend" /\ stage' = [stage EXCEPT ![t] = "left"]
        /\ rounds' = (IF t = 0 THEN rounds + 1 ELSE rounds) /\ ~OwnRow(t)
        /\ UNCHANGED <<cfg, step, framebuffer, original, blurred, allocated, stray, overtaken>>
    BY <1>2 DEF BlendDone, Leave, bufferRows
  <2>2. CASE t # 0
    <3>1. stage'[0] = stage[0] /\ rounds' = rounds
      BY <2>1, <2>2 DEF BlurInv, BlurTyped
    <3> QED
      BY <2>1, <3>1 DEF OwnShareKept, Own, Active
  <2>3. CASE t = 0
    <3>1. stage'[0] = "left" /\ rounds' = rounds + 1 /\ rounds \in Nat
      BY <2>1, <2>3 DEF BlurInv, BlurTyped
    <3>2. \A r \in Own(0) : r < step[0]
      BY <2>1, <2>3 DEF OwnRow
    <3>3. Active /\ ~cfg.vertical /\ ~overtaken => \A r \in Own(0) : framebuffer[r] = rounds'
      BY <2>1, <2>3, <3>1, <3>2 DEF OwnShareKept
    <3> QED
      BY <2>1, <3>1, <3>3 DEF OwnShareKept, Own, Active
  <2> QED
    BY <2>2, <2>3
<1> QED
  BY <1>1, <1>2

\* Without the vertical pass the rows of thread 0 come out as renderBox would leave
\* them after as many calls as thread 0 made runs for the picture, for every height,
\* number of threads and history of the pool, and whatever the other threads do.
THEOREM OwnShareIsSafe == BlurSpec => []OwnShareSafe
<1>1. BlurInv /\ OwnShareKept /\ [BlurNext]_<<vars, blurVars>> => OwnShareKept'
  BY OwnShareOutside, OwnShareCopied, OwnSharePassed, OwnShareBlended DEF BlurNext, BlurStep
<1>2. OwnShareKept => OwnShareSafe
  BY DEF OwnShareKept, OwnShareSafe
<1> QED
  BY <1>1, <1>2, OwnShareStarts, BlurInvariance, PTL DEF BlurSpec

-------------------------------------------------------------------------------
(* The pipeline: its invariant. *)

ChainTyped ==
  /\ nodes \in Seq(Registered)
  /\ at \in 0..(Len(nodes) + 1)
  /\ success \in BOOLEAN /\ renderSuccess \in BOOLEAN
  /\ frame \in Nat
  /\ frameOf \in [1..MaxCalls -> Nat \X Nat]
  /\ reports \subseteq Nat \X Nat \X BOOLEAN
  /\ failedFrames \subseteq Nat
  /\ returned \in Seq(BOOLEAN)

\* Every frame but the one in progress has returned, and none has effects of a later one.
FramesInOrder ==
  /\ Len(returned) = IF at > 0 THEN frame - 1 ELSE frame
  /\ \A c \in 1..MaxCalls : frameOf[c][1] <= frame
  /\ \A c \in (calls + 1)..MaxCalls : frameOf[c][1] = 0
  /\ \A r \in reports : r[1] <= frame

\* Render is in an execute only at an effect of the chain, and the last execute is the
\* one of this frame; the pool is taken down outside of render only.
CallsInFrame ==
  /\ InCall => at \in DOMAIN nodes /\ calls \in 1..MaxCalls /\ frameOf[calls][1] = frame
  /\ shutdown => at = 0
  /\ \A w \in Workers : pc[w] = "run" => held[w] \in 1..calls
  /\ \A w \in Workers \ threads : pc[w] = "exited"

\* What VerdictFollowsReports asks, also of the frame in progress and of the one to come.
VerdictsFollow ==
  /\ \A f \in failedFrames : f <= frame
  /\ at > 0 => ((success /\ (InCall => renderSuccess)) <=> frame \notin failedFrames)
  /\ \A f \in DOMAIN returned : ~returned[f] <=> f \in failedFrames

\* While the loop goes on, only effects that were on the pool can have failed.
OnlyPoolFails ==
  /\ at > 0 => \A c \in 1..calls : frameOf[c][1] = frame => MultiThreaded /\ nodes[frameOf[c][2]] \in Smp
  /\ at \in DOMAIN nodes =>
       /\ success
       /\ \A r \in reports : r[1] = frame /\ ~r[3] => MultiThreaded /\ nodes[r[2]] \in Smp

ChainInv == ChainTyped /\ FramesInOrder /\ CallsInFrame /\ VerdictsFollow /\ OnlyPoolFails
PipelineInv == IInv /\ ChainInv

LEMMA PipelineStarts == PipelineInit => PipelineInv
<1> SUFFICES ASSUME PipelineInit PROVE PipelineInv
  OBVIOUS
<1> USE DEF PipelineInit
<1>1. IInv
  BY InitEstablishes
<1>2. ChainTyped /\ FramesInOrder
  <2>1. <<0, 0>> \in Nat \X Nat /\ <<0, 0>>[1] = 0
    OBVIOUS
  <2>2. frameOf \in [1..MaxCalls -> Nat \X Nat] /\ \A c \in 1..MaxCalls : frameOf[c][1] = 0
    BY <2>1
  <2>3. nodes \in Seq(Registered) /\ Len(nodes) = 0 /\ returned \in Seq(BOOLEAN) /\ Len(returned) = 0
    OBVIOUS
  <2>4. ChainTyped
    BY <2>2, <2>3 DEF ChainTyped
  <2>5. \A c \in (calls + 1)..MaxCalls : c \in 1..MaxCalls
    BY ConstantsOK DEF Init
  <2>6. FramesInOrder
    BY <2>2, <2>3, <2>5 DEF FramesInOrder
  <2> QED
    BY <2>4, <2>6
<1>3. CallsInFrame /\ VerdictsFollow /\ OnlyPoolFails
  BY DEF Init, CallsInFrame, VerdictsFollow, OnlyPoolFails, InCall
<1> QED
  BY <1>1, <1>2, <1>3 DEF PipelineInv, ChainInv

-------------------------------------------------------------------------------
(* The pool under the pipeline. *)

LEMMA PoolKept ==
  ASSUME IInv, CallsInFrame, [PipelineNext]_allVars
  PROVE  IInv'
<1>1. CASE UNCHANGED vars \/ Next
  BY <1>1, StepPreserves
<1>2. CASE ReplacePool
  <2> USE <1>2 DEF ReplacePool
  <2>1. TypeOK'
    <3>1. threads' \subseteq Workers /\ completed' \in 0..(CounterRange - 1) /\ task' \in 0..MaxCalls
      BY ConstantsOK
    <3>2. pc' \in [Workers -> {"lock", "blocked", "run", "signal", "exited"}]
      OBVIOUS
    <3>3. /\ held' \in [Workers -> 0..MaxCalls] /\ calls' \in 0..MaxCalls
          /\ runs' \in [Workers -> 0..Twice]
      BY DEF IInv, TypeOK
    <3> QED
      BY <3>1, <3>2, <3>3 DEF TypeOK
  <2>2. \A w \in Workers : held[w] = 0
    BY DEF IInv, HeldWhileRunning, NothingOutlivesPool, CallsInFrame
  <2>3. \A w \in Workers : pc'[w] # "blocked"
    OBVIOUS
  <2> QED
    BY <2>1, <2>2, <2>3
    DEF IInv, Announced, InCall, HeldWhileRunning, NoLostWakeup, CallerNotStranded, NothingOutlivesPool
<1>3. CASE \/ Clear \/ Begin \/ Finish \/ UNCHANGED allVars
           \/ \E key \in Keys : Add(key)
           \/ \E ok \in BOOLEAN : RenderHere(ok)
  <2>1. UNCHANGED vars
    BY <1>3 DEF Clear, Begin, Finish, Add, RenderHere, allVars
  <2> QED
    BY <1>1, <2>1
<1>4. CASE \/ DropPool \/ ExecuteOnPool \/ Executed \/ PoolStep
           \/ \E w \in Workers, ok, aliased \in BOOLEAN : Report(w, ok, aliased)
  <2>1. Next
    BY <1>4 DEF DropPool, ExecuteOnPool, Executed, PoolStep, Report, Next, WorkerStep, OwnerStep
  <2> QED
    BY <1>1, <2>1
<1> QED
  BY <1>2, <1>3, <1>4 DEF PipelineNext

-------------------------------------------------------------------------------
(* The pipeline: its operations. *)

LEMMA OutsideKept ==
  ASSUME PipelineInv, Clear \/ \E key \in Keys : Add(key)
  PROVE  ChainInv'
<1>1. at = 0 /\ at' = 0 /\ ~InCall /\ UNCHANGED <<vars, success, renderSuccess, frame, frameOf, reports, failedFrames, returned>>
  BY DEF Add, Clear, Outside, InCall
<1>2. nodes' \in Seq(Registered)
  <2>1. nodes \in Seq(Registered)
    BY DEF PipelineInv, ChainInv, ChainTyped
  <2>2. ASSUME NEW key \in Keys, Add(key) PROVE nodes' \in Seq(Registered)
    BY <2>1, <2>2 DEF Add
  <2>3. ASSUME Clear PROVE nodes' \in Seq(Registered)
    <3>1. nodes' = <<>> /\ <<>> \in Seq(Registered)
      BY <2>3 DEF Clear
    <3> QED
      BY <3>1
  <2> QED
    BY <2>2, <2>3
<1>3. ChainTyped'
  BY <1>1, <1>2 DEF PipelineInv, ChainInv, ChainTyped, vars
<1>4. FramesInOrder'
  BY <1>1 DEF PipelineInv, ChainInv, FramesInOrder, vars
<1>5. CallsInFrame'
  BY <1>1 DEF PipelineInv, ChainInv, CallsInFrame, InCall, vars
<1>6. VerdictsFollow'
  BY <1>1 DEF PipelineInv, ChainInv, VerdictsFollow, InCall, vars
<1>7. OnlyPoolFails'
  <2>1. 0 \notin DOMAIN nodes'
    BY <1>2
  <2> QED
    BY <1>1, <2>1 DEF OnlyPoolFails
<1> QED
  BY <1>3, <1>4, <1>5, <1>6, <1>7 DEF ChainInv

LEMMA ReplaceKept ==
  ASSUME PipelineInv, ReplacePool
  PROVE  ChainInv'
<1>1. at = 0
  BY DEF ReplacePool, PipelineInv, IInv, Announced, ChainInv, CallsInFrame
<1>2. ~InCall' /\ ~shutdown' /\ \A w \in Workers : pc'[w] # "run"
  BY DEF ReplacePool, InCall
<1>3. UNCHANGED <<calls, chainVars>> /\ \A w \in Workers \ threads' : pc'[w] = "exited"
  BY DEF ReplacePool
<1> QED
  BY <1>1, <1>2, <1>3
  DEF chainVars, PipelineInv, ChainInv, ChainTyped, FramesInOrder, CallsInFrame, VerdictsFollow,
      OnlyPoolFails

LEMMA BeginKept ==
  ASSUME PipelineInv, Begin
  PROVE  ChainInv'
<1>1. at = 0 /\ at' = 1 /\ success' /\ frame' = frame + 1 /\ frame \in Nat /\ ~InCall /\ nodes # <<>>
  BY DEF Begin, Outside, InCall, PipelineInv, ChainInv, ChainTyped
<1>2. UNCHANGED <<vars, nodes, renderSuccess, frameOf, reports, failedFrames, returned>>
  BY DEF Begin
<1>3. ChainTyped'
  BY <1>1, <1>2 DEF PipelineInv, ChainInv, ChainTyped
<1>4. FramesInOrder'
  BY <1>1, <1>2 DEF PipelineInv, ChainInv, ChainTyped, FramesInOrder, vars
<1>5. CallsInFrame'
  <2>1. ~shutdown
    BY DEF Begin, Outside, PipelineInv, IInv, Announced
  <2> QED
    BY <1>1, <1>2, <2>1 DEF PipelineInv, ChainInv, CallsInFrame, InCall, vars
<1>6. VerdictsFollow'
  <2>1. frame' \notin failedFrames
    BY <1>1 DEF PipelineInv, ChainInv, VerdictsFollow
  <2> QED
    BY <1>1, <1>2, <2>1 DEF PipelineInv, ChainInv, ChainTyped, VerdictsFollow, InCall, vars
<1>7. OnlyPoolFails'
  <2>1. \A c \in 1..MaxCalls : frameOf[c][1] # frame'
    BY <1>1 DEF PipelineInv, ChainInv, ChainTyped, FramesInOrder
  <2>2. \A r \in reports : r[1] # frame'
    BY <1>1 DEF PipelineInv, ChainInv, ChainTyped, FramesInOrder
  <2>3. calls \in 0..MaxCalls /\ MaxCalls \in Nat
    BY ConstantsOK DEF PipelineInv, IInv, TypeOK
  <2> QED
    BY <1>1, <1>2, <2>1, <2>2, <2>3 DEF OnlyPoolFails, vars
<1> QED
  BY <1>3, <1>4, <1>5, <1>6, <1>7 DEF ChainInv

\* The loop goes on to the next effect, or ends at the first failure.
LEMMA AdvanceKept ==
  ASSUME PipelineInv, at \in DOMAIN nodes, NEW ok \in BOOLEAN, Advance(ok), ~InCall',
         failedFrames' \in {failedFrames, failedFrames \cup {frame}},
         (success /\ ok) <=> frame \notin failedFrames',
         reports \subseteq reports', \A r \in reports' \ reports : r = <<frame, at, ok>>,
         UNCHANGED <<threads, pc, held, shutdown, calls, nodes, renderSuccess, frame, frameOf, returned>>
  PROVE  ChainInv'
<1> USE DEF PipelineInv, ChainInv
<1>1. Len(nodes) \in Nat /\ DOMAIN nodes = 1..Len(nodes) /\ at \in 1..Len(nodes) /\ frame \in Nat
  BY DEF ChainTyped
<1>2. at' \in 1..(Len(nodes) + 1) /\ success' \in BOOLEAN /\ (at' \in DOMAIN nodes => ok /\ success')
  BY <1>1 DEF Advance, ChainTyped, OnlyPoolFails
<1>3. <<frame, at, ok>> \in Nat \X Nat \X BOOLEAN
  BY <1>1
<1>4. ChainTyped'
  BY <1>1, <1>2, <1>3 DEF ChainTyped
<1>5. FramesInOrder'
  <2>1. \A r \in reports' : r[1] <= frame
    BY <1>1 DEF FramesInOrder
  <2> QED
    BY <1>1, <1>2, <2>1 DEF FramesInOrder
<1>6. CallsInFrame'
  BY <1>1 DEF CallsInFrame
<1>7. VerdictsFollow'
  <2>1. success' <=> frame \notin failedFrames'
    BY Zenon DEF Advance
  <2>2. \A f \in DOMAIN returned : f \in Nat /\ f < frame
    BY <1>1 DEF ChainTyped, FramesInOrder
  <2>3. \A f \in DOMAIN returned : f \in failedFrames' <=> f \in failedFrames
    BY <1>1, <2>2
  <2>4. \A f \in failedFrames' : f <= frame
    BY <1>1 DEF VerdictsFollow
  <2> QED
    BY <2>1, <2>3, <2>4 DEF VerdictsFollow
<1>8. OnlyPoolFails'
  <2>1. ASSUME at' \in DOMAIN nodes, NEW r \in reports', r[1] = frame, ~r[3]
        PROVE  MultiThreaded /\ nodes[r[2]] \in Smp
    <3>1. ok
      BY <1>2, <2>1
    <3>2. r \in reports
      BY <2>1, <3>1, <<frame, at, ok>>[3] = ok
    <3> QED
      BY <2>1, <3>2 DEF OnlyPoolFails
  <2>2. \A c \in 1..calls : frameOf[c][1] = frame => MultiThreaded /\ nodes[frameOf[c][2]] \in Smp
    BY <1>1 DEF OnlyPoolFails
  <2> QED
    BY <1>2, <2>1, <2>2 DEF OnlyPoolFails, MultiThreaded
<1> QED
  BY <1>4, <1>5, <1>6, <1>7, <1>8

LEMMA RenderHereKept ==
  ASSUME PipelineInv, NEW ok \in BOOLEAN, RenderHere(ok)
  PROVE  ChainInv'
<1>1. /\ at \in DOMAIN nodes /\ Advance(ok) /\ ~InCall'
      /\ reports' = reports \cup {<<frame, at, ok>>}
      /\ UNCHANGED <<vars, nodes, renderSuccess, frame, frameOf, returned>>
  BY DEF RenderHere, AtNode, InCall, vars
<1>2. /\ failedFrames' = IF ok THEN failedFrames ELSE failedFrames \cup {frame}
      /\ success /\ frame \notin failedFrames
  <2>1. at > 0 /\ ~InCall
    BY DEF RenderHere, AtNode, InCall, PipelineInv, ChainInv, ChainTyped
  <2> QED
    BY <1>1, <2>1 DEF RenderHere, PipelineInv, ChainInv, VerdictsFollow, OnlyPoolFails
<1> QED
  BY <1>1, <1>2, AdvanceKept DEF vars

LEMMA ExecutedKept ==
  ASSUME PipelineInv, Executed
  PROVE  ChainInv'
<1>1. /\ InCall /\ ~InCall' /\ Advance(renderSuccess)
      /\ UNCHANGED <<threads, pc, held, shutdown, calls, nodes, renderSuccess, frame, frameOf, reports, failedFrames, returned>>
  BY DEF Executed, Return, InCall, workerVars
<1>2. at \in DOMAIN nodes /\ renderSuccess \in BOOLEAN
  BY <1>1 DEF PipelineInv, ChainInv, ChainTyped, CallsInFrame
<1>3. (success /\ renderSuccess) <=> frame \notin failedFrames
  BY <1>1, <1>2 DEF PipelineInv, ChainInv, ChainTyped, VerdictsFollow
<1> QED
  BY <1>1, <1>2, <1>3, AdvanceKept

LEMMA ExecuteKept ==
  ASSUME PipelineInv, ExecuteOnPool
  PROVE  ChainInv'
<1> USE DEF PipelineInv, ChainInv
<1>1. /\ at \in DOMAIN nodes /\ MultiThreaded /\ nodes[at] \in Smp
      /\ calls < MaxCalls /\ calls' = calls + 1 /\ renderSuccess' = TRUE
      /\ frameOf' = [frameOf EXCEPT ![calls + 1] = <<frame, at>>]
      /\ UNCHANGED <<threads, pc, held, shutdown, nodes, at, success, frame, reports, failedFrames, returned>>
  BY DEF ExecuteOnPool, OnPool, AtNode, StoreTask
<1>2. calls \in Nat /\ MaxCalls \in Nat /\ calls' \in 1..MaxCalls /\ at \in Nat /\ at > 0 /\ frame \in Nat
  BY <1>1, ConstantsOK DEF IInv, TypeOK, ChainTyped
<1>3. /\ frameOf' \in [1..MaxCalls -> Nat \X Nat]
      /\ frameOf'[calls'][1] = frame /\ frameOf'[calls'][2] = at
      /\ \A c \in 1..MaxCalls : c # calls' => frameOf'[c] = frameOf[c]
  BY <1>1, <1>2 DEF ChainTyped
<1>4. ChainTyped'
  BY <1>1, <1>3 DEF ChainTyped
<1>5. FramesInOrder'
  BY <1>1, <1>2, <1>3 DEF FramesInOrder
<1>6. CallsInFrame'
  BY <1>1, <1>2, <1>3 DEF CallsInFrame
<1>7. VerdictsFollow'
  <2>1. ~InCall
    BY DEF ExecuteOnPool, OnPool, AtNode, InCall
  <2> QED
    BY <1>1, <1>2, <2>1 DEF VerdictsFollow
<1>8. OnlyPoolFails'
  BY <1>1, <1>2, <1>3 DEF OnlyPoolFails, MultiThreaded
<1> QED
  BY <1>4, <1>5, <1>6, <1>7, <1>8

LEMMA FinishKept ==
  ASSUME PipelineInv, Finish
  PROVE  ChainInv'
<1> USE DEF PipelineInv, ChainInv
<1>1. /\ at = Len(nodes) + 1 /\ at > 1 /\ at' = 0 /\ returned' = Append(returned, success)
      /\ UNCHANGED <<vars, nodes, success, renderSuccess, frame, frameOf, reports, failedFrames>>
  BY DEF Finish
<1>2. Len(nodes) \in Nat /\ DOMAIN nodes = 1..Len(nodes) /\ at \notin DOMAIN nodes
  BY <1>1 DEF ChainTyped
<1>3. ~InCall
  BY <1>2 DEF CallsInFrame
<1>4. ChainTyped' /\ FramesInOrder'
  BY <1>1, <1>2 DEF ChainTyped, FramesInOrder, vars
<1>5. CallsInFrame' /\ OnlyPoolFails'
  BY <1>1, <1>2, <1>3 DEF CallsInFrame, OnlyPoolFails, InCall, vars
<1>6. VerdictsFollow'
  <2>1. ASSUME NEW f \in DOMAIN returned' PROVE ~returned'[f] <=> f \in failedFrames
    <3>1. CASE f \in DOMAIN returned
      BY <1>1, <2>1, <3>1 DEF ChainTyped, VerdictsFollow
    <3>2. CASE f \notin DOMAIN returned
      <4>1. f = frame /\ returned'[f] = success
        BY <1>1, <2>1, <3>2 DEF ChainTyped, FramesInOrder
      <4> QED
        BY <1>1, <1>3, <4>1 DEF VerdictsFollow
    <3> QED
      BY <3>1, <3>2
  <2> QED
    BY <1>1, <2>1 DEF VerdictsFollow
<1> QED
  BY <1>4, <1>5, <1>6

LEMMA ReportKept ==
  ASSUME PipelineInv, NEW w \in Workers, NEW ok \in BOOLEAN, NEW aliased \in BOOLEAN,
         Report(w, ok, aliased)
  PROVE  ChainInv'
<1> USE DEF PipelineInv, ChainInv
<1>1. /\ pc[w] = "run" /\ pc' = [pc EXCEPT ![w] = "signal"]
      /\ UNCHANGED <<threads, held, shutdown, calls, owner, nodes, at, success, frame, frameOf, returned>>
      /\ reports' = reports \cup {Append(frameOf[held[w]], ok)}
      /\ renderSuccess' \in {renderSuccess, FALSE}
  BY DEF Report, Reported, RunTask
<1>2. held[w] \in 1..calls /\ calls \in 0..MaxCalls /\ held[w] \in 1..MaxCalls
  BY <1>1, ConstantsOK DEF CallsInFrame, IInv, TypeOK
<1>3. PICK f \in Nat, i \in Nat : frameOf[held[w]] = <<f, i>>
  BY <1>2 DEF ChainTyped
<1>4. PICK r : r = <<f, i, ok>>
  OBVIOUS
<1>5. /\ r \in Nat \X Nat \X BOOLEAN /\ r[1] = f /\ r[2] = i /\ r[3] = ok
      /\ reports' = reports \cup {r}
  BY <1>1, <1>3, <1>4
<1>6. f = frameOf[held[w]][1] /\ i = frameOf[held[w]][2] /\ f <= frame
  BY <1>2, <1>3 DEF FramesInOrder
<1>7. ChainTyped'
  <2>1. failedFrames' \subseteq Nat
    BY <1>1 DEF Report, Reported, ChainTyped
  <2> QED
    BY <1>1, <1>5, <2>1 DEF ChainTyped
<1>8. FramesInOrder'
  BY <1>1, <1>5, <1>6 DEF FramesInOrder
<1>9. CallsInFrame'
  BY <1>1 DEF CallsInFrame, InCall, IInv, TypeOK
<1>10. VerdictsFollow'
  <2>1. /\ InCall' <=> InCall
        /\ failedFrames' \in {failedFrames, failedFrames \cup {frame}}
        /\ ~InCall => failedFrames' = failedFrames
        /\ InCall => \/ renderSuccess' = renderSuccess /\ failedFrames' = failedFrames
                     \/ ~renderSuccess' /\ failedFrames' = failedFrames \cup {frame}
    BY <1>1 DEF Report, Reported, InCall
  <2>2. InCall => at > 0
    BY DEF CallsInFrame, ChainTyped
  <2>3. \A g \in DOMAIN returned : InCall => g < frame
    BY <2>2 DEF ChainTyped, FramesInOrder
  <2>4. \A g \in DOMAIN returned : g \in failedFrames' <=> g \in failedFrames
    BY <2>1, <2>3 DEF ChainTyped
  <2>5. \A g \in failedFrames' : g <= frame
    BY <2>1 DEF VerdictsFollow, ChainTyped
  <2> QED
    BY <1>1, <2>1, <2>2, <2>4, <2>5 DEF VerdictsFollow, ChainTyped
<1>11. OnlyPoolFails'
  <2>1. ASSUME at \in DOMAIN nodes, f = frame PROVE MultiThreaded /\ nodes[i] \in Smp
    <3>1. at > 0
      BY <2>1 DEF ChainTyped
    <3> QED
      BY <1>2, <1>6, <2>1, <3>1, Zenon DEF OnlyPoolFails
  <2> QED
    BY <1>1, <1>5, <2>1 DEF OnlyPoolFails, MultiThreaded
<1> QED
  BY <1>7, <1>8, <1>9, <1>10, <1>11

LEMMA PoolStepKept ==
  ASSUME PipelineInv, PoolStep \/ DropPool \/ UNCHANGED allVars
  PROVE  ChainInv'
<1> USE DEF PipelineInv, ChainInv
<1>1. UNCHANGED <<threads, calls>> /\ UNCHANGED chainVars
  BY DEF PoolStep, DropPool, Destroy, AwaitTask, TakeTask, Exit, SignalDone, NotifyWorkers,
         AwaitCompletion, NotifyShutdown, Join, SpuriousOwnerWakeup, allVars, vars
<1>2. InCall' <=> InCall
  BY DEF PoolStep, DropPool, Destroy, AwaitTask, TakeTask, Exit, SignalDone, NotifyWorkers,
         AwaitCompletion, NotifyShutdown, Join, SpuriousOwnerWakeup, allVars, vars, InCall
<1>3. shutdown' => at = 0
  BY DEF PoolStep, DropPool, Destroy, AwaitTask, TakeTask, Exit, SignalDone, NotifyWorkers,
         AwaitCompletion, NotifyShutdown, Join, SpuriousOwnerWakeup, allVars, vars, CallsInFrame,
         Outside
<1>4. /\ \A w \in Workers : pc'[w] = "run" => held'[w] \in 1..calls
      /\ \A w \in Workers \ threads : pc'[w] = "exited"
  <2> USE DEF CallsInFrame, IInv, TypeOK
  <2>1. ASSUME NEW v \in Workers, AwaitTask(v) \/ Exit(v) \/ SignalDone(v)
        PROVE  <1>4!1 /\ <1>4!2
    BY <2>1 DEF AwaitTask, Exit, SignalDone
  <2>2. ASSUME NEW v \in Workers, TakeTask(v)
        PROVE  <1>4!1 /\ <1>4!2
    <3>1. task \in 1..calls
      BY <2>2 DEF TakeTask, Announced
    <3> QED
      BY <2>2, <3>1 DEF TakeTask
  <2>3. CASE NotifyWorkers \/ NotifyShutdown
    BY <2>3 DEF NotifyWorkers, NotifyShutdown, WakeWorkers
  <2>4. CASE UNCHANGED workerVars
    BY <2>4 DEF workerVars
  <2> QED
    BY <2>1, <2>2, <2>3, <2>4
    DEF PoolStep, DropPool, Destroy, AwaitCompletion, Join, SpuriousOwnerWakeup, allVars, vars, workerVars
<1> QED
  BY <1>1, <1>2, <1>3, <1>4
  DEF chainVars, ChainTyped, FramesInOrder, CallsInFrame, VerdictsFollow, OnlyPoolFails,
      MultiThreaded

LEMMA PipelineKept == PipelineInv /\ [PipelineNext]_allVars => PipelineInv'
<1> SUFFICES ASSUME PipelineInv, [PipelineNext]_allVars PROVE PipelineInv'
  OBVIOUS
<1>1. IInv'
  BY PoolKept DEF PipelineInv, ChainInv
<1>2. ChainInv'
  <2>1. ASSUME NEW ok \in BOOLEAN, RenderHere(ok) PROVE ChainInv'
    BY <2>1, RenderHereKept
  <2>2. ASSUME NEW w \in Workers, NEW ok \in BOOLEAN, NEW aliased \in BOOLEAN,
               Report(w, ok, aliased)
        PROVE  ChainInv'
    BY <2>2, ReportKept
  <2> QED
    BY <2>1, <2>2, OutsideKept, ReplaceKept, BeginKept, ExecutedKept, ExecuteKept, FinishKept,
       PoolStepKept, Zenon DEF PipelineNext
<1> QED
  BY <1>1, <1>2 DEF PipelineInv

THEOREM PipelineInvariance == PipelineSpec => []PipelineInv
<1> QED
  BY PipelineStarts, PipelineKept, PTL DEF PipelineSpec

\* Pipeline::render returns false exactly when a failing effect has written to the
\* frame's verdicts while it was in progress, for any chain, any number of workers and
\* frames and whatever leftovers of earlier frames.
THEOREM VerdictsAlwaysFollow == PipelineSpec => []VerdictFollowsReports
<1>1. PipelineInv => VerdictFollowsReports
  BY DEF PipelineInv, ChainInv, VerdictsFollow, VerdictFollowsReports
<1> QED
  BY <1>1, PipelineInvariance, PTL

\* Pipeline::render stops at the first failure it has seen, and sees every one that is
\* reported while its execute is in progress.
THEOREM FailuresCount == PipelineSpec => FailureCounts
<1>1. ASSUME PipelineInv, PipelineInv', [PipelineNext]_allVars
      PROVE  StopsAtFailure
  <2> SUFFICES ASSUME at' \in DOMAIN nodes, at' > at, at > 0
               PROVE  /\ success'
                      /\ \A i \in 1..at : <<frame, i, FALSE>> \in reports' => MultiThreaded /\ nodes[i] \in Smp
    BY DEF StopsAtFailure
  <2>1. CASE \/ Clear \/ DropPool \/ Begin \/ ReplacePool \/ Finish \/ ExecuteOnPool \/ PoolStep
             \/ UNCHANGED allVars \/ \E key \in Keys : Add(key)
             \/ \E w \in Workers, ok, aliased \in BOOLEAN : Report(w, ok, aliased)
    <3>1. at' = at \/ at' = 0 \/ at = 0
      BY <2>1
      DEF Clear, DropPool, Begin, Outside, ReplacePool, Finish, ExecuteOnPool, Add, PoolStep,
          Report, chainVars, allVars
    <3>2. at \in Nat
      BY <1>1 DEF PipelineInv, ChainInv, ChainTyped
    <3> QED
      BY <3>1, <3>2
  <2>2. CASE Executed \/ \E ok \in BOOLEAN : RenderHere(ok)
    <3>1. UNCHANGED <<threads, nodes, frame>>
      BY <2>2 DEF Executed, Return, RenderHere, vars
    <3>2. /\ success'
          /\ \A r \in reports' : r[1] = frame /\ ~r[3] => MultiThreaded /\ nodes[r[2]] \in Smp
      BY <1>1, <3>1 DEF PipelineInv, ChainInv, OnlyPoolFails, MultiThreaded
    <3>3. \A i \in 1..at : <<frame, i, FALSE>>[1] = frame /\ <<frame, i, FALSE>>[2] = i
                           /\ ~<<frame, i, FALSE>>[3]
      OBVIOUS
    <3> QED
      BY <3>2, <3>3
  <2> QED
    BY <1>1, <2>1, <2>2 DEF PipelineNext
<1>2. ASSUME PipelineInv, [PipelineNext]_allVars
      PROVE  FailureSticks
  <2> SUFFICES ASSUME NEW w \in Workers, pc[w] = "run", pc'[w] = "signal", ~renderSuccess
               PROVE  ~renderSuccess'
    BY DEF FailureSticks
  <2>1. CASE \E v \in Workers, ok, aliased \in BOOLEAN : Report(v, ok, aliased)
    BY <2>1 DEF Report
  <2>2. CASE PoolStep \/ ReplacePool
    <3>1. pc'[w] # "signal"
      BY <1>2, <2>2
      DEF PoolStep, AwaitTask, TakeTask, Exit, SignalDone, NotifyWorkers, AwaitCompletion,
          NotifyShutdown, WakeWorkers, Join, SpuriousOwnerWakeup, workerVars, ReplacePool,
          PipelineInv, IInv, TypeOK
    <3> QED
      BY <3>1
  <2>3. CASE \/ Clear \/ DropPool \/ Begin \/ Finish \/ ExecuteOnPool \/ Executed \/ UNCHANGED allVars
             \/ (\E key \in Keys : Add(key)) \/ \E ok \in BOOLEAN : RenderHere(ok)
    <3>1. pc' = pc
      BY <2>3
      DEF Clear, DropPool, Destroy, Begin, Finish, ExecuteOnPool, StoreTask, Executed, Return, Add,
          RenderHere, allVars, vars, workerVars
    <3> QED
      BY <3>1
  <2> QED
    BY <1>2, <2>1, <2>2, <2>3 DEF PipelineNext
<1> QED
  BY <1>1, <1>2, PipelineInvariance, PipelineKept, PTL DEF PipelineSpec, FailureCounts


-------------------------------------------------------------------------------
(* The invariant. *)

\* The pictures there are.
Shown == UNION {Pictures(h) : h \in Heights}

PicturesTyped ==
  /\ pixels \in Shown /\ texture \in Shown /\ written \in Shown
  /\ due \in [download : Shown, data : Shown, announced : BOOLEAN]
  /\ bound => OnGpu

\* Where the pictures are that the readers are due.  In memory there is one picture and
\* no mark; on the GPU the mark stands just when a fetch has been announced, and
\* protects the copy.
PlacesAgree ==
  /\ ~OnGpu => /\ pixels = written /\ pixels = due.download /\ pixels = due.data
               /\ ~cpuBufferDirty
  /\ OnGpu => /\ texture = due.download
              /\ cpuBufferDirty <=> due.announced
              /\ Fetched = due.data

LastReadGood ==
  /\ reading.got = reading.due
  /\ ~OnGpu => reading.got = reading.written

\* The numbers used up are those of the pictures presented.
FilesInOrder ==
  /\ presented \in Seq(Shown)
  /\ frameCount = Len(presented)
  /\ \A n \in 0..(frameCount - 1) : n \in DOMAIN disk /\ disk[n] = Flipped(presented[n + 1])

BackendsInv == PicturesTyped /\ PlacesAgree /\ LastReadGood /\ FilesInOrder

USE BackendsAssumption

-------------------------------------------------------------------------------
(* What the operators on pictures return. *)

LEMMA FilledShown ==
  ASSUME pixels \in Shown, NEW v \in Values
  PROVE  Filled(v) \in Shown
BY DEF Shown, Pictures, Filled

LEMMA InvertedShown ==
  ASSUME NEW p \in Shown
  PROVE  Inverted(p) \in Shown
<1>1. PICK h \in Heights : p \in [1..h -> Values]
  BY DEF Shown, Pictures
<1>2. DOMAIN p = 1..h /\ \A y \in 1..h : MaxValue - p[y] \in Values
  BY <1>1 DEF Values
<1>3. Inverted(p) \in [1..h -> Values]
  BY <1>2 DEF Inverted
<1> QED
  BY <1>3 DEF Shown, Pictures

LEMMA ResizedShown ==
  ASSUME NEW p \in Shown, NEW h \in Heights
  PROVE  Resized(p, h) \in Shown
<1>1. PICK k \in Heights : p \in [1..k -> Values]
  BY DEF Shown, Pictures
<1>2. 0 \in Values /\ \A y \in DOMAIN p : p[y] \in Values
  BY <1>1 DEF Values
<1>3. Resized(p, h) \in [1..h -> Values]
  BY <1>2 DEF Resized
<1> QED
  BY <1>3 DEF Shown, Pictures

-------------------------------------------------------------------------------
(* The steps. *)

LEMMA BackendsStart == BackendsInit => BackendsInv
<1>1. SUFFICES ASSUME BackendsInit PROVE BackendsInv
  OBVIOUS
<1>2. PICK h \in Heights : pixels = [y \in 1..h |-> 0]
  BY <1>1 DEF BackendsInit
<1>3. pixels \in Pictures(h) /\ Len(pixels) = h
  BY <1>2 DEF Pictures, Values
<1>4. texture \in Pictures(h)
  BY <1>1, <1>3 DEF BackendsInit
<1>5. PicturesTyped
  BY <1>1, <1>3, <1>4 DEF BackendsInit, PicturesTyped, Shown
<1>6. PlacesAgree /\ LastReadGood
  BY <1>1 DEF BackendsInit, PlacesAgree, LastReadGood, OnGpu, Fetched
<1>7. FilesInOrder
  BY <1>1 DEF BackendsInit, FilesInOrder
<1> QED
  BY <1>5, <1>6, <1>7 DEF BackendsInv

\* Nothing but present and resetFrameCount touches the files.
LEMMA FilesStay == FilesInOrder /\ UNCHANGED fileVars => FilesInOrder'
BY DEF FilesInOrder, fileVars, Flipped

\* clear, upload and resize write the picture wherever it is.
LEMMA WritingKeeps ==
  ASSUME BackendsInv,
         \/ \E v \in Values : ClearBuffer(v)
         \/ \E h \in Heights : ResizeBuffer(h) \/ \E p \in Pictures(h) : Upload(p)
  PROVE  BackendsInv'
<1> USE DEF BackendsInv
<1>1. CASE \E v \in Values : ClearBuffer(v)
  <2>1. PICK v \in Values : ClearBuffer(v)
    BY <1>1
  <2>2. Filled(v) \in Shown
    BY FilledShown DEF PicturesTyped
  <2>3. PicturesTyped' /\ PlacesAgree' /\ LastReadGood' /\ UNCHANGED fileVars
    BY <2>1, <2>2 DEF ClearBuffer, Replaced, PicturesTyped, PlacesAgree, LastReadGood, OnGpu, Fetched
  <2> QED
    BY <2>3, FilesStay
<1>2. CASE \E h \in Heights : ResizeBuffer(h)
  <2>1. PICK h \in Heights : ResizeBuffer(h)
    BY <1>2
  <2>2. Resized(pixels, h) \in Shown /\ Pictures(h) \subseteq Shown
    BY ResizedShown DEF PicturesTyped, Shown
  <2>3. PicturesTyped' /\ PlacesAgree' /\ LastReadGood' /\ UNCHANGED fileVars
    <3>1. CASE OnGpu
      <4>1. /\ pixels' = Resized(pixels, h) /\ texture' \in Pictures(h) /\ cpuBufferDirty'
            /\ written' = texture' /\ due' = [download |-> texture', data |-> texture', announced |-> TRUE]
            /\ UNCHANGED <<backend, bound, fileVars, reading>>
        BY <2>1, <3>1 DEF ResizeBuffer, Replaced
      <4> QED
        BY <2>2, <3>1, <4>1 DEF PicturesTyped, PlacesAgree, LastReadGood, OnGpu, Fetched
    <3>2. CASE ~OnGpu
      <4>1. /\ pixels' = Resized(pixels, h) /\ UNCHANGED <<texture, cpuBufferDirty>>
            /\ written' = pixels' /\ due' = [download |-> pixels', data |-> pixels', announced |-> TRUE]
            /\ UNCHANGED <<backend, bound, fileVars, reading>>
        BY <2>1, <3>2 DEF ResizeBuffer, Replaced
      <4> QED
        BY <2>2, <3>2, <4>1 DEF PicturesTyped, PlacesAgree, LastReadGood, OnGpu, Fetched
    <3> QED
      BY <3>1, <3>2
  <2> QED
    BY <2>3, FilesStay
<1>3. CASE \E h \in Heights : \E p \in Pictures(h) : Upload(p)
  <2>1. PICK p \in Shown : Upload(p)
    BY <1>3 DEF Shown
  <2>2. PicturesTyped' /\ PlacesAgree' /\ LastReadGood' /\ UNCHANGED fileVars
    BY <2>1 DEF Upload, Replaced, PicturesTyped, PlacesAgree, LastReadGood, OnGpu, Fetched
  <2> QED
    BY <2>2, FilesStay
<1> QED
  BY <1>1, <1>2, <1>3

\* bind sets the mark; what is drawn under it reaches the copy by the next fetch.
LEMMA DrawingKeeps ==
  ASSUME BackendsInv,
         BindBuffer \/ UnbindBuffer \/ \E h \in Heights : \E p \in Pictures(h) : Draw(p)
  PROVE  BackendsInv'
<1> USE DEF BackendsInv
<1>1. CASE BindBuffer
  <2>1. PicturesTyped' /\ PlacesAgree' /\ LastReadGood' /\ UNCHANGED fileVars
    BY <1>1 DEF BindBuffer, PicturesTyped, PlacesAgree, LastReadGood, OnGpu, Fetched
  <2> QED
    BY <2>1, FilesStay
<1>2. CASE UnbindBuffer
  <2>1. PicturesTyped' /\ PlacesAgree' /\ LastReadGood' /\ UNCHANGED fileVars
    BY <1>2 DEF UnbindBuffer, PicturesTyped, PlacesAgree, LastReadGood, OnGpu, Fetched
  <2> QED
    BY <2>1, FilesStay
<1>3. CASE \E h \in Heights : \E p \in Pictures(h) : Draw(p)
  <2>1. PICK p \in Shown : Draw(p)
    BY <1>3 DEF Shown
  <2>2. PicturesTyped' /\ PlacesAgree' /\ LastReadGood' /\ UNCHANGED fileVars
    BY <2>1 DEF Draw, PicturesTyped, PlacesAgree, LastReadGood, OnGpu, Fetched
  <2> QED
    BY <2>2, FilesStay
<1> QED
  BY <1>1, <1>2, <1>3

\* Whoever reads takes the texture or a copy of it that is not out of date.
LEMMA ReadingKeeps ==
  ASSUME BackendsInv, Download \/ Data \/ InPlace
  PROVE  BackendsInv'
<1> USE DEF BackendsInv
<1>1. Fetched \in Shown /\ Fetched = due.data /\ (~OnGpu => Fetched = written)
  BY DEF Fetched, PicturesTyped, PlacesAgree
<1>2. CASE Download
  <2>1. PicturesTyped' /\ PlacesAgree' /\ UNCHANGED fileVars
    BY <1>2 DEF Download, PicturesTyped, PlacesAgree, OnGpu, Fetched
  <2>2. LastReadGood'
    BY <1>2 DEF Download, Reads, PlacesAgree, LastReadGood, OnGpu
  <2> QED
    BY <2>1, <2>2, FilesStay
<1>3. CASE Data
  <2>1. PicturesTyped' /\ PlacesAgree' /\ UNCHANGED fileVars
    BY <1>1, <1>3 DEF Data, PicturesTyped, PlacesAgree, OnGpu, Fetched
  <2>2. LastReadGood'
    BY <1>1, <1>3 DEF Data, Reads, LastReadGood, OnGpu
  <2> QED
    BY <2>1, <2>2, FilesStay
<1>4. CASE InPlace
  <2>1. Inverted(Fetched) \in Shown
    BY <1>1, InvertedShown
  <2>2. PicturesTyped' /\ PlacesAgree' /\ UNCHANGED fileVars
    BY <1>1, <1>4, <2>1 DEF InPlace, PicturesTyped, PlacesAgree, OnGpu, Fetched
  <2>3. LastReadGood'
    BY <1>1, <1>4 DEF InPlace, Reads, LastReadGood, OnGpu
  <2> QED
    BY <2>2, <2>3, FilesStay
<1> QED
  BY <1>2, <1>3, <1>4

\* The next number gets the picture in memory, which is the one last written.
LEMMA PresentingKeeps ==
  ASSUME BackendsInv, Present \/ PresentFails \/ ResetFrameCount
  PROVE  BackendsInv'
<1> USE DEF BackendsInv
<1>1. CASE Present
  <2>1. PicturesTyped' /\ PlacesAgree' /\ LastReadGood'
    BY <1>1 DEF Present, bufferVars, PicturesTyped, PlacesAgree, LastReadGood, OnGpu, Fetched
  <2>2. pixels = written /\ written \in Shown /\ presented \in Seq(Shown)
    BY <1>1 DEF Present, PlacesAgree, OnGpu, PicturesTyped, FilesInOrder
  <2>3. /\ presented' = Append(presented, written) /\ presented' \in Seq(Shown)
        /\ Len(presented') = Len(presented) + 1 /\ frameCount' = Len(presented')
        /\ frameCount \in Nat
    BY <1>1, <2>2 DEF Present, FilesInOrder
  <2>4. \A n \in 0..(frameCount' - 1) :
          n \in DOMAIN disk' /\ disk'[n] = Flipped(presented'[n + 1])
    <3>1. SUFFICES ASSUME NEW n \in 0..frameCount
                   PROVE  n \in DOMAIN disk' /\ disk'[n] = Flipped(presented'[n + 1])
      BY <1>1, <2>3 DEF Present
    <3>2. disk' = Numbered(disk, frameCount, Flipped(pixels))
      BY <1>1 DEF Present
    <3>3. CASE n = frameCount
      <4>1. presented'[n + 1] = written
        BY <2>2, <2>3, <3>3 DEF FilesInOrder
      <4> QED
        BY <2>2, <3>2, <3>3, <4>1 DEF Numbered
    <3>4. CASE n # frameCount
      <4>1. n \in 0..(frameCount - 1) /\ n + 1 \in 1..Len(presented)
        BY <2>3, <3>4 DEF FilesInOrder
      <4>2. presented'[n + 1] = presented[n + 1]
        BY <2>2, <2>3, <4>1
      <4>3. n \in DOMAIN disk /\ disk[n] = Flipped(presented[n + 1])
        BY <4>1 DEF FilesInOrder
      <4> QED
        BY <3>2, <3>4, <4>2, <4>3 DEF Numbered
    <3> QED
      BY <3>3, <3>4
  <2>5. FilesInOrder'
    BY <2>3, <2>4 DEF FilesInOrder, Flipped
  <2> QED
    BY <2>1, <2>5
<1>2. CASE PresentFails
  <2>1. PicturesTyped' /\ PlacesAgree' /\ LastReadGood' /\ UNCHANGED fileVars
    BY <1>2 DEF PresentFails, backendsVars, bufferVars, PicturesTyped, PlacesAgree, LastReadGood, OnGpu, Fetched
  <2> QED
    BY <2>1, FilesStay
<1>3. CASE ResetFrameCount
  <2>1. PicturesTyped' /\ PlacesAgree' /\ LastReadGood'
    BY <1>3 DEF ResetFrameCount, bufferVars, PicturesTyped, PlacesAgree, LastReadGood, OnGpu, Fetched
  <2>2. FilesInOrder'
    BY <1>3 DEF ResetFrameCount, FilesInOrder
  <2> QED
    BY <2>1, <2>2
<1> QED
  BY <1>1, <1>2, <1>3

LEMMA BackendsStep == BackendsInv /\ [BackendsNext]_backendsVars => BackendsInv'
<1>1. SUFFICES ASSUME BackendsInv, [BackendsNext]_backendsVars PROVE BackendsInv'
  OBVIOUS
<1>2. CASE BackendsNext
  BY <1>1, <1>2, WritingKeeps, DrawingKeeps, ReadingKeeps, PresentingKeeps DEF BackendsNext
<1>3. CASE UNCHANGED backendsVars
  <2>1. PicturesTyped' /\ PlacesAgree' /\ LastReadGood' /\ UNCHANGED fileVars
    BY <1>1, <1>3 DEF BackendsInv, backendsVars, bufferVars, PicturesTyped, PlacesAgree, LastReadGood, OnGpu, Fetched
  <2> QED
    BY <1>1, <2>1, FilesStay DEF BackendsInv
<1> QED
  BY <1>1, <1>2, <1>3

\* In memory every reader gets what was written last by any way.  On the GPU download()
\* gives what was put on the texture last and data() what is in it or in the copy that
\* was worked on, as PicturesArrive says of each; and the numbered files are the
\* pictures presented in order (OpenGLFramebuffer::data with its mark,
\* FileFramebuffer::present).
THEOREM PicturesAlwaysArrive == BackendsSpec => []PicturesArrive
<1>1. BackendsInv => PicturesArrive
  BY DEF BackendsInv, LastReadGood, FilesInOrder, PicturesArrive, OnGpu
<1> QED
  BY <1>1, BackendsStart, BackendsStep, PTL DEF BackendsSpec


-------------------------------------------------------------------------------
(* The sizes: the texture and its copy are never of two sizes. *)

PlacesTyped ==
  /\ backend \in {"CPU", "File", "OpenGL"}
  /\ OnGpu => DOMAIN texture = DOMAIN pixels
  /\ bound \in BOOLEAN /\ cpuBufferDirty \in BOOLEAN
  /\ frameCount \in 0..MaxPresents

\* A picture's length is its height.
LEMMA ShownLength ==
  ASSUME NEW p \in Shown
  PROVE  Len(p) \in Heights /\ p \in Pictures(Len(p)) /\ DOMAIN p = 1..Len(p)
<1>1. PICK h \in Heights : p \in [1..h -> Values]
  BY DEF Shown, Pictures
<1>2. Len(p) = h
  BY <1>1
<1> QED
  BY <1>1, <1>2 DEF Pictures

LEMMA PlacesTypedFirst == BackendsInit => PlacesTyped
<1>1. SUFFICES ASSUME BackendsInit PROVE PlacesTyped
  OBVIOUS
<1>2. PICK h \in Heights : pixels = [y \in 1..h |-> 0]
  BY <1>1 DEF BackendsInit
<1>3. Len(pixels) = h /\ DOMAIN pixels = 1..h
  BY <1>2
<1>4. OnGpu => DOMAIN texture = DOMAIN pixels
  BY <1>1, <1>3 DEF BackendsInit, Pictures
<1>5. backend \in {"CPU", "File", "OpenGL"} /\ frameCount \in 0..MaxPresents
  BY <1>1 DEF BackendsInit
<1>6. bound \in BOOLEAN /\ cpuBufferDirty \in BOOLEAN
  BY <1>1, Zenon DEF BackendsInit, OnGpu
<1> QED
  BY <1>4, <1>5, <1>6 DEF PlacesTyped

LEMMA PlacesTypedStep ==
  ASSUME BackendsInv, PlacesTyped, BackendsNext
  PROVE  PlacesTyped'
<1>0. pixels \in Shown /\ texture \in Shown
  BY DEF BackendsInv, PicturesTyped
<1>1. backend' = backend
  BY DEF BackendsNext, ClearBuffer, ResizeBuffer, Upload, Draw, BindBuffer, UnbindBuffer,
         Download, Data, InPlace, Present, PresentFails, ResetFrameCount, backendsVars, bufferVars
<1>2. bound' \in BOOLEAN
  BY Zenon DEF PlacesTyped, BackendsNext, ClearBuffer, ResizeBuffer, Upload, Draw, BindBuffer,
     UnbindBuffer, Download, Data, InPlace, Present, PresentFails, ResetFrameCount,
     backendsVars, bufferVars
<1>3. cpuBufferDirty' \in BOOLEAN
  BY Zenon DEF PlacesTyped, BackendsNext, ClearBuffer, ResizeBuffer, Upload, Draw, BindBuffer,
     UnbindBuffer, Download, Data, InPlace, Present, PresentFails, ResetFrameCount,
     backendsVars, bufferVars
<1>5. frameCount' \in 0..MaxPresents
  <2>1. \/ frameCount' = frameCount
        \/ frameCount' = 0
        \/ frameCount < MaxPresents /\ frameCount' = frameCount + 1
    BY DEF BackendsNext, ClearBuffer, ResizeBuffer, Upload, Draw, BindBuffer, UnbindBuffer,
       Download, Data, InPlace, Present, PresentFails, ResetFrameCount, backendsVars, fileVars
  <2> QED
    BY <2>1 DEF PlacesTyped
<1>6. ASSUME OnGpu PROVE DOMAIN texture' = DOMAIN pixels'
  <2>0. DOMAIN texture = DOMAIN pixels
    BY <1>6 DEF PlacesTyped
  <2>1. ASSUME NEW v \in Values, ClearBuffer(v) PROVE DOMAIN texture' = DOMAIN pixels'
    BY <1>6, <2>1 DEF ClearBuffer, Filled
  <2>2. ASSUME NEW h \in Heights, ResizeBuffer(h) PROVE DOMAIN texture' = DOMAIN pixels'
    BY <1>6, <2>2 DEF ResizeBuffer, Resized, Pictures
  <2>3. ASSUME NEW h \in Heights, NEW p \in Pictures(h), Upload(p)
        PROVE  DOMAIN texture' = DOMAIN pixels'
    BY <1>6, <2>3 DEF Upload
  <2>4. ASSUME NEW h \in Heights, NEW p \in Pictures(h), Draw(p)
        PROVE  DOMAIN texture' = DOMAIN pixels'
    <3>1. p \in Shown /\ Len(p) = Len(pixels) /\ texture' = p /\ pixels' = pixels
      BY <2>4 DEF Draw, Shown
    <3> QED
      BY <1>0, <3>1, ShownLength
  <2>5. CASE Data \/ InPlace
    BY <2>0, <2>5 DEF Data, InPlace, Fetched, Inverted
  <2>6. CASE BindBuffer \/ UnbindBuffer \/ Download \/ Present \/ PresentFails \/ ResetFrameCount
    BY <2>0, <2>6 DEF BindBuffer, UnbindBuffer, Download, Present, PresentFails, ResetFrameCount,
       backendsVars, bufferVars
  <2> QED
    BY <2>1, <2>2, <2>3, <2>4, <2>5, <2>6 DEF BackendsNext
<1> QED
  BY <1>1, <1>2, <1>3, <1>5, <1>6 DEF PlacesTyped, OnGpu

\* The copy of a texture has its size in every order of calls, so that no upload or
\* download goes past either's end (OpenGLFramebuffer::resize).
THEOREM BackendTypes == BackendsSpec => []BackendsTypeOK
<1>1. BackendsInit => BackendsInv /\ PlacesTyped
  BY BackendsStart, PlacesTypedFirst
<1>2. BackendsInv /\ PlacesTyped /\ [BackendsNext]_backendsVars => BackendsInv' /\ PlacesTyped'
  <2>1. SUFFICES ASSUME BackendsInv, PlacesTyped, [BackendsNext]_backendsVars PROVE PlacesTyped'
    BY BackendsStep
  <2>2. CASE BackendsNext
    BY <2>1, <2>2, PlacesTypedStep
  <2>3. CASE UNCHANGED backendsVars
    BY <2>1, <2>3, SMTT(30) DEF PlacesTyped, OnGpu, backendsVars, bufferVars, fileVars
  <2> QED
    BY <2>1, <2>2, <2>3
<1>3. BackendsInv /\ PlacesTyped => BackendsTypeOK
  <2>1. SUFFICES ASSUME BackendsInv, PlacesTyped PROVE BackendsTypeOK
    OBVIOUS
  <2>2. /\ Len(pixels) \in Heights /\ pixels \in Pictures(Len(pixels)) /\ DOMAIN pixels = 1..Len(pixels)
        /\ Len(texture) \in Heights /\ texture \in Pictures(Len(texture)) /\ DOMAIN texture = 1..Len(texture)
    BY <2>1, ShownLength, SMTT(30) DEF BackendsInv, PicturesTyped
  <2>3. OnGpu => Len(texture) = Len(pixels)
    <3>1. ASSUME NEW m \in Nat, NEW n \in Nat, 1..m = 1..n PROVE m = n
      <4>1. \A k \in Nat \ {0} : k <= m <=> k <= n
        BY <3>1
      <4> QED
        BY <4>1
    <3> QED
      BY <2>1, <2>2, <3>1 DEF PlacesTyped
  <2> QED
    BY <2>1, <2>2, <2>3 DEF PlacesTyped, BackendsTypeOK
<1> QED
  BY <1>1, <1>2, <1>3, PTL DEF BackendsSpec

===============================================================================
