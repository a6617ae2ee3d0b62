# Formal models of the AVS renderer

TLA+ models of the parts of this repository whose behaviour is hard to test: the thread
pool and the effects that run on it, the audio captures with their rings and streams, the
player's loop with its preset watcher, presets that are read and lists that are built from
texts, the framebuffer backends, and the effects that remember earlier frames. TLC checks the
models on small instances; TLAPS proves what matters most of them for every size.

Paths below are relative to `src/`.

## 1. The system

`apps/avs-player` opens a window and a capture device, loads a preset into a chain of
effects and then, for each display frame, polls the audio, lets `Engine` render the chain
and blits the picture. A second renderer, `avs::core::Pipeline`, runs effects on a
`ThreadPool`. Threads exist in three places only: the workers of the pool, PortAudio's
callback in `AudioInput`, and PortAudio's callback of an `InputStream`, which feeds
`LiveAudioAnalyzer`. Everything else is sequential and hard to test for another reason: state
that lives across frames while settings, frame sizes, scripts and presets change under it.

| Component | State it keeps | Operations | Talks to | What makes it correct | Model |
|---|---|---|---|---|---|
| `ThreadPool` (libs/avs-core) | current task, hasTask, completion counter, shutdown flag, two condition variables | execute, workerLoop, constructor, destructor | Pipeline, by a callback | no wakeup is lost; a task starts only inside its call; the destructor returns and leaves no thread | ThreadPool |
| `Pipeline`, `EffectRegistry` (libs/avs-core) | chain of effects, pool, factories by key | add, clear, setThreadCount, render | ThreadPool, effects | stops at a failure; a frame is false exactly for what was reported to it; add fails exactly for unknown keys | Pipeline |
| `R_Blur::smp_render` | three scratch frames shared by the threads | copy, horizontal pass, vertical pass, blend | ThreadPool | a row is blended by one thread, once in each run; thread 0 is safe from the others in its own rows | SmpBlur |
| `AudioInput` (libs/avs-audio-io) | ring, write index, underflow and resampler flags | paCallback, poll, constructor, destructor | PortAudio's thread, the renderer | a window is a stretch of the stream; stops only for a streak and reports failures | CaptureRing, AudioDevices |
| `AudioEngine`, `InputStream` | the streams' handles | list, select, open, assign, move, destroy | PortAudio's thread, the player | the chosen device exists and can capture; a callback finds its stream alive | AudioDevices, InputStream |
| `LiveAudioAnalyzer` (the player) | ring, index, count, mutex | pushSamples, poll | PortAudio's thread, the player | a window is the tail of the stream | LiveAnalyzer |
| `FileWatcher` (libs/avs-base) | inotify descriptor, last time | constructor, poll | the file system, the player | a file left alone is loaded in the end | FileWatcher |
| `Engine`, `CompositeEffect` (libs/avs-compat) | two frames, index, chain | setChain, resize, step | effects, the player | whatever the buffers, one picture goes through the chain; it fits the window | Engine, FramePipe |
| player's loop | chain, watcher, window size | start, reload, resize, step, blit | all of the above | failed loads cost nothing | Player |
| binary preset parser (libs/avs-compat), its effect factories | the calls of the walk through nested lists | parse a list, an effect, a comment; make | the player | nested lists end where their length says; damage stays in the effect it hit | PresetParser |
| `EffectListEffect` (libs/avs-compat) | text, factory, children | set_parameter, set_factory, init, rebuild | effects, factory | the children are those of the text that is in force, or none | EffectList |
| framebuffers of avs-core (CPU, File, OpenGL) | pixels, texture and its copy, dirty mark, file number | clear, upload, download, data, resize, present | Clear, Swizzle, Invert, OpenGL | what is read is what was written last, with the exceptions of OpenGL and no other | RenderBackends |
| `runtime::Framebuffers` (libs/avs-compat) | current and previous frame, slots, overlays | beginFrame, finishFrame, resize, save, restore, overlays | drawing effects | overlays last as long as they were activated for, across resizes | Framebuffers |
| scripted effects of avs-effects-legacy, Globals, EEL runtime | compiled sections, registers, budget | init, setParams, render | registers shared by effects | what runs is the code that is set; INIT before the others; registers flow forwards | Scripts |
| `ScriptedEffect` of avs-compat (superscope, colour modifier) | four scripts, beat, table of colours | init, set scripts, update, process | audio | a beat reaches the script once; the table is of the present code | SuperscopeScripts |
| Video Delay | ring of frames, beat clock | setParams, render | the frame's size and beat | shows the frame of `delay` frames ago, never one of another size | VideoDelay |
| Multi Delay | rings shared by all instances | instances, parameters, begin of frame, store, fetch | other instances | rings advance once a frame; a fetch is a delay old | MultiDelay |
| Custom BPM with BeatGate | accumulator, counters, latch, hold | render, settings | the beat of the frame | no drift, exact skipping, the gate's window | CustomBpm, BeatGate |
| Transition | clock, mode, two buffers, blocks | setParams, render | the frame's index and size | a mode that moves rows, columns or blocks draws each pixel once from inside a buffer; the search for a block ends | Transition |
| Mosaic, RotoBlitter, Colorfade, MovingParticle | configured, beat's and present value | setParams, render | beat | what a beat sets wears off in its time | BeatDecay |
| text, micro and JSON presets | none (functions of text) | parse, make, write | the player | | not modelled: pure functions of strings |
| effect registries | tables filled before main | register, find | | | not modelled: no steps |
| render mode, colour modifier of legacy effects | one field, one table anew per frame | set, read | effects of a frame | | not modelled: no history |
| drawing effects with state (water, particles, stars, scopes) | height maps, histories, angles | render | beat, audio | | not modelled: what matters is a floating point picture |
| drawing effects without state | none | render | | arithmetic on pixels | not modelled: unit tests fit better |
| Analyzer, FFT | smoothed levels, history of flux | process | player | | not modelled: floating point |
| headless run, OffscreenRenderer, MD5 | position in a file | load, render | Engine | same input, same sums | not modelled: a sequential loop over Engine |
| APE, SVP loaders | a foreign library | load, process, unload | | | not modelled: what happens is in the library |
| random numbers, window and platform, PipeWire stub, avs-studio | | | | | not modelled: I/O, GPU, stubs |
| libs/third_party, docs/avs_original_source, codex, ext, tools | | | | | vendored or not code of the program |

Hard behaviour, by kind: interleavings in the pool, the blur and the two rings; a callback
that fails, or outlives its owner, on another thread; a preset that is rewritten, replaced or
deleted while it is read; rings that change length, frame size or configuration while full;
several effects that share one state; scripts that fail or exceed their budget between two
that do not; numeric edges (more threads than rows, a window as long as the ring, a frame
longer than a beat interval). `PROJECT.json` lists each hazard with its line and the
properties that cover it.

## 2. Modules

Each action of a module is one operation, handler or critical section of the code, whole.
Names are those of the source. The smallest steps are what another thread can observe: a
critical section under a mutex, or a slot of an unlocked ring. Payloads are abstracted to
what the properties tell apart: a sample or a frame is its position in the stream, a picture
is who drew it, a device is the formats it takes, a script is whether it compiles, what it
costs and whether it sets a register.

* **ThreadPool** (`libs/avs-core/src/ThreadPool.cpp`). One process per worker and one for the
  caller of `execute` and the destructor; a worker's wait, its run of the task and its
  completion are separate actions, as the mutex is released between them. A thread asleep in
  a condition variable is in a wait set; spurious wakeups are allowed. `Workers` is a set of
  any size, `MaxCalls` bounds the calls of a behaviour, `CounterRange` the history counters.
* **Pipeline** (`Pipeline.cpp`) extends ThreadPool: the task is the effect of a chain, with a
  verdict per worker. `renderSuccess` is a local of `render`; a late worker writes into a dead
  local, which the model keeps apart.
* **SmpBlur** (`effect_blur.cpp`, `renderBoxThreaded`) extends ThreadPool: the blur is the task
  of the modelled pool, with all that findings 1 and 2 say of it. A thread may run the task
  again, `execute` may return while threads are in their passes or have not begun, and
  `NextPicture`, the next call, draws a new picture under them. A row is its *level*: how often
  it was blurred since the picture was drawn, or `Mixed` when it is made of an older picture or
  of rows of several levels; a row blended again is one level further, as if the single-threaded
  effect had been there twice. `allocated` says whether the buffers are large enough, `stray`
  which threads hold pointers into buffers that `ensureBuffers` has made anew since or was
  still to make: what they write there is lost. Simplified: a row is read and written in one step
  (the vertical pass goes by columns), the settings and the size stay for a behaviour,
  `ensureBuffers` is one step, the chain has this one effect, and a picture is drawn in the step of
  the call. What a stray thread may do to other memory, or that it may crash, is not modelled.
* **CaptureRing** (`audio_portaudio.cpp`): the callback writes slot by slot, then publishes the
  index; `poll` checks failure and underflow, then copies slot by slot without a lock.
* **AudioDevices** (`audio_portaudio.cpp`, `AudioEngine.cpp`): negotiating rate and channels,
  resolving an identifier (index, name, part of a name) and the player's selection, as
  operators over all small enumerations of devices.
* **LiveAnalyzer** (`apps/avs-player/main.cpp`): `pushSamples` and `poll` under the mutex, frame
  by frame. The mutex is a variable, so that dropping it would show. **InputStream**
  (`AudioEngine.cpp`) extends it with the streams whose callbacks push: handles that are
  opened, assigned, moved and destroyed while PortAudio calls back with a plain pointer.
* **FileWatcher** (`libs/avs-base/src/fs_posix.cpp`): inotify events on an inode and the
  modification time of a path, against an editor that writes in place, replaces and deletes.
* **Engine** (`libs/avs-compat/src/engine.cpp`, `effects/composite.cpp`): the two frames and
  their swap after every effect, with nested lists that have two frames of their own; an
  effect may resize its output. **FramePipe** is what it promises: one picture that passes
  through the effects of the chain, each drawing on what the one before has left, and no
  buffers at all. `Engine` instantiates it as `Pipe`; the picture is mapped to what the buffer
  holds that the next effect will read. **Player** (`main.cpp`) composes FileWatcher and Engine
  into the display loop.
* **PresetParser** (`libs/avs-compat/src/preset.cpp`, payload checks of
  `libs/avs-effects-legacy/src/effect_registry.cpp`): one action per thing the walk meets. A field
  is one cell whatever its width, an APE name is `ApeCells` cells of which the first tells it
  apart, warnings are left out. `parseRenderListChunk` calls itself; the stack of its calls is
  the variable `lists`, since a recursive operator would be out of the prover's reach. What a
  factory does is abstracted to whether it accepts the payload: most keep it unread. What a
  preset is written from is a constant: `Effects`, each with its cells and what it parses to,
  and `WellFormed` says which effects may be in it, those in the lists among them too.
* **ListText** and **EffectList** (`libs/avs-compat/src/effects_misc.cpp`): the hand-written
  parser of a list's text over tokens, as one recursive function of what is read and where; and
  the list itself, whose text, factory and initialisation arrive in any order. `rebuildChildren`
  and `init` go on into the lists among the children: `Rebuilt` and `InitAll` are functions of the
  depth, recursive in it, so that they can be proved about. `Texts` are tokens with the tree they
  describe, and no text nests deeper than `MaxDepth`. A token is a mark, white space, a string or
  a character of anything else; the code reads characters, and the one place where this differs
  is a string behind an unquoted value, in which the code would stop at a comma or a bracket.
  **ListWriters** is what the parser is compared with: documents, built from pieces (strings,
  unquoted values, arrays, objects with any keys in any order, white space wherever it may
  stand), and for each piece its tokens, whether it is good (every object names an effect that
  is not empty, each "effect" is a string, "children" an array) and what it describes. The texts
  are those of all documents of so many levels of pieces, whole, cut off at any token, cut off
  in a string, or with a token too many.
* **RenderBackends** (`CPUFramebuffer.cpp`, `FileFramebuffer.cpp`, `OpenGLFramebuffer.cpp`): the
  three implementations of `IFramebuffer` under the effects that use them. Each has pixels of
  its own (memory, a texture with its copy and dirty mark, numbered files).
* **Framebuffers** (`libs/avs-compat/src/runtime/framebuffers.cpp`), **VideoDelay**,
  **MultiDelay**, **BeatGate**, **CustomBpm**, **Transition** (libs/avs-effects-legacy):
  sequential state over many frames.
* **Scripts** (`core/effect_scripted.cpp`, `prime/Globals.cpp`, the runtime in
  `libs/avs-dsl/src/script`): a ScriptedEffect and a Globals that share a register of g1..g64;
  when a section is compiled, which run, what the budget stops and what a failure leaves
  behind. **SuperscopeScripts** (`libs/avs-compat/src/effects/scripted.cpp`): the beat between
  `update` and `process`, INIT, the colour table and the number of points. Several updates between
  two frames are allowed, which is more than `Engine::step` does: it calls `update` once before
  each `process` (`engine.cpp:66`), and only for the effects of the chain itself. A scripted effect
  inside of a list is never updated: it has no time, no sound and no beats.
* **BeatDecay**: the four effects a beat sets to another value, one step function each.
* **MCInputs** runs the captures, streams, devices, presets, lists and backends, **MCEffects** the
  blur, delays, beat generator, framebuffers, transitions, scripts and decays side by side: in
  each behaviour one part moves and the others stay in an initial state, so one run covers
  all of them without multiplying their states. **MCThreadPool, MCPipeline, MCPlayer,
  MCTransition, MCBlur** give values to the constants of the module they are named after.
* **SharedLemmas**: slots and positions, the lemmas the ring proofs share; the least element of a
  set of numbers with the induction that follows from it; and what `FlattenSeq` is.
* **CoreProofs, EffectProofs, TimedEffectProofs, InputProofs, ListProofs, PlayerProofs,
  PresetParserProofs**: theorems (section 5).

A few operators whose name begins like the one after them and whose comment begins with
`mutant:` are plausible wrong versions of the code; no specification uses them. Each
property is shown to notice one of them.

## 3. Runs

| Run | Question | Answer |
|---|---|---|
| `pool` | Three workers, two calls, a destructor, every interleaving and spurious wakeup | no lost wakeup, no stranded caller, tasks start inside their call, notified work gets done, the destructor returns with no thread left |
| `pool_once` | "The task function will be called once per thread" (ThreadPool.hpp:35) | violated, finding 1 |
| `pool_returns` | "blocks until all threads have completed the task" (ThreadPool.hpp:38): does it return then? | violated, finding 2 |
| `pipeline_chain` | Chains of up to two effects over two frames, changes of chain and pool between them | stops at failures; a frame is false exactly if a failure was written to its variable before it was read |
| `pipeline_verdict` | "true if every effect reported success" (Pipeline.hpp:29) | violated, finding 3 |
| `blur_barrier` | "implicit barrier in ThreadPool" (effect_blur.cpp:321) | violated, finding 4 |
| `player` | An editor, a window that is resized, and the loop | the swapping buffers implement one picture, it fits the window, a file left alone is loaded in the end |
| `watcher_changed` | "true if the file changed since the last call" (fs.hpp:12) | violated, finding 5 |
| `transition_frames` | "Animates between frames" (effect_transition.h:17) | violated, finding 6 |
| `backends_any` | Effects write "without knowing the backend" (IFramebuffer.hpp:15) | violated, finding 7 |
| `inputs` | What the player takes in and gives out, one part per behaviour | thirteen properties, below |
| `effects` | The effects that keep state, one per behaviour | sixteen properties, below |

`player` checks the refinement: `OnePicture` is `Pipe!PipeSpec`, FramePipe's whole
specification under the mapping. `BlitFits` says that the frame has the window's size
when it is blitted, `SettlesOnFile` is liveness.

`inputs`: `PublishedInPlace`, `TornOnlyWhenLapped` (which samples a window holds when the
callback overtakes the copy), `StoppedIsSilent`, `StoppedOnlyForStreak`, `FailureReported`
(when a capture stops, that it is silent then, that a failure is reported in the end);
`WindowIsTail` (the analyzer's window is the tail of what any stream pushed);
`CallbacksFindTheirStream` (no callback runs on a stream that is gone, each stream belongs to
one handle, except for streams whose handle was assigned over);
`DevicesSound` (a negotiated format is supported and departs from the request only as it
must; the device found is the one asked for and can capture); `DamageConfined` (what lies
before a cut or damaged cell comes out as it was written; damage in a payload changes that
effect alone); `InsideList` (no list reads beyond the length in front of it);
`ChildrenAreConfigured` (whatever the order of text, factory and initialisation, the children
at every depth are those the tree asks for and the factory makes, initialised with the present
context); `TextIsUnderstood` (that tree is the one the text was written from, in each layout,
and none if an object names no effect or the text was cut off or goes on after its end);
`PicturesArrive` (the CPU and File backends give what was written last, by each way to read; on
OpenGL `download()` gives what was put on the texture last, never what was worked on in place,
and `data()` that with the work in place since, until the next clear, upload, bind or resize takes
it away, and but for what was drawn later under the same bind; the numbered files are the
pictures presented). What OpenGL loses is thus said exactly, and shown by `backends_any`.

`effects`: `RowsFollowRuns` (each row is blended by the thread it belongs to, once in each run of
the task by that thread, and never by another); `OwnShareSafe` (without the vertical pass the rows
of thread 0 have been blurred as often as it ran the task for this picture, whatever the others
do; not when it was still in the task of the last picture. That every row is blended, or only
once, when `execute` returns is not so: the pool may return early and run a thread twice.)
`OwnSizeOnly`, `ShownIsDelayed` (Video Delay shows frames of the present size, and with a steady
delay exactly the frame of `delay` frames ago); `FetchedIsDelayed`, `FetchedSinceEmptied` (whoever
renders first, a fetch of Multi Delay returns what was stored a delay ago and nothing older than
the last reset); `PulsesExact` (no pulse is lost or added over any sequence of frame times, first
beats dropped, then every n-th); `GateWindow` (the gate is open in exactly the frames that the
code gives its beat, the window after a released latch, which section 4 comes back to, among
them); `OverlaysLast` (an overlay is on show for its duration and no longer, across resizes);
`BlockSearchEnds` (the search for a block that does not yet show the new picture finds one,
although the clock may jump or stand); `PictureTiled` (in the modes that move rows or columns each
pixel is drawn exactly once and from inside a buffer; the blocks of NineRandomBlocks lie inside
the picture and each pixel in one of them; the dissolving modes are one loop over the pixels and
have no copies to fit together); `StagesCurrent` (what ran is the code of the scripts that are
set, after an INIT that ran or was tried); `RegistersFlow` (a register changes only by a script of
that frame: an older copy never comes back); `TableCurrent` (the colour table is that of the
present code); `BeatsReachScripts` (a BEAT script runs exactly when the level rose, however
updates and frames alternate, for an effect that is updated); `BeatWearsOff` (the value a beat
sets stays between the two ends and comes back in its time, as the code has it and not as the
document that section 4 quotes, however settings change in the middle of it).

`pipeline_chain`: `FailureCounts` (a failure seen ends the chain, and is not overwritten by a later
report); `VerdictFollowsReports` (for each frame: the result is false exactly if a failing effect
wrote to the frame's variables while it was in progress. A worker left over from an earlier execute
writes to a dead local, which may or may not lie where the living one does; if it does not, its
report changes nothing, and no failure of an earlier frame is ever kept).

**Bounds and why they are enough.** Three workers are the least with which one can overtake while
another lags and a third sleeps; two calls let a worker meet the leftovers of the first. Two
frames with chains of two effects have a first, a middle and a last effect and a change between
frames. Three rows on two threads have a remainder, one row on two leaves a thread without any,
and of three threads one is neither the first nor the last (these have buffers that are large
enough from the start). `MaxRuns`, the runs of the task by one thread in a behaviour, is two: with
two calls a thread may run each once, one of them twice, or be late with one. With buffers that
are too small at first (`allocated`) a thread may be ahead of `ensureBuffers`. The ring of four
with a window of two is lapped within one callback and wraps several times in seven samples; a
push of five frames exceeds the analyzer's ring of four. Two handles with two streams allow
assigning over, moving onto and swapping. The watcher's three versions allow a write, a
replacement and a deletion during one load. The three presets have extended modes, lists in lists,
comments, known and unknown APE effects and scripts; each is cut at every cell and has every cell
replaced by ten values, among them lengths that are too long, the ids of lists, comments and APE
effects, and 0. The trees of effect lists hold lists in lists and name effects that every, some or
only one factory makes; each is written tightly, with white space everywhere, and with keys the
parser skips, and there are documents with an effect missing, empty, given twice or no string.
Their texts are cut off at each token, also with a broken string there, or have a token too many;
`Levels` is 40 and the deepest document, a chain of fields and nodes, has 30. Two heights and two
presents let a backend shrink, grow and number its files. Among the scripts one takes the whole
budget, one leaves it, one does not compile. Three transition sizes include an empty frame and two
whose sides do not divide evenly; the table of four steps of the sine has all its rounding. In
`effects` each other bound lets every ring wrap at least once, both shrink and grow, and a counter
pass its limit. Counters that only grow (`MaxCalls`, `MaxSamples`, `MaxTotal`, `MaxFrames`,
`MaxVersion`, `MaxQueue`, ...) stop the behaviour and never change a step. Symmetry is used only
for the interchangeable workers in runs without liveness. Deadlock checking is on except in
`inputs`, `effects`, `transition_frames` and `backends_any`, where a part that has used up its
frames stops.

**Fairness.** The pool: weak fairness of each worker's steps and of the caller's, since a
runnable thread is scheduled and the mutex is held for finite sections; none for spurious
wakeups or for new calls. The capture: weak fairness of `poll` (the display loop calls it in
every frame) and of a callback that has begun; none for the start of callbacks. The player:
weak fairness of the loop; none for the editor or for resizing. Nothing is assumed fair
that a user or a device may simply never do. The other parts promise nothing that must
happen in the end.

## 4. Findings

1. `ThreadPool.cpp:69`: `hasTask_` stays true when a worker has completed, so a fast worker
   takes the same task again (`OncePerThread`). An effect's rows are then rendered again from
   what was made of them the first time.
2. `ThreadPool.cpp:57`: those extra completions may carry the counter past the equality the
   caller waits for, and `execute` keeps waiting (`CallReturns`).
3. `Pipeline.cpp:43`: in the other direction the count may be reached while a worker has not
   finished; `render` returns true and the worker's failure goes to a local that is gone.
4. `effect_blur.cpp:321`: the threads do not wait for thread 0's copy of the frame, nor for its
   `ensureBuffers`, which may make the buffers anew under the pointers they have taken.
5. `fs_posix.cpp:43`: with inotify the recorded time is never initialised, so the first poll is
   true and the player, which makes a watcher after every load, reloads in every frame.
6. `effect_transition.cpp:123`: what is kept for the next transition is the picture that has
   just been drawn over the frame from the two buffers, so both buffers hold parts of the
   first frame of their size for ever (`AnimatesBetweenFrames`).
7. `OpenGLFramebuffer.cpp:79`: what Swizzle and Invert write through `data()` reaches the
   copy only, not the texture (`AnyBackendWillDo`).

Two properties of `effects` hold of the code and not of its documents:

* `GateWindow`. `docs/effects/gating.md:29-30` says that the sticky toggle makes each beat "toggle a
  sticky latch instead of using a transient countdown", and gating.md:33-34 and
  `docs/effects/misc/custom_bpm.md:21` that frames are held only when it is off. In the code
  every beat starts the countdown (`gating.cpp:27`); it stands still while the latch is engaged,
  but after the beat that releases the latch it runs, and the gate stays open for `holdFrames`
  frames (`gating.cpp:66`). The property says so.
* `BeatWearsOff`. `docs/effects/trans/mosaic.md:16` says of `beat_duration` "Number of frames the
  on-beat quality is held after a trigger", and mosaic.md:31-33 that it is latched for as many
  frames "and then linearly steps back". In the code it steps back from the first frame on and is
  at the base when the duration is over (`effect_mosaic.cpp:200-212`); nothing is held. The
  property asks for what the code does.

Smaller differences between documents and code, met while modelling and without a run:

* `docs` on gating say that a gate holds `holdFrames` frames after the beat, code and test count
  the beat's frame among them (`gating.cpp:34`). The documented default of Custom BPM's
  `skip_val` is 1 and the code's is 0. With `onlySticky` the flag of a beat that engages the
  latch is Sticky and not Beat.
* Multi Delay asks for its history to be preserved on a change of configuration and then
  forces the rings to be recreated (`effect_multi_delay.cpp:270`). Video Delay in beat mode
  lengthens its ring by a black frame per frame while a beat is overdue
  (`effect_video_delay.cpp:79`).
* An old-format Movement expression loses its first character to the version byte
  (`effect_registry.cpp:303`). `tests/avs_core_tests.cpp:366` expects a warning that Trans /
  Fadeout is not decoded, but a factory is registered for it and decodes it
  (`effect_registry.cpp:1021`). APE effects are registered under names like "Trans /
  Multiplier", while the name in a preset is looked up as it is.
* Transition in random mode always cross-dissolves, although the comment at
  `effect_transition.cpp:75` says that a random mode is taken; its clock is
  `frameIndex * deltaSeconds`, so a longer frame moves the past too and progress may jump or
  be negative.
* The document of the scripted effects says of INIT "Run once after compilation", but an INIT
  that exceeds the budget counts as run and FRAME then runs without it. `Globals` stays off
  after a failure until its scripts change, and does not store its registers then, while
  `ScriptedEffect` stores them after errors too. The example in the document of Globals reads
  `beat`, which Globals does not register.
* Nothing resets the mode that Render Mode sets (`effect_render_mode.cpp:56`): it lasts into the
  frames after it was removed from the chain.
* A list's text (`docs/effects/compositing.md`) may not be `{}` or have a trailing comma or an
  empty "effect"; two "children" are concatenated; an unknown key with an array of numbers, or
  with an object that has no "effect", rejects the whole text; and a text that was rejected is
  given back by `parameters()` all the same.
* `FileFramebuffer` flips its pictures; its comment (`FileFramebuffer.cpp:83`) gives as the
  reason a convention that the image writer does not have. On the OpenGL backend an upload
  while the buffer is bound clears the dirty mark, and a later draw is missed by `data()`.
* RotoBlitter's zoom may stay on the far side of a base that was moved past it, unseen until the base
  moves again; MovingParticle stays one short of a base reached from below; when Mosaic's duration is
  shortened in the middle of a step back, its steps get longer while the frames of the old
  duration still count, and it stays beyond the base, further with each frame, until these are
  over: up to as many frames as the old duration has.
* JSON presets write infinities as null and refuse null when read; integers wrap at
  `parser.cpp:74`; `docs/preset_json_schema.md:23` calls "version" required, the reader accepts
  its absence.

## 5. Proofs

All theorems hold for every value of the constants that satisfies the module's named
`ASSUME`; TLC evaluates the assumptions on the runs' values.

* **CoreProofs.** Of the pool: `TypeCorrect`, `WakeupsNotLost`, `CallerIsWoken`, `PoolIsEmptied`,
  `TasksStartInsideTheirCall`, for any finite set of workers and any number of calls.
  Their invariant ties the phase of each thread to the shared flags (a worker holds a task only
  after one was announced; a sleeper's predicate was false when it slept, and whoever makes it
  true empties the wait set); type correctness alone is not inductive for the wakeups. Of the
  pipeline: `VerdictsAlwaysFollow` and `FailuresCount`, whose invariant says which frame each call
  belongs to (`CallsInFrame`), that `success` and `renderSuccess` are false exactly if a failure
  was written to this frame's variables, as the results of earlier frames are for theirs
  (`VerdictsFollow`), and that while the loop goes on only effects on the pool can have failed
  (`OnlyPoolFails`). Of the blur, for any heights, threads and calls: `SharesAreDisjoint`,
  arithmetic on the quotient of height and thread count (that a row is in the share of its owner,
  `OwnerHasRow`, is shown beside it); `BlurTypes` and `RowsAlwaysFollowRuns` by `BlurInv`, which
  counts for each row how often the thread it belongs to has been past it, in finished runs and in
  the present one; and `OwnShareIsSafe` by `OwnShareKept`: only thread 0 writes what it reads in
  its share, so its copy, its pass and its blend hold the level its run began with, as far as each
  has come. Every step of the blur is one of the pool or leaves the pool alone (`BlurIsOfPool`),
  so the pool's invariant goes with it. Of the framebuffers: `PicturesAlwaysArrive`, for any
  heights and presents. `BackendsInv` says that each place a picture is kept in holds what is due
  to its readers unless the dirty mark says otherwise (`PlacesAgree`), that the last read was
  right (`LastReadGood`) and that files and numbers go together (`FilesInOrder`); `BackendTypes`,
  with `PlacesTyped`, that the texture and its copy have one size.
* **EffectProofs.** `StagesStayCurrent` and `RegistersAlwaysFlow` rest on `ScriptsInv`: the
  compiled sections are those of the scripts that are set, or compilation is still due, and the
  copy of a register in a virtual machine is loaded before it can be stored. `TablesStayCurrent`
  and `BeatsAlwaysReachScripts` rest on `ScopeInv` and `MadeInv`: a table that is not marked for
  recomputation was made by the present code after its last INIT and BEAT.
* **TimedEffectProofs.** `PulsesAreExact` (`BpmInv`: the accumulator is what is left of the
  elapsed time after the pulses, the skip counter what is left of the beats), `GateOpensItsWindow`
  (`GateInv`: the hold counter is the part of the window still to come). `OnlyOwnSizeIsShown`
  (`DelayInv`: the line's slots hold nothing or frames since the last change of size) and
  `DelayIsKept` (`SteadyInv`: as long as nothing changes, the slot j behind the head holds the
  frame of j frames ago); `LineIsBounded`, with `DelayBounded` (delay and frames since the beat
  within the limit of the history, no more slots filled than there are). `FetchesAreFresh`
  (`StoredInv`: a ring holds what was stored to it since it was emptied) and `FetchesAreDelayed`
  (`DelayedInv`: the read position lies right behind the write position, and each slot has the
  newest of the frames stored in its turns of the ring). `OverlaysAlwaysLast` (`OverlayInv`: what
  an overlay has left is its duration less the frames since). `BlockSearchesEnd` (`BlocksInv`: as
  many blocks as steps were taken, so one is free while steps are missing; counting needs the
  cardinality theorems). `PicturesAreTiled` (`DrawnInv`, for each mode a lemma that its strips are
  disjoint, cover the line and lie in their source, and `BlocksDivide` on the nine blocks).
  `BeatsWearOff` (`WornInv`, per effect how far the value can still be from the base: for Mosaic
  the steps left do not lead past it, RotoBlitter is three closer with each frame, Colorfade one,
  MovingParticle at least one). `TransitionTypes` and `DecayTypes` follow from the same
  invariants.
* **InputProofs.** Of the capture: `RingTypeCorrect`, `PublishedStaysInPlace`,
  `WindowTornOnlyWhenLapped`, `SilentAfterStop`, `StopsOnlyForStreak`. The ring's invariant is
  `SlotsHold`: a slot holds a sample whose position belongs there, and none older than the last
  position of that slot. With it a read of an overwritten slot yields a sample a whole ring
  younger (`SlotRead`), and `WindowTaken` carries this through the copy while the callback only
  moves on. `StreakIsRecent` ties the counter to the polls it counts. Of the analyzer:
  `AnalyzerTypeCorrect`, `WindowIsTheTail`; the last `RingSize` frames taken are in their slots
  (`RingIsTail`), the wrapped index and the saturated count stand for the stream's position
  (`IndexIsPosition`), and `PollIsUnderway` says what the poll has copied while it holds the
  mutex. Of the streams: `CallbacksAlwaysFindTheirStream`; `StreamsInv` says that handles are
  apart (`HandlesApart`), that a handle's stream runs (`HandlesRun`), whose each stream is
  (`OwnerKnown`, `Accounted`) and that a callback's stream is one that runs (`CallerRuns`);
  `StreamTypes` is part of it. Of the devices: `DevicesAreSound`, for any devices, names and
  rates, from a lemma for each of the three questions (`NegotiationAnswered`,
  `ResolutionAnswered`, `SelectionAnswered`) on what the first device of a kind is (`FirstTaken`).
  Of the effect list: `EffectListTypes` and `ChildrenAreAsConfigured`, for any texts, factories
  and contexts and any depth. The two together are inductive. They rest on `InitOfDescribed`: by
  induction over the depth, what `init` makes of the children that a list asks for in one context
  are those it asks for in another; so an `init` that comes late, and one that comes again, lead
  to the same children (`MadeAnew`, `InitAgain`). `Lists`, `Children`, `Rebuilt`, `InitAll` and
  `Described` are recursive functions of the depth; that there are such functions is shown for
  each by induction (`ListLevelsExist`, `DescribesExist`, ...).
* **ListProofs.** `TextsAreUnderstood`: a list keeps the tree its text was written from, for any
  set of texts among those of documents of any number of levels. The assumption on `Texts` is
  that they are such texts (`AllTexts(levels)`), as those of the run are: TLC looks each of its
  documents up in `Documents(Levels)`, which is undefined for anything else. The theorem is about
  the parser, not about the three operations, and goes in three steps. First, `Parser` is a
  recursive function without a number that falls, since a recursive descent goes on from the
  positions that it returned itself. Each function's answer follows from answers further on
  (`ReadsLocally`), and these lie further on because answers are sound (`SoundAnswer`: behind the
  position asked about, within the text, at the bracket or brace that was closed); both are
  shown together, and so a function that solves the equations is built position by position
  from the end of the text (`ParsesOneMore`, `SolutionExists`, `ParserIs`). Second, every piece is
  read as what it says wherever it stands (`ReadsAs`), one lemma per kind of piece, then by
  induction over the levels (`DocumentsRead`); that a bad piece is rejected is part of it, since
  a list with one of those would otherwise be read as far as it goes. Third, the damage:
  whatever was read of the beginning of a text and is settled in it is read again when the text
  goes on (`ReadOnceMore`), so a text that was cut off and still accepted would be the whole one
  (`CutIsRejected`), and with a token too many the parser stops before it (`MoreIsRejected`). An
  unquoted value at the end is the exception that `Settled` makes: it may go on, but no document
  ends with one.
* **PlayerProofs.** `EngineIsAPipe`: every step of the player maps to a step of FramePipe or
  leaves its variables alone. The invariant (`EngineInv`) says that input and output are the two
  different buffers (`EngineTyped`), that a step is at an effect or a child that exists
  (`StageAgrees`) and that all buffers have one size (`OneSize`); the mapping is not a step
  without it, since the buffer that is not shown holds an older picture. `FramesFit` adds that the
  size is the window's (`WindowAgrees`).
* **PresetParserProofs.** `ListsStayInside` and `RecursionBounded` (no more calls than half the
  file's length), for every file, damaged in any way. Their invariant (`Inv`) says that each list
  lies within the file and is parsed up to a place inside it, that a caller waits at the effect
  whose payload its callee parses (`Nested`), and that a call at depth d begins at 2d cells or
  later. `DamageIsConfined`, for any set of well-formed effects in lists of any depth: the
  property speaks of the end only, so its invariant says at each moment what has been read.
  `Level` says of a call that it has read so many effects of the list it was written with, that
  its chain is theirs and its place is behind their cells; `Linked` that each caller waits at the
  list its callee reads. A call away from the damage finds in front of it what was written
  (`Ready`: for an inner call because its list lies whole in the file, for the outermost one from
  what the file is, `Origin`), and each step keeps that (`StackStep`). `Somewhere` then tells
  where the parser is as to the damage: `Intact`, before it or behind it, where one effect is
  replaced by whatever came out for it (`Alike`); `CutOff`, when the file has ended in that
  effect; `InsideHit`, in a list damaged behind its header, of which nothing is known but that its
  caller goes on behind it; or `Broken`, when a header is damaged and only what came before is
  known. From `Intact` alone the step at the damage could not be taken; the four together are
  inductive. It rests on `All`, the chain, comments or entries of effects in a row, being the
  concatenation of its parts (`AllGrows`, `AllSplits`); `FlattenSeq` is defined by a recursive
  function, so these are shown with the function it is defined by and induction over its argument.
* **SharedLemmas.** Positions a multiple of the ring apart share a slot, positions less than a
  ring apart do not, a slot may be computed from the wrapped index, and the next slot is one
  further or 0; from the uniqueness of quotient and remainder. `LeastOf`: a set of numbers that is
  not empty has a least element, from the library's theorem that `<` is well-founded; from it
  `Induct`, induction over a set of numbers, which stands in for the library's induction theorems,
  whose parameter is an operator. `FlattenedBy` gives the function that `FlattenSeq` is defined
  by, which exists by induction (`FlattensExists`), and `FlattenedIn` the kind of what it joins.

Every type invariant is a theorem; no run checks one by itself, the properties of the runs being
those that say more.

Only model-checked: all liveness (`DestructorReturns`, `WorkGetsDone`, `FailureReported`,
`SettlesOnFile`), which is outside of the prover's reach. Every other property of a passing run
is stated by a theorem.

## 6. What is not modelled

The arithmetic on pixels, sound and spectra; what an EEL script computes; parsing of texts (but
for the effect list's) and of parameters; logging, statistics and registers that only report;
allocation failure. Memory is sequentially consistent: the atomics of the capture are acquire and
release on the index, which orders the samples before it; the unlocked samples themselves are a
data race by the letter of the language, modelled as a read of the old or the new value of a slot.
Times are exact integers. Section 1 says which components are left out altogether and why.

The program proper is the C++ under `libs` and `apps`, some 33,000 lines; `docs/avs_original_source`
is the program it reimplements, kept for comparison, and no part of it is built. Most of the
rest is drawing code and tables of parameters. What keeps state over several steps, or runs
beside something else, is modelled.

Four hazards are listed without a property: nodes of the chain that are freed under a worker that
is still in their effect (what it then does is undefined; that it can be there is finding 3); the window
of a capture with more than 32 channels, which exceeds the ring (the model assumes `Window <= Ring`); the views of
`framebuffers_bridge.cpp`, which must be taken anew after a resize (no code of the repository
keeps them); and the watcher without inotify, for which no document promises that the last
version is loaded.

## 7. What is left

* The values that factories keep (Movement, Color Modifier, Add Borders) and the text, micro and
  JSON presets, as functions against a reference encoder: unit tests say the same.
* An abstract task latch for ThreadPool (every thread once, then return) that the code would
  refine once findings 1 and 2 are dealt with.
* SettlesOnFile without inotify, once it is decided what the player promises there.
