-------------------------------- MODULE Player --------------------------------
(***************************************************************************)
(* The windowed player (apps/avs-player/main.cpp): startup, then a loop    *)
(* that polls the file watcher, reloads the preset, resizes the engine to  *)
(* the window, steps it and shows the frame.  An editor changes the preset *)
(* file at any time.                                                       *)
(***************************************************************************)
EXTENDS FileWatcher, Engine

VARIABLES
  pc,            \* where the player is
  currentPreset, \* the path is set
  parsed,        \* [version, good]: what parsePreset has read
  loaded,        \* the version of the file the chain comes from, 0 for a default chain
  window         \* the size of the window

playerVars == <<pc, currentPreset, parsed, loaded, window>>
allVars    == <<file, watchVars, engineVars, playerVars>>

Empty == <<>>

PlayerInit ==
  /\ FileInit
  /\ EngineInit
  /\ pc = "start"
  /\ currentPreset = FALSE
  /\ parsed = [version |-> 0, good |-> FALSE]
  /\ loaded = 0
  /\ window = Start

-------------------------------------------------------------------------------
(* loadPreset, in two steps: the file may change in between.  A file that is  *)
(* missing or does not parse gives an empty chain.                            *)

Parse ==
  parsed' = [version |-> file.version, good |-> file.exists /\ file.good]

\* The chain and the watcher are replaced only if the preset has parsed.
Install(kinds) ==
  IF parsed.good
    THEN /\ SetChain(kinds)
         /\ Construct
         /\ loaded' = parsed.version
    ELSE UNCHANGED <<engineVars, watchVars, loaded>>

-------------------------------------------------------------------------------
(* main *)

\* --preset or --presets name the file, or there is none.
StartWith(preset) ==
  /\ pc = "start"
  /\ currentPreset' = preset
  /\ IF preset THEN Parse ELSE UNCHANGED parsed
  /\ pc' = IF preset THEN "first" ELSE "fallback"
  /\ UNCHANGED <<file, watchVars, engineVars, loaded, window>>

\* A preset given by --preset must load; of those in a directory the first that
\* loads is taken, and the last one stays currentPreset if none does.
FirstLoad(kinds, directory) ==
  /\ pc = "first"
  /\ Install(kinds)
  /\ pc' = IF parsed.good THEN "loop" ELSE IF directory THEN "fallback" ELSE "exit"
  /\ UNCHANGED <<file, currentPreset, parsed, window>>

\* The demo script or the built-in effects, and a watcher if a preset is named.
Fallback(kinds) ==
  /\ pc = "fallback"
  /\ SetChain(kinds)
  /\ IF currentPreset THEN Construct ELSE UNCHANGED watchVars
  /\ pc' = "loop"
  /\ UNCHANGED <<file, currentPreset, parsed, loaded, window>>

\* window.poll: the window may have a new size, or be closed.
PollWindow(s) ==
  /\ pc = "loop"
  /\ window' = s
  /\ pc' = IF currentPreset THEN "watch" ELSE "resize"
  /\ UNCHANGED <<file, watchVars, engineVars, currentPreset, parsed, loaded>>

Close ==
  /\ pc = "loop"
  /\ pc' = "exit"
  /\ UNCHANGED <<file, watchVars, engineVars, currentPreset, parsed, loaded, window>>

\* The key is asked first; the watcher is polled only without it.
PressReload ==
  /\ pc = "watch"
  /\ Parse
  /\ pc' = "load"
  /\ UNCHANGED <<file, watchVars, engineVars, currentPreset, loaded, window>>

Watch ==
  /\ pc = "watch"
  /\ PollWatcher
  /\ IF polled' THEN Parse ELSE UNCHANGED parsed
  /\ pc' = IF polled' THEN "load" ELSE "resize"
  /\ UNCHANGED <<file, engineVars, currentPreset, loaded, window>>

Load(kinds) ==
  /\ pc = "load"
  /\ Install(kinds)
  /\ pc' = "resize"
  /\ UNCHANGED <<file, currentPreset, parsed, window>>

ResizeEngine ==
  /\ pc = "resize"
  /\ Resize(window)
  /\ pc' = "step"
  /\ UNCHANGED <<file, watchVars, currentPreset, parsed, loaded, window>>

BeginStep ==
  /\ pc = "step"
  /\ StepBegin
  /\ pc' = "stepping"
  /\ UNCHANGED <<file, watchVars, currentPreset, parsed, loaded, window>>

StepEngine ==
  /\ pc = "stepping"
  /\ Step
  /\ pc' = IF stage' = "idle" THEN "blit" ELSE "stepping"
  /\ UNCHANGED <<file, watchVars, currentPreset, parsed, loaded, window>>

\* window.blit(engine.frame().rgba.data(), w, h)
Blit ==
  /\ pc = "blit"
  /\ pc' = "loop"
  /\ UNCHANGED <<file, watchVars, engineVars, currentPreset, parsed, loaded, window>>

EditFile ==
  /\ Edit
  /\ UNCHANGED <<engineVars, playerVars>>

Exited ==
  /\ pc = "exit"
  /\ UNCHANGED allVars

PlayerStep ==
  \/ \E preset \in BOOLEAN : StartWith(preset)
  \/ \E kinds \in Chains :
       (\E directory \in BOOLEAN : FirstLoad(kinds, directory)) \/ Fallback(kinds) \/ Load(kinds)
  \/ \E s \in Sizes : PollWindow(s)
  \/ Watch \/ ResizeEngine \/ BeginStep \/ StepEngine \/ Blit

PlayerNext == PlayerStep \/ PressReload \/ Close \/ EditFile \/ Exited

\* The loop runs on; nobody has to press a key, close the window or edit.
PlayerSpec == PlayerInit /\ [][PlayerNext]_allVars /\ WF_allVars(PlayerStep)

-------------------------------------------------------------------------------
\* blit reads as many pixels as the window has: the frame has them, whatever
\* presets were loaded and whatever sizes the window had.
BlitFits == pc = "blit" => frame.pixels = window

\* With inotify, if the file is good and changes no more it is loaded in the
\* end, also when it changed between the parse and the new watch, or was
\* replaced by a file the watch is not on.
SettlesOnFile ==
  \A v \in 1..MaxVersion :
    (<>[](file.exists /\ file.good /\ file.version = v)
      /\ <>[](watcher.mode = "inotify"))
    => <>(loaded = v \/ pc = "exit")

===============================================================================
