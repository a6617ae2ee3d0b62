-------------------------------- MODULE MCEffects -------------------------------
(***************************************************************************)
(* The effects that keep state from frame to frame, and the one that runs  *)
(* on several threads, in one run.  They share no state: each behaviour    *)
(* takes the steps of one effect and leaves the others as they were.       *)
(***************************************************************************)
EXTENDS MCBlur, VideoDelay, MultiDelay, CustomBpm, Framebuffers, MCTransition, Scripts,
        SuperscopeScripts, BeatDecay

VARIABLE part

Parts == {"blur", "video delay", "multi delay", "custom bpm", "framebuffers",
          "transition", "scripts", "superscope", "beat decay"}

\* One ring whose delay is that of the beats, one frame or two.
OneRing == {0}
OneRingConfigs ==
  {[r \in OneRing |-> c] : c \in {[useBeat |-> TRUE,  delay |-> 0],
                                  [useBeat |-> FALSE, delay |-> 1],
                                  [useBeat |-> FALSE, delay |-> 2]}}

\* Each mode, with gates that hold, that stick and that only stick.
Bpm(mode, skip, first, on, sticky, only, hold) ==
  [enabled |-> TRUE, mode |-> mode, interval |-> 3, skipInterval |-> skip, skipFirst |-> first,
   gate |-> [enableOnBeat |-> on, stickyToggle |-> sticky, onlySticky |-> only, holdFrames |-> hold]]
AllModes ==
  {Bpm("Arbitrary",   1, 0, TRUE,  FALSE, FALSE, 0),
   Bpm("Skip",        2, 1, TRUE,  FALSE, FALSE, 2),
   Bpm("Skip",        1, 1, TRUE,  TRUE,  FALSE, 3),
   Bpm("Skip",        2, 0, TRUE,  TRUE,  TRUE,  2),
   Bpm("Invert",      1, 1, FALSE, FALSE, FALSE, 1),
   Bpm("Passthrough", 1, 1, TRUE,  FALSE, FALSE, 2)}
FrameTimes == {-1, 1, 2, 4}

\* Scripts: the empty one, a small one that sets a register, one as large as the
\* whole budget and one that does not compile.
CONSTANTS nothing, small, big, bad
FourTexts == {nothing, small, big, bad}
TextCost  == [x \in FourTexts |-> IF x = nothing THEN 0 ELSE IF x = big THEN 5 ELSE 1]
FiveBlocks ==
  {[init |-> big, lib |-> nothing], [frame |-> small, code1 |-> bad],
   [frame |-> big, arbtxt |-> small], [lib |-> small],
   [lib |-> nothing, frame |-> nothing, pixel |-> nothing, init |-> nothing]}

ThreeVersions == {{"pixel"}, {"init", "frame", "pixel"}, {"beat", "pixel"}}
PointsLeft    == {-1, 2, 5}

EffectsInit ==
  /\ part \in Parts
  /\ BlurInit         /\ (cfg.threads = 2 \/ allocated)
                      /\ (part = "blur" \/ (allocated /\ cfg = CHOOSE c \in BlurCases : TRUE))
  /\ VideoDelayInit
  /\ MultiDelayInit
  /\ CustomBpmInit    /\ (part = "custom bpm"   \/ bpm.mode = "Arbitrary")
  /\ FramebuffersInit /\ (part = "framebuffers" \/ height = 0)
  /\ TransitionInit
  /\ ScriptsInit
  /\ SuperscopeInit   /\ (part = "superscope" \/ (scope.mode = "Superscope" /\ ~scope.recompute))
  /\ BeatDecayInit    /\ (part = "beat decay" \/ worn = CHOOSE w \in AtRest : TRUE)

\* The other effects stay as they are.
Only(p) ==
  /\ part = p /\ UNCHANGED part
  /\ p # "blur"         => UNCHANGED <<vars, blurVars>>
  /\ p # "video delay"  => UNCHANGED videoDelayVars
  /\ p # "multi delay"  => UNCHANGED multiDelayVars
  /\ p # "custom bpm"   => UNCHANGED customBpmVars
  /\ p # "framebuffers" => UNCHANGED framebuffersVars
  /\ p # "transition"   => UNCHANGED transitionVars
  /\ p # "scripts"      => UNCHANGED scriptsVars
  /\ p # "superscope"   => UNCHANGED superscopeVars
  /\ p # "beat decay"   => UNCHANGED beatDecayVars

EffectsNext ==
  \/ Only("blur") /\ BlurNext
  \/ Only("video delay") /\ VideoDelayNext
  \/ Only("multi delay") /\ MultiDelayNext
  \/ Only("custom bpm") /\ CustomBpmNext
  \/ Only("framebuffers") /\ FramebuffersNext
  \/ Only("transition") /\ TransitionNext
  \/ Only("scripts") /\ ScriptsNext
  \/ Only("superscope") /\ SuperscopeNext
  \/ Only("beat decay") /\ BeatDecayNext

EffectsSpec ==
  EffectsInit /\ [][EffectsNext]_<<part, vars, blurVars, videoDelayVars, multiDelayVars, customBpmVars,
                                  framebuffersVars, transitionVars, scriptsVars, superscopeVars,
                                  beatDecayVars>>

===============================================================================
