-------------------------------- MODULE Scripts --------------------------------
(***************************************************************************)
(* The scripted effects of avs-effects-legacy, core/effect_scripted.cpp    *)
(* and prime/Globals.cpp, over EelRuntime (avs-dsl/src/script): when a     *)
(* script is compiled, when each stage runs, what the instruction budget   *)
(* stops, and how the registers g1..g64 of GlobalState pass through them.  *)
(*                                                                         *)
(* A script is a member of Texts; what it computes is left out but for     *)
(* whether it sets the register.  A register's value is the script that    *)
(* set it.  A stage's code is a library and a body, compiled as one text.  *)
(***************************************************************************)
EXTENDS Integers

CONSTANTS
  Texts, Empty,     \* scripts, and the empty one
  Compiles,         \* those that compile
  Cost,             \* the size of their code
  Sets,             \* those that set the register
  Budget,           \* kInstructionBudgetBytes of a frame
  PixelCounts,      \* width * height; 0 is a framebuffer that is missing or too small
  ScriptBlocks,     \* parameter blocks: functions from some of the keys to scripts
  MaxScriptFrames   \* bound: frames rendered

Keys == {"init", "frame", "pixel", "code1", "arbitrary", "arbtxt", "lib"}

ASSUME ScriptsAssumption ==
  /\ Empty \in Compiles /\ Compiles \subseteq Texts /\ Sets \subseteq Texts \ {Empty}
  /\ Cost \in [Texts -> Nat] /\ Cost[Empty] = 0 /\ \A x \in Texts \ {Empty} : Cost[x] > 0
  /\ Budget \in Nat /\ PixelCounts \subseteq Nat
  /\ \A b \in ScriptBlocks : DOMAIN b \subseteq Keys /\ \A key \in DOMAIN b : b[key] \in Texts

VARIABLES
  register,   \* GlobalState::registers, one of them
  scripted,   \* the fields of ScriptedEffect
  global,     \* the fields of Globals
  ran,        \* history: the codes each effect ran in its last frame, by stage
  inits,      \* history: INIT stages of each effect since its scripts last changed
  renders    \* frames rendered

scriptsVars == <<register, scripted, global, ran, inits, renders>>

ScriptStages  == {"INIT", "FRAME", "PIXEL"}
NoCode  == [s \in ScriptStages |-> <<Empty, Empty>>]

ScriptsInit ==
  /\ register = Empty
  /\ scripted = [init |-> Empty, frame |-> Empty, pixel |-> Empty, lib |-> Empty,
                 dirty |-> TRUE, initExecuted |-> FALSE, failed |-> "none", code |-> NoCode, g |-> Empty]
  /\ global   = [init |-> Empty, frame |-> Empty, dirty |-> TRUE, initExecuted |-> FALSE,
                 compiled |-> FALSE, code |-> NoCode, g |-> Empty]
  /\ ran      = [scripted |-> {}, global |-> {}]
  /\ inits    = [scripted |-> 0, global |-> 0]
  /\ renders = 0

-------------------------------------------------------------------------------
(* EelRuntime *)

CompilesCode(code) == code[1] \in Compiles /\ code[2] \in Compiles
CodeCost(code)     == Cost[code[1]] + Cost[code[2]]

\* The register after a code has run.
Effect(code, g) == IF code[2] \in Sets THEN code[2] ELSE IF code[1] \in Sets THEN code[1] ELSE g

\* compile of stages in turn: the handle of a stage is freed first, and the first
\* failure leaves the handles of the later stages as they were.
CompiledUpTo(code, wanted, stages) ==
  LET Bad(i)  == ~CompilesCode(wanted[stages[i]])
      Done(s) == \E i \in DOMAIN stages : stages[i] = s /\ \A j \in 1..i : ~Bad(j)
      Cleared(s) == \E i \in DOMAIN stages : stages[i] = s /\ Bad(i) /\ \A j \in 1..(i - 1) : ~Bad(j)
  IN  [s \in ScriptStages |-> IF Done(s) THEN wanted[s] ELSE IF Cleared(s) THEN <<Empty, Empty>> ELSE code[s]]

FirstFailure(wanted, stages) ==
  IF \A i \in DOMAIN stages : CompilesCode(wanted[stages[i]]) THEN "none"
  ELSE stages[CHOOSE i \in DOMAIN stages :
                ~CompilesCode(wanted[stages[i]]) /\ \A j \in 1..(i - 1) : CompilesCode(wanted[stages[j]])]

\* A run of the VM within a frame: [ok, used, g, ran].
Begun(g) == [ok |-> TRUE, used |-> 0, g |-> g, ran |-> {}]

\* execute: a stage without code succeeds; one over the budget does not run.
Execute(run, stage, code) ==
  IF ~run.ok \/ code = <<Empty, Empty>> THEN run
  ELSE IF run.used + CodeCost(code) > Budget THEN [run EXCEPT !.ok = FALSE]
  ELSE [ok |-> TRUE, used |-> run.used + CodeCost(code), g |-> Effect(code, run.g),
        ran |-> run.ran \cup {<<stage, code>>}]

\* applyPixelScript: one execution per pixel, until the budget is used up.
ExecutePixels(run, code, pixels) ==
  IF ~run.ok \/ code = <<Empty, Empty>> \/ pixels = 0 THEN run
  ELSE LET fit   == (Budget - run.used) \div CodeCost(code)
           times == IF fit < pixels THEN fit ELSE pixels
       IN  [ok   |-> times = pixels,
            used |-> run.used + times * CodeCost(code),
            g    |-> IF times > 0 THEN Effect(code, run.g) ELSE run.g,
            ran  |-> IF times > 0 THEN run.ran \cup {<<"PIXEL", code>>} ELSE run.ran]

-------------------------------------------------------------------------------
(* ScriptedEffect *)

\* The value of the last of the keys that the block has.
Selected(block, keys, old) ==
  IF \E i \in DOMAIN keys : keys[i] \in DOMAIN block
    THEN block[keys[CHOOSE i \in DOMAIN keys :
                      keys[i] \in DOMAIN block /\ \A j \in DOMAIN keys : keys[j] \in DOMAIN block => j <= i]]
    ELSE old

\* mutant: a change of the library alone is not noticed
ScriptedChanged(new) ==
  new.init # scripted.init \/ new.frame # scripted.frame \/ new.pixel # scripted.pixel

Changed(new) ==
  \/ new.init # scripted.init \/ new.frame # scripted.frame
  \/ new.pixel # scripted.pixel \/ new.lib # scripted.lib

ScriptedSetParams(block) ==
  LET new == [scripted EXCEPT !.init  = Selected(block, <<"init">>, @),
                              !.frame = Selected(block, <<"frame", "code1">>, @),
                              !.pixel = Selected(block, <<"pixel", "arbitrary", "arbtxt">>, @),
                              !.lib   = Selected(block, <<"lib">>, @)]
  IN  /\ IF Changed(new)
           THEN /\ scripted' = [new EXCEPT !.dirty = TRUE, !.initExecuted = FALSE, !.failed = "none"]
                /\ inits' = [inits EXCEPT !.scripted = 0]
           ELSE scripted' = new /\ UNCHANGED inits
      /\ ran' = [ran EXCEPT !.scripted = {}]
      /\ UNCHANGED <<register, global, renders>>

\* compose: the library comes before each stage.
Composed(s) ==
  [INIT |-> <<s.lib, s.init>>, FRAME |-> <<s.lib, s.frame>>, PIXEL |-> <<s.lib, s.pixel>>]

ScriptedStages == <<"INIT", "FRAME", "PIXEL">>

ScriptedCompiled ==
  IF ~scripted.dirty THEN scripted
  ELSE LET failed == FirstFailure(Composed(scripted), ScriptedStages)
       IN  [scripted EXCEPT !.dirty = FALSE, !.failed = failed,
                            !.code = CompiledUpTo(@, Composed(scripted), ScriptedStages),
                            !.initExecuted = IF failed = "none" THEN FALSE ELSE @]

\* mutant: the registers are stored but not loaded
LoadedKept(hasGlobals) == scripted.g

\* loadGlobalRegisters
Loaded(hasGlobals) == IF hasGlobals THEN register ELSE Empty

\* INIT counts as executed whether or not it succeeded, and the registers are
\* stored even after an error.
ScriptedRender(pixels, hasGlobals) ==
  LET s       == ScriptedCompiled
      tries   == s.failed = "none" /\ ~s.initExecuted
      started == IF tries THEN Execute(Begun(Loaded(hasGlobals)), "INIT", s.code["INIT"])
                 ELSE Begun(Loaded(hasGlobals))
      ended   == IF s.failed # "none" THEN started
                 ELSE ExecutePixels(Execute(started, "FRAME", s.code["FRAME"]), s.code["PIXEL"], pixels)
  IN  /\ renders < MaxScriptFrames
      /\ renders' = renders + 1
      /\ scripted' = [s EXCEPT !.g = ended.g,
                               !.initExecuted = @ \/ tries]
      /\ register' = IF hasGlobals THEN ended.g ELSE register
      /\ ran'   = [ran EXCEPT !.scripted = ended.ran]
      /\ inits' = [inits EXCEPT !.scripted = @ + (IF tries THEN 1 ELSE 0)]
      /\ UNCHANGED global

-------------------------------------------------------------------------------
(* Globals *)

GlobalsSetParams(block) ==
  LET new == [global EXCEPT !.init = Selected(block, <<"init">>, @), !.frame = Selected(block, <<"frame">>, @)]
  IN  /\ IF new = global
           THEN UNCHANGED <<global, inits>>
           ELSE /\ global' = [new EXCEPT !.dirty = TRUE]
                /\ inits' = [inits EXCEPT !.global = 0]
      /\ ran' = [ran EXCEPT !.global = {}]
      /\ UNCHANGED <<register, scripted, renders>>

GlobalStages == <<"INIT", "FRAME">>

GlobalWanted == [INIT |-> <<Empty, global.init>>, FRAME |-> <<Empty, global.frame>>, PIXEL |-> <<Empty, Empty>>]

GlobalCompiled ==
  IF ~global.dirty THEN global
  ELSE [global EXCEPT !.dirty = FALSE, !.initExecuted = FALSE,
                      !.compiled = FirstFailure(GlobalWanted, GlobalStages) = "none",
                      !.code = CompiledUpTo(@, GlobalWanted, GlobalStages)]

\* Without a GlobalState nothing is done.  A failure switches the effect off until
\* its scripts change, and keeps what the scripts left to itself.
GlobalsRender(hasGlobals) ==
  LET s       == GlobalCompiled
      tries   == s.compiled /\ ~s.initExecuted
      started == IF tries THEN Execute(Begun(register), "INIT", s.code["INIT"]) ELSE Begun(register)
      ended   == Execute(started, "FRAME", s.code["FRAME"])
  IN  /\ renders < MaxScriptFrames
      /\ renders' = renders + 1
      /\ IF ~hasGlobals \/ ~s.compiled
           THEN /\ global' = IF hasGlobals THEN s ELSE global
                /\ ran' = [ran EXCEPT !.global = {}]
                /\ UNCHANGED <<register, inits>>
           ELSE /\ global' = [s EXCEPT !.compiled = ended.ok, !.g = ended.g,
                                       !.initExecuted = @ \/ started.ok]
                /\ register' = IF ended.ok THEN ended.g ELSE register
                /\ ran'   = [ran EXCEPT !.global = ended.ran]
                /\ inits' = [inits EXCEPT !.global = @ + (IF tries THEN 1 ELSE 0)]
      /\ UNCHANGED scripted

ScriptsNext ==
  \/ \E b \in ScriptBlocks : ScriptedSetParams(b) \/ GlobalsSetParams(b)
  \/ \E p \in PixelCounts, h \in BOOLEAN : ScriptedRender(p, h)
  \/ \E h \in BOOLEAN : GlobalsRender(h)

ScriptsSpec == ScriptsInit /\ [][ScriptsNext]_scriptsVars

-------------------------------------------------------------------------------
\* Whatever was changed, and whatever failed to compile in between, what ran in
\* the last frame is the code of the scripts that are set, and INIT ran or was tried
\* once since they changed, and before any other stage.
StagesCurrent ==
  /\ \A r \in ran.scripted : r[2] = Composed(scripted)[r[1]]
  /\ \A r \in ran.global : r[2] = GlobalWanted[r[1]]
  /\ inits.scripted <= 1 /\ inits.global <= 1
  /\ (\E r \in ran.scripted : r[1] # "INIT") => inits.scripted = 1
  /\ (\E r \in ran.global : r[1] # "INIT") => inits.global = 1

\* A register changes only in a frame in which a script that sets it ran: the copy
\* that a VM has kept from an earlier frame never comes back.
RegistersFlow ==
  [][register' # register =>
       \E r \in ran'.scripted \cup ran'.global : register' \in Sets \cap {r[2][1], r[2][2]}]_scriptsVars

===============================================================================
