---------------------------- MODULE EffectProofs -----------------------------
(* The scripts of effects, for every set of scripts, budget and size. *)
EXTENDS Scripts, SuperscopeScripts, SequenceTheorems, TLAPS

-------------------------------------------------------------------------------
(* Scripts: the stages of a scripted effect and of the globals. *)

\* INIT counts as executed after it was tried once with the present scripts, and what
\* is compiled is what they say unless they have changed since or did not compile.
ScriptedInv ==
  /\ scripted = [init |-> scripted.init, frame |-> scripted.frame, pixel |-> scripted.pixel,
                 lib |-> scripted.lib, dirty |-> scripted.dirty, initExecuted |-> scripted.initExecuted,
                 failed |-> scripted.failed, code |-> scripted.code, g |-> scripted.g]
  /\ scripted.dirty \in BOOLEAN /\ scripted.initExecuted \in BOOLEAN
  /\ inits.scripted = IF scripted.initExecuted THEN 1 ELSE 0
  /\ scripted.dirty => ~scripted.initExecuted
  /\ ~scripted.dirty /\ scripted.failed = "none" => scripted.code = Composed(scripted)

GlobalInv ==
  /\ global = [init |-> global.init, frame |-> global.frame, dirty |-> global.dirty,
               initExecuted |-> global.initExecuted, compiled |-> global.compiled,
               code |-> global.code, g |-> global.g]
  /\ global.dirty \in BOOLEAN /\ global.initExecuted \in BOOLEAN /\ global.compiled \in BOOLEAN
  /\ inits.global \in {0, 1}
  /\ global.dirty => inits.global = 0
  /\ ~global.dirty /\ global.compiled =>
       /\ global.code["INIT"] = GlobalWanted["INIT"] /\ global.code["FRAME"] = GlobalWanted["FRAME"]
       /\ inits.global = IF global.initExecuted THEN 1 ELSE 0

ScriptsInv ==
  /\ inits = [scripted |-> inits.scripted, global |-> inits.global]
  /\ ran = [scripted |-> ran.scripted, global |-> ran.global]
  /\ ScriptedInv /\ GlobalInv /\ StagesCurrent

\* When no stage fails to compile, each of them is what was wanted.
LEMMA AllCompiled ==
  ASSUME NEW code, NEW wanted,
         FirstFailure(wanted, ScriptedStages) = "none"
  PROVE  \A s \in ScriptStages : CompiledUpTo(code, wanted, ScriptedStages)[s] = wanted[s]
<1>0. /\ DOMAIN ScriptedStages = 1..3 /\ ScriptedStages[1] = "INIT"
      /\ ScriptedStages[2] = "FRAME" /\ ScriptedStages[3] = "PIXEL"
  BY DEF ScriptedStages
<1>1. \A i \in 1..3 : CompilesCode(wanted[ScriptedStages[i]])
  <2>1. SUFFICES ASSUME ~\A i \in 1..3 : CompilesCode(wanted[ScriptedStages[i]]) PROVE FALSE
    OBVIOUS
  <2> DEFINE P(i) == /\ i \in DOMAIN ScriptedStages
                     /\ ~CompilesCode(wanted[ScriptedStages[i]])
                     /\ \A j \in 1..(i - 1) : CompilesCode(wanted[ScriptedStages[j]])
  <2>2. \E i \in DOMAIN ScriptedStages : P(i)
    <3>1. CASE ~CompilesCode(wanted[ScriptedStages[1]])
      BY <1>0, <3>1
    <3>2. CASE CompilesCode(wanted[ScriptedStages[1]]) /\ ~CompilesCode(wanted[ScriptedStages[2]])
      <4>1. P(2)
        BY <1>0, <3>2
      <4> QED
        BY <1>0, <4>1
    <3>3. CASE CompilesCode(wanted[ScriptedStages[1]]) /\ CompilesCode(wanted[ScriptedStages[2]])
      <4>1. ~CompilesCode(wanted[ScriptedStages[3]])
        BY <2>1, <3>3
      <4>2. P(3)
        <5>1. \A j \in 1..(3 - 1) : j = 1 \/ j = 2
          OBVIOUS
        <5> QED
          BY <1>0, <3>3, <4>1, <5>1
      <4> QED
        BY <1>0, <4>2
    <3> QED
      BY <3>1, <3>2, <3>3
  <2>3. \E i \in DOMAIN ScriptedStages : FirstFailure(wanted, ScriptedStages) = ScriptedStages[i]
    BY <1>0, <2>1, <2>2 DEF FirstFailure
  <2>4. \A i \in 1..3 : ScriptedStages[i] # "none"
    BY <1>0
  <2> QED
    BY <1>0, <2>3, <2>4
<1>2. ASSUME NEW s \in ScriptStages
      PROVE  \E i \in DOMAIN ScriptedStages :
               ScriptedStages[i] = s /\ \A j \in 1..i : ~~CompilesCode(wanted[ScriptedStages[j]])
  <2>1. PICK i \in 1..3 : ScriptedStages[i] = s
    BY <1>0 DEF ScriptStages
  <2>2. \A j \in 1..i : j \in 1..3
    OBVIOUS
  <2> QED
    BY <1>0, <1>1, <2>1, <2>2
<1> QED
  BY <1>2 DEF CompiledUpTo

LEMMA AllCompiledGlobal ==
  ASSUME NEW code, NEW wanted,
         FirstFailure(wanted, GlobalStages) = "none"
  PROVE  \A s \in {"INIT", "FRAME"} : CompiledUpTo(code, wanted, GlobalStages)[s] = wanted[s]
<1>0. DOMAIN GlobalStages = 1..2 /\ GlobalStages[1] = "INIT" /\ GlobalStages[2] = "FRAME"
  BY DEF GlobalStages
<1>1. \A i \in 1..2 : CompilesCode(wanted[GlobalStages[i]])
  <2>1. SUFFICES ASSUME ~\A i \in 1..2 : CompilesCode(wanted[GlobalStages[i]]) PROVE FALSE
    OBVIOUS
  <2> DEFINE P(i) == /\ i \in DOMAIN GlobalStages
                     /\ ~CompilesCode(wanted[GlobalStages[i]])
                     /\ \A j \in 1..(i - 1) : CompilesCode(wanted[GlobalStages[j]])
  <2>2. \E i \in DOMAIN GlobalStages : P(i)
    <3>1. CASE ~CompilesCode(wanted[GlobalStages[1]])
      BY <1>0, <3>1
    <3>2. CASE CompilesCode(wanted[GlobalStages[1]])
      <4>1. ~CompilesCode(wanted[GlobalStages[2]])
        BY <2>1, <3>2
      <4>2. P(2)
        BY <1>0, <3>2, <4>1
      <4> QED
        BY <1>0, <4>2
    <3> QED
      BY <3>1, <3>2
  <2>3. \E i \in DOMAIN GlobalStages : FirstFailure(wanted, GlobalStages) = GlobalStages[i]
    BY <1>0, <2>1, <2>2 DEF FirstFailure
  <2>4. \A i \in 1..2 : GlobalStages[i] # "none"
    BY <1>0
  <2> QED
    BY <1>0, <2>3, <2>4
<1>2. ASSUME NEW s \in {"INIT", "FRAME"}
      PROVE  \E i \in DOMAIN GlobalStages :
               GlobalStages[i] = s /\ \A j \in 1..i : ~~CompilesCode(wanted[GlobalStages[j]])
  <2>1. PICK i \in 1..2 : GlobalStages[i] = s
    BY <1>0
  <2>2. \A j \in 1..i : j \in 1..2
    OBVIOUS
  <2> QED
    BY <1>0, <1>1, <2>1, <2>2
<1> QED
  BY <1>2 DEF CompiledUpTo, ScriptStages

\* What a run of the VM has executed, and what it has left in the register: that of
\* the beginning or what one of the codes it ran has set.
Explained(run, g) ==
  /\ run = [ok |-> run.ok, used |-> run.used, g |-> run.g, ran |-> run.ran]
  /\ run.ok \in BOOLEAN
  /\ run.g # g => \E r \in run.ran : run.g \in Sets \cap {r[2][1], r[2][2]}

LEMMA BegunExplained == ASSUME NEW g PROVE Explained(Begun(g), g) /\ Begun(g).ran = {} /\ Begun(g).ok
BY DEF Explained, Begun

LEMMA EffectExplained ==
  ASSUME NEW code, NEW g
  PROVE  Effect(code, g) = g \/ Effect(code, g) \in Sets \cap {code[1], code[2]}
BY DEF Effect

LEMMA ExecuteExplained ==
  ASSUME NEW run, NEW g, NEW stage, NEW code, Explained(run, g)
  PROVE  /\ Explained(Execute(run, stage, code), g)
         /\ run.ran \subseteq Execute(run, stage, code).ran
         /\ Execute(run, stage, code).ran \subseteq run.ran \cup {<<stage, code>>}
         /\ ~run.ok => Execute(run, stage, code) = run
<1>1. CASE ~run.ok \/ code = <<Empty, Empty>>
  BY <1>1 DEF Execute, Explained
<1>2. CASE ~(~run.ok \/ code = <<Empty, Empty>>) /\ run.used + CodeCost(code) > Budget
  BY <1>2 DEF Execute, Explained
<1>3. CASE ~(~run.ok \/ code = <<Empty, Empty>>) /\ ~(run.used + CodeCost(code) > Budget)
  <2>1. Execute(run, stage, code) =
          [ok |-> TRUE, used |-> run.used + CodeCost(code), g |-> Effect(code, run.g),
           ran |-> run.ran \cup {<<stage, code>>}]
    BY <1>3 DEF Execute
  <2>2. <<stage, code>>[2] = code
    OBVIOUS
  <2>3. Effect(code, run.g) # g =>
          \E r \in run.ran \cup {<<stage, code>>} : Effect(code, run.g) \in Sets \cap {r[2][1], r[2][2]}
    BY <2>2, EffectExplained DEF Explained
  <2> QED
    BY <1>3, <2>1, <2>3 DEF Explained
<1> QED
  BY <1>1, <1>2, <1>3

LEMMA PixelsExplained ==
  ASSUME NEW run, NEW g, NEW code, NEW pixels, Explained(run, g)
  PROVE  /\ Explained(ExecutePixels(run, code, pixels), g)
         /\ ExecutePixels(run, code, pixels).ran \subseteq run.ran \cup {<<"PIXEL", code>>}
<1> DEFINE fit   == (Budget - run.used) \div CodeCost(code)
           times == IF fit < pixels THEN fit ELSE pixels
<1>1. CASE ~run.ok \/ code = <<Empty, Empty>> \/ pixels = 0
  BY <1>1 DEF ExecutePixels, Explained
<1>2. CASE ~(~run.ok \/ code = <<Empty, Empty>> \/ pixels = 0)
  <2>1. ExecutePixels(run, code, pixels) =
          [ok   |-> times = pixels,
           used |-> run.used + times * CodeCost(code),
           g    |-> IF times > 0 THEN Effect(code, run.g) ELSE run.g,
           ran  |-> IF times > 0 THEN run.ran \cup {<<"PIXEL", code>>} ELSE run.ran]
    BY <1>2 DEF ExecutePixels
  <2>2. <<"PIXEL", code>>[2] = code
    OBVIOUS
  <2> HIDE DEF times
  <2>3. Effect(code, run.g) # g =>
          \E r \in run.ran \cup {<<"PIXEL", code>>} : Effect(code, run.g) \in Sets \cap {r[2][1], r[2][2]}
    BY <2>2, EffectExplained DEF Explained
  <2> QED
    BY <2>1, <2>3 DEF Explained
<1> QED
  BY <1>1, <1>2

-------------------------------------------------------------------------------
LEMMA ScriptsStart == ScriptsInit => ScriptsInv
<1> SUFFICES ASSUME ScriptsInit PROVE ScriptsInv
  OBVIOUS
<1> USE DEF ScriptsInit
<1>1. ScriptedInv
  BY DEF ScriptedInv
<1>2. GlobalInv
  BY DEF GlobalInv
<1>3. StagesCurrent
  BY DEF StagesCurrent
<1> QED
  BY <1>1, <1>2, <1>3 DEF ScriptsInv

\* The stages of the two effects are independent parts of StagesCurrent.
ScriptedCurrent ==
  /\ \A r \in ran.scripted : r[2] = Composed(scripted)[r[1]]
  /\ (\E r \in ran.scripted : r[1] # "INIT") => inits.scripted = 1
GlobalCurrent ==
  /\ \A r \in ran.global : r[2] = GlobalWanted[r[1]]
  /\ (\E r \in ran.global : r[1] # "INIT") => inits.global = 1

LEMMA CurrentParts ==
  ASSUME ScriptedInv, GlobalInv
  PROVE  StagesCurrent <=> ScriptedCurrent /\ GlobalCurrent
<1>1. inits.scripted <= 1 /\ inits.global <= 1
  BY DEF ScriptedInv, GlobalInv
<1> QED
  BY <1>1 DEF StagesCurrent, ScriptedCurrent, GlobalCurrent

LEMMA ScriptedParamsStep ==
  ASSUME ScriptsInv, NEW b \in ScriptBlocks, ScriptedSetParams(b)
  PROVE  ScriptsInv' /\ register' = register
<1> DEFINE i   == Selected(b, <<"init">>, scripted.init)
           f   == Selected(b, <<"frame", "code1">>, scripted.frame)
           p   == Selected(b, <<"pixel", "arbitrary", "arbtxt">>, scripted.pixel)
           l   == Selected(b, <<"lib">>, scripted.lib)
           new == [scripted EXCEPT !.init = i, !.frame = f, !.pixel = p, !.lib = l]
<1>1. /\ IF Changed(new)
           THEN /\ scripted' = [new EXCEPT !.dirty = TRUE, !.initExecuted = FALSE, !.failed = "none"]
                /\ inits' = [inits EXCEPT !.scripted = 0]
           ELSE scripted' = new /\ UNCHANGED inits
      /\ ran' = [ran EXCEPT !.scripted = {}]
      /\ UNCHANGED <<register, global, renders>>
  BY DEF ScriptedSetParams
<1> HIDE DEF i, f, p, l
<1>2. /\ new = [init |-> new.init, frame |-> new.frame, pixel |-> new.pixel,
                lib |-> new.lib, dirty |-> new.dirty, initExecuted |-> new.initExecuted,
                failed |-> new.failed, code |-> new.code, g |-> new.g]
      /\ new.dirty = scripted.dirty /\ new.initExecuted = scripted.initExecuted
      /\ new.failed = scripted.failed /\ new.code = scripted.code
  <2>1. scripted = [init |-> scripted.init, frame |-> scripted.frame, pixel |-> scripted.pixel,
                 lib |-> scripted.lib, dirty |-> scripted.dirty, initExecuted |-> scripted.initExecuted,
                 failed |-> scripted.failed, code |-> scripted.code, g |-> scripted.g]
    BY DEF ScriptsInv, ScriptedInv
  <2>2. new = [init |-> i, frame |-> f, pixel |-> p, lib |-> l, dirty |-> scripted.dirty,
               initExecuted |-> scripted.initExecuted, failed |-> scripted.failed,
               code |-> scripted.code, g |-> scripted.g]
    <3>1. PICK r1, r2, r3 : /\ r1 = [scripted EXCEPT !.init = i]
                            /\ r2 = [r1 EXCEPT !.frame = f] /\ r3 = [r2 EXCEPT !.pixel = p]
      OBVIOUS
    <3>2. r1 = [init |-> i, frame |-> scripted.frame, pixel |-> scripted.pixel, lib |-> scripted.lib,
                dirty |-> scripted.dirty, initExecuted |-> scripted.initExecuted,
                failed |-> scripted.failed, code |-> scripted.code, g |-> scripted.g]
      BY <2>1, <3>1
    <3>3. r2 = [init |-> i, frame |-> f, pixel |-> scripted.pixel, lib |-> scripted.lib,
                dirty |-> scripted.dirty, initExecuted |-> scripted.initExecuted,
                failed |-> scripted.failed, code |-> scripted.code, g |-> scripted.g]
      BY <3>1, <3>2
    <3>4. r3 = [init |-> i, frame |-> f, pixel |-> p, lib |-> scripted.lib,
                dirty |-> scripted.dirty, initExecuted |-> scripted.initExecuted,
                failed |-> scripted.failed, code |-> scripted.code, g |-> scripted.g]
      BY <3>1, <3>3
    <3>5. new = [r3 EXCEPT !.lib = l]
      BY <3>1
    <3> HIDE DEF new
    <3> QED
      BY <3>4, <3>5
  <2> HIDE DEF new
  <2> QED
    BY <2>2
<1> HIDE DEF new
<1>3. ScriptedInv'
  <2>1. CASE Changed(new)
    BY <1>1, <1>2, <2>1 DEF ScriptsInv, ScriptedInv
  <2>2. CASE ~Changed(new)
    <3>1. Composed(new) = Composed(scripted)
      BY <2>2 DEF Changed, Composed
    <3> QED
      BY <1>1, <1>2, <2>2, <3>1 DEF ScriptsInv, ScriptedInv
  <2> QED
    BY <2>1, <2>2
<1>4. inits'.global = inits.global /\ inits' = [scripted |-> inits'.scripted, global |-> inits'.global]
      /\ ran' = [scripted |-> {}, global |-> ran.global]
  BY <1>1 DEF ScriptsInv
<1>5. GlobalInv' /\ GlobalWanted' = GlobalWanted
  BY <1>1, <1>4 DEF ScriptsInv, GlobalInv, GlobalWanted
<1>6. GlobalCurrent
  BY CurrentParts DEF ScriptsInv
<1>7. ScriptedCurrent' /\ GlobalCurrent'
  BY <1>4, <1>5, <1>6 DEF ScriptedCurrent, GlobalCurrent
<1>8. StagesCurrent'
  <2>1. inits'.scripted <= 1 /\ inits'.global <= 1
    BY <1>3, <1>5 DEF ScriptedInv, GlobalInv
  <2> QED
    BY <1>7, <2>1 DEF StagesCurrent, ScriptedCurrent, GlobalCurrent
<1> QED
  BY <1>1, <1>3, <1>4, <1>5, <1>8 DEF ScriptsInv

LEMMA GlobalsParamsStep ==
  ASSUME ScriptsInv, NEW b \in ScriptBlocks, GlobalsSetParams(b)
  PROVE  ScriptsInv' /\ register' = register
<1> DEFINE i   == Selected(b, <<"init">>, global.init)
           f   == Selected(b, <<"frame">>, global.frame)
           new == [global EXCEPT !.init = i, !.frame = f]
<1>1. /\ IF new = global
           THEN UNCHANGED <<global, inits>>
           ELSE /\ global' = [new EXCEPT !.dirty = TRUE]
                /\ inits' = [inits EXCEPT !.global = 0]
      /\ ran' = [ran EXCEPT !.global = {}]
      /\ UNCHANGED <<register, scripted, renders>>
  BY DEF GlobalsSetParams
<1> HIDE DEF i, f
<1>2. /\ new = [init |-> new.init, frame |-> new.frame, dirty |-> new.dirty,
               initExecuted |-> new.initExecuted, compiled |-> new.compiled,
               code |-> new.code, g |-> new.g]
      /\ new.initExecuted = global.initExecuted /\ new.compiled = global.compiled
  <2>1. global = [init |-> global.init, frame |-> global.frame, dirty |-> global.dirty,
               initExecuted |-> global.initExecuted, compiled |-> global.compiled,
               code |-> global.code, g |-> global.g]
    BY DEF ScriptsInv, GlobalInv
  <2>2. new = [init |-> i, frame |-> f, dirty |-> global.dirty, initExecuted |-> global.initExecuted,
               compiled |-> global.compiled, code |-> global.code, g |-> global.g]
    <3>1. PICK r1 : r1 = [global EXCEPT !.init = i]
      OBVIOUS
    <3>2. r1 = [init |-> i, frame |-> global.frame, dirty |-> global.dirty,
                initExecuted |-> global.initExecuted, compiled |-> global.compiled,
                code |-> global.code, g |-> global.g]
      BY <2>1, <3>1
    <3>3. new = [r1 EXCEPT !.frame = f]
      BY <3>1
    <3> HIDE DEF new
    <3> QED
      BY <3>2, <3>3
  <2> HIDE DEF new
  <2> QED
    BY <2>2
<1> HIDE DEF new
<1>3. GlobalInv'
  <2>1. CASE new = global
    BY <1>1, <2>1 DEF ScriptsInv, GlobalInv, GlobalWanted
  <2>2. CASE new # global
    BY <1>1, <1>2, <2>2 DEF ScriptsInv, GlobalInv
  <2> QED
    BY <2>1, <2>2
<1>4. inits'.scripted = inits.scripted /\ inits' = [scripted |-> inits'.scripted, global |-> inits'.global]
      /\ ran' = [scripted |-> ran.scripted, global |-> {}]
  BY <1>1 DEF ScriptsInv
<1>5. ScriptedInv' /\ Composed(scripted)' = Composed(scripted)
  BY <1>1, <1>4 DEF ScriptsInv, ScriptedInv, Composed
<1>6. ScriptedCurrent
  BY CurrentParts DEF ScriptsInv
<1>7. ScriptedCurrent' /\ GlobalCurrent'
  BY <1>4, <1>5, <1>6 DEF ScriptedCurrent, GlobalCurrent
<1>8. StagesCurrent'
  <2>1. inits'.scripted <= 1 /\ inits'.global <= 1
    BY <1>3, <1>5 DEF ScriptedInv, GlobalInv
  <2> QED
    BY <1>7, <2>1 DEF StagesCurrent, ScriptedCurrent, GlobalCurrent
<1> QED
  BY <1>1, <1>3, <1>4, <1>5, <1>8 DEF ScriptsInv

\* A change of the register is explained by a code the frame ran.
RegisterExplained ==
  register' # register =>
    \E r \in ran'.scripted \cup ran'.global : register' \in Sets \cap {r[2][1], r[2][2]}

LEMMA ScriptedRenderStep ==
  ASSUME ScriptsInv, NEW pixels, NEW hasGlobals \in BOOLEAN, ScriptedRender(pixels, hasGlobals)
  PROVE  ScriptsInv' /\ RegisterExplained
<1> DEFINE s       == ScriptedCompiled
           g       == Loaded(hasGlobals)
           tries   == s.failed = "none" /\ ~s.initExecuted
           started == IF tries THEN Execute(Begun(g), "INIT", s.code["INIT"]) ELSE Begun(g)
           framed  == Execute(started, "FRAME", s.code["FRAME"])
           ended   == IF s.failed # "none" THEN started
                      ELSE ExecutePixels(framed, s.code["PIXEL"], pixels)
<1>1. /\ scripted' = [s EXCEPT !.g = ended.g, !.initExecuted = @ \/ tries]
      /\ register' = IF hasGlobals THEN ended.g ELSE register
      /\ ran'   = [ran EXCEPT !.scripted = ended.ran]
      /\ inits' = [inits EXCEPT !.scripted = @ + (IF tries THEN 1 ELSE 0)]
      /\ UNCHANGED global
  BY DEF ScriptedRender
\* compile leaves the scripts alone, and code that is theirs unless it failed.
<1>2. /\ s = [init |-> s.init, frame |-> s.frame, pixel |-> s.pixel,
              lib |-> s.lib, dirty |-> s.dirty, initExecuted |-> s.initExecuted,
              failed |-> s.failed, code |-> s.code, g |-> s.g]
      /\ s.dirty = FALSE /\ s.initExecuted \in BOOLEAN
      /\ s.initExecuted <=> scripted.initExecuted
      /\ Composed(s) = Composed(scripted)
  BY DEF ScriptedCompiled, ScriptsInv, ScriptedInv, Composed
<1>3. s.failed = "none" => s.code = Composed(s)
  <2>1. CASE ~scripted.dirty
    BY <2>1, <1>2 DEF ScriptedCompiled, ScriptsInv, ScriptedInv
  <2>2. CASE scripted.dirty
    <3>1. /\ s.failed = FirstFailure(Composed(scripted), ScriptedStages)
          /\ s.code = CompiledUpTo(scripted.code, Composed(scripted), ScriptedStages)
      BY <2>2 DEF ScriptedCompiled, ScriptsInv, ScriptedInv
    <3>2. s.failed = "none" => \A x \in ScriptStages : s.code[x] = Composed(scripted)[x]
      <4>1. FirstFailure(Composed(scripted), ScriptedStages) = "none" =>
              \A x \in ScriptStages :
                CompiledUpTo(scripted.code, Composed(scripted), ScriptedStages)[x] = Composed(scripted)[x]
        BY AllCompiled
      <4> HIDE DEF s
      <4> QED
        BY <3>1, <4>1
    <3>3. s.code = [x \in ScriptStages |-> s.code[x]]
      BY <3>1 DEF CompiledUpTo
    <3>4. Composed(scripted) = [x \in ScriptStages |-> Composed(scripted)[x]]
      BY DEF Composed, ScriptStages
    <3> QED
      BY <1>2, <3>2, <3>3, <3>4
  <2> QED
    BY <2>1, <2>2
<1> HIDE DEF s, g
<1>4. Explained(started, g) /\ started.ran \subseteq (IF tries THEN {<<"INIT", s.code["INIT"]>>} ELSE {})
  BY BegunExplained, ExecuteExplained
<1>5. Explained(framed, g) /\ framed.ran \subseteq started.ran \cup {<<"FRAME", s.code["FRAME"]>>}
  BY <1>4, ExecuteExplained
<1>6. Explained(ended, g)
      /\ ended.ran \subseteq
           started.ran \cup (IF s.failed = "none" THEN {<<"FRAME", s.code["FRAME"]>>, <<"PIXEL", s.code["PIXEL"]>>} ELSE {})
  <2> HIDE DEF started, framed
  <2>1. CASE s.failed = "none"
    <3>1. ended = ExecutePixels(framed, s.code["PIXEL"], pixels)
      BY <2>1
    <3>2. /\ Explained(ended, g) /\ ended.ran \subseteq framed.ran \cup {<<"PIXEL", s.code["PIXEL"]>>}
      BY <1>5, <3>1, PixelsExplained
    <3> HIDE DEF ended
    <3> QED
      BY <1>5, <2>1, <3>2
  <2>2. CASE s.failed # "none"
    BY <1>4, <2>2
  <2> QED
    BY <2>1, <2>2
<1> HIDE DEF started, framed, ended
<1>7. /\ scripted' = [init |-> s.init, frame |-> s.frame, pixel |-> s.pixel,
              lib |-> s.lib, dirty |-> FALSE, initExecuted |-> s.initExecuted \/ tries,
              failed |-> s.failed, code |-> s.code, g |-> ended.g]
      /\ Composed(scripted') = Composed(s)
      /\ inits' = [scripted |-> inits.scripted + (IF tries THEN 1 ELSE 0), global |-> inits.global]
      /\ ran' = [scripted |-> ended.ran, global |-> ran.global]
  <2>1. scripted' = [init |-> s.init, frame |-> s.frame, pixel |-> s.pixel,
              lib |-> s.lib, dirty |-> FALSE, initExecuted |-> s.initExecuted \/ tries,
              failed |-> s.failed, code |-> s.code, g |-> ended.g]
    BY <1>1, <1>2
  <2> QED
    BY <1>1, <2>1 DEF ScriptsInv, Composed
<1>8. ScriptedInv'
  <2>1. inits.scripted = IF s.initExecuted THEN 1 ELSE 0
    BY <1>2 DEF ScriptsInv, ScriptedInv
  <2>2. Composed(scripted)' = Composed(s)
    BY <1>7 DEF Composed
  <2>3. /\ scripted'.dirty = FALSE /\ scripted'.initExecuted = (s.initExecuted \/ tries)
        /\ scripted'.failed = s.failed /\ scripted'.code = s.code
        /\ inits'.scripted = inits.scripted + (IF tries THEN 1 ELSE 0)
        /\ scripted' = [init |-> scripted'.init, frame |-> scripted'.frame, pixel |-> scripted'.pixel,
                 lib |-> scripted'.lib, dirty |-> scripted'.dirty, initExecuted |-> scripted'.initExecuted,
                 failed |-> scripted'.failed, code |-> scripted'.code, g |-> scripted'.g]
    BY <1>7
  <2>4. inits'.scripted = IF scripted'.initExecuted THEN 1 ELSE 0
    <3>1. CASE s.initExecuted
      <4>1. scripted'.initExecuted = TRUE
        BY <2>3, <3>1
      <4>2. inits.scripted = 1 /\ ~tries
        BY <2>1, <3>1
      <4>3. inits'.scripted = inits.scripted + 0
        BY <2>3, <4>2, Zenon
      <4> QED
        BY <4>1, <4>2, <4>3
    <3>2. CASE ~s.initExecuted /\ tries
      <4>1. scripted'.initExecuted = TRUE
        BY <2>3, <3>2
      <4>2. inits.scripted = 0
        BY <2>1, <3>2, Zenon
      <4>3. inits'.scripted = inits.scripted + 1
        BY <2>3, <3>2, Zenon
      <4> QED
        BY <4>1, <4>2, <4>3
    <3>3. CASE ~s.initExecuted /\ ~tries
      <4>1. scripted'.initExecuted = FALSE
        BY <2>3, <3>3
      <4>2. inits.scripted = 0
        BY <2>1, <3>3, Zenon
      <4>3. inits'.scripted = inits.scripted + 0
        BY <2>3, <3>3, Zenon
      <4> QED
        BY <4>1, <4>2, <4>3
    <3> QED
      BY <3>1, <3>2, <3>3
  <2>5. scripted'.failed = "none" => scripted'.code = Composed(scripted)'
    BY <1>3, <2>2, <2>3
  <2>6. scripted'.initExecuted \in BOOLEAN
    BY <1>2, <2>3
  <2> QED
    BY <2>3, <2>4, <2>5, <2>6 DEF ScriptedInv
<1>9. GlobalInv' /\ GlobalWanted' = GlobalWanted
  BY <1>1, <1>7 DEF ScriptsInv, GlobalInv, GlobalWanted
<1>10. ScriptedCurrent'
  <2>1. ASSUME NEW r \in ran'.scripted
        PROVE  r[2] = Composed(scripted')[r[1]] /\ (r[1] # "INIT" => s.failed = "none")
    <3>1. s.failed = "none"
      BY <1>4, <1>6, <1>7, <2>1
    <3>2. r \in {<<"INIT", s.code["INIT"]>>, <<"FRAME", s.code["FRAME"]>>, <<"PIXEL", s.code["PIXEL"]>>}
      BY <1>4, <1>6, <1>7, <2>1
    <3>3. r[2] = s.code[r[1]]
      BY <3>2
    <3> QED
      BY <1>3, <1>7, <3>1, <3>3
  <2>2. s.failed = "none" => inits'.scripted = 1
    BY <1>2, <1>7 DEF ScriptsInv, ScriptedInv
  <2> QED
    BY <2>1, <2>2 DEF ScriptedCurrent, Composed
<1>11. GlobalCurrent'
  <2>1. GlobalCurrent
    BY CurrentParts DEF ScriptsInv
  <2> QED
    BY <1>7, <1>9, <2>1 DEF GlobalCurrent
<1>12. StagesCurrent'
  <2>1. inits'.scripted <= 1 /\ inits'.global <= 1
    BY <1>8, <1>9 DEF ScriptedInv, GlobalInv
  <2> QED
    BY <1>10, <1>11, <2>1 DEF StagesCurrent, ScriptedCurrent, GlobalCurrent
<1>13. RegisterExplained
  <2>1. hasGlobals => g = register
    BY DEF g, Loaded
  <2> QED
    BY <1>1, <1>6, <1>7, <2>1 DEF Explained, RegisterExplained
<1> QED
  BY <1>7, <1>8, <1>9, <1>12, <1>13 DEF ScriptsInv

LEMMA GlobalsRenderStep ==
  ASSUME ScriptsInv, NEW hasGlobals \in BOOLEAN, GlobalsRender(hasGlobals)
  PROVE  ScriptsInv' /\ RegisterExplained
<1> DEFINE s       == GlobalCompiled
           tries   == s.compiled /\ ~s.initExecuted
           started == IF tries THEN Execute(Begun(register), "INIT", s.code["INIT"]) ELSE Begun(register)
           ended   == Execute(started, "FRAME", s.code["FRAME"])
<1>1. /\ IF ~hasGlobals \/ ~s.compiled
           THEN /\ global' = IF hasGlobals THEN s ELSE global
                /\ ran' = [ran EXCEPT !.global = {}]
                /\ UNCHANGED <<register, inits>>
           ELSE /\ global' = [s EXCEPT !.compiled = ended.ok, !.g = ended.g,
                                       !.initExecuted = @ \/ started.ok]
                /\ register' = IF ended.ok THEN ended.g ELSE register
                /\ ran'   = [ran EXCEPT !.global = ended.ran]
                /\ inits' = [inits EXCEPT !.global = @ + (IF tries THEN 1 ELSE 0)]
      /\ UNCHANGED scripted
  BY DEF GlobalsRender
<1>2. /\ s = [init |-> s.init, frame |-> s.frame, dirty |-> s.dirty,
              initExecuted |-> s.initExecuted, compiled |-> s.compiled,
              code |-> s.code, g |-> s.g]
      /\ s.dirty = FALSE /\ s.initExecuted \in BOOLEAN /\ s.compiled \in BOOLEAN
      /\ s.init = global.init /\ s.frame = global.frame
  BY DEF GlobalCompiled, ScriptsInv, GlobalInv
<1>3. s.compiled => /\ s.code["INIT"] = GlobalWanted["INIT"] /\ s.code["FRAME"] = GlobalWanted["FRAME"]
                    /\ inits.global = IF s.initExecuted THEN 1 ELSE 0
  <2>1. CASE ~global.dirty
    BY <2>1 DEF GlobalCompiled, ScriptsInv, GlobalInv
  <2>2. CASE global.dirty
    <3>1. /\ s.compiled = (FirstFailure(GlobalWanted, GlobalStages) = "none")
          /\ s.code = CompiledUpTo(global.code, GlobalWanted, GlobalStages)
          /\ s.initExecuted = FALSE /\ inits.global = 0
      BY <2>2 DEF GlobalCompiled, ScriptsInv, GlobalInv
    <3> QED
      <4>1. FirstFailure(GlobalWanted, GlobalStages) = "none" =>
              \A x \in {"INIT", "FRAME"} :
                CompiledUpTo(global.code, GlobalWanted, GlobalStages)[x] = GlobalWanted[x]
        BY AllCompiledGlobal
      <4> HIDE DEF s
      <4> QED
        BY <3>1, <4>1
  <2> QED
    BY <2>1, <2>2
<1> HIDE DEF s
<1>4. /\ Explained(started, register)
      /\ started.ran \subseteq (IF tries THEN {<<"INIT", s.code["INIT"]>>} ELSE {})
      /\ ~tries => started.ok
  BY BegunExplained, ExecuteExplained
<1>5. /\ Explained(ended, register) /\ ended.ran \subseteq started.ran \cup {<<"FRAME", s.code["FRAME"]>>}
      /\ ended.ok => started.ok
  BY <1>4, ExecuteExplained
<1> HIDE DEF started, ended
<1>6. ScriptedInv' /\ Composed(scripted)' = Composed(scripted)
      /\ inits' = [scripted |-> inits.scripted, global |-> inits'.global]
      /\ ran' = [scripted |-> ran.scripted, global |-> ran'.global]
  <2>1. inits'.scripted = inits.scripted
        /\ inits' = [scripted |-> inits.scripted, global |-> inits'.global]
        /\ ran' = [scripted |-> ran.scripted, global |-> ran'.global]
    BY <1>1 DEF ScriptsInv
  <2> QED
    BY <1>1, <2>1 DEF ScriptsInv, ScriptedInv, Composed
<1>7. GlobalWanted' = GlobalWanted
  BY <1>1, <1>2 DEF GlobalWanted
\* Without a GlobalState, or with scripts that are switched off.
<1>8. CASE ~hasGlobals \/ ~s.compiled
  <2>1. inits' = inits /\ ran'.global = {} /\ register' = register
    BY <1>1, <1>8 DEF ScriptsInv
  <2>2. GlobalInv'
    <3>1. CASE hasGlobals
      <4>1. global' = s /\ ~s.compiled
        BY <1>1, <1>8, <3>1
      <4> QED
        BY <1>2, <2>1, <4>1 DEF ScriptsInv, GlobalInv
    <3>2. CASE ~hasGlobals
      <4>1. global' = global
        BY <1>1, <3>2
      <4> QED
        BY <1>7, <2>1, <4>1 DEF ScriptsInv, GlobalInv
    <3> QED
      BY <3>1, <3>2
  <2>3. GlobalCurrent'
    BY <2>1 DEF GlobalCurrent
  <2> QED
    BY <1>6, <2>1, <2>2, <2>3, CurrentParts
    DEF ScriptsInv, RegisterExplained, StagesCurrent, ScriptedCurrent, GlobalCurrent, ScriptedInv, GlobalInv
<1>9. CASE ~(~hasGlobals \/ ~s.compiled)
  <2>1. /\ global' = [init |-> s.init, frame |-> s.frame, dirty |-> FALSE,
                      initExecuted |-> s.initExecuted \/ started.ok, compiled |-> ended.ok,
                      code |-> s.code, g |-> ended.g]
        /\ register' = IF ended.ok THEN ended.g ELSE register
        /\ ran'.global = ended.ran
        /\ inits'.global = inits.global + (IF tries THEN 1 ELSE 0)
    BY <1>1, <1>2, <1>9 DEF ScriptsInv
  <2>2. inits'.global = 1
    BY <1>2, <1>3, <1>9, <2>1
  <2>3. ended.ok \in BOOLEAN /\ started.ok \in BOOLEAN
    BY <1>4, <1>5 DEF Explained
  <2>4. GlobalInv'
    BY <1>2, <1>3, <1>5, <1>7, <1>9, <2>1, <2>2, <2>3 DEF GlobalInv
  <2>5. GlobalCurrent'
    <3>1. ASSUME NEW r \in ran'.global PROVE r[2] = GlobalWanted[r[1]]
      <4>1. r \in {<<"INIT", s.code["INIT"]>>, <<"FRAME", s.code["FRAME"]>>}
        BY <1>4, <1>5, <2>1, <3>1
      <4> QED
        BY <1>3, <1>9, <4>1
    <3> QED
      BY <1>7, <2>2, <3>1 DEF GlobalCurrent
  <2>6. RegisterExplained
    BY <1>5, <2>1 DEF Explained, RegisterExplained
  <2>7. StagesCurrent'
    <3>1. ScriptedCurrent
      BY CurrentParts DEF ScriptsInv
    <3>2. ScriptedCurrent'
      BY <1>6, <3>1 DEF ScriptedCurrent
    <3>3. inits'.scripted <= 1 /\ inits'.global <= 1
      BY <1>6, <2>4 DEF ScriptedInv, GlobalInv
    <3> QED
      BY <2>5, <3>2, <3>3 DEF StagesCurrent, ScriptedCurrent, GlobalCurrent
  <2> QED
    BY <1>6, <2>4, <2>6, <2>7 DEF ScriptsInv
<1> QED
  BY <1>8, <1>9

LEMMA ScriptsStep == ScriptsInv /\ [ScriptsNext]_scriptsVars => ScriptsInv' /\ (RegisterExplained \/ UNCHANGED scriptsVars)
<1> SUFFICES ASSUME ScriptsInv, [ScriptsNext]_scriptsVars
             PROVE  ScriptsInv' /\ (RegisterExplained \/ UNCHANGED scriptsVars)
  OBVIOUS
<1>1. ASSUME NEW b \in ScriptBlocks, ScriptedSetParams(b) \/ GlobalsSetParams(b)
      PROVE  ScriptsInv' /\ RegisterExplained
  BY <1>1, ScriptedParamsStep, GlobalsParamsStep DEF RegisterExplained
<1>2. CASE UNCHANGED scriptsVars
  <2>1. ScriptedInv' /\ GlobalInv'
    BY <1>2 DEF scriptsVars, ScriptsInv, ScriptedInv, GlobalInv, GlobalWanted, Composed
  <2>2. StagesCurrent'
    BY <1>2 DEF scriptsVars, ScriptsInv, StagesCurrent, GlobalWanted, Composed
  <2> QED
    BY <1>2, <2>1, <2>2 DEF scriptsVars, ScriptsInv
<1> QED
  BY <1>1, <1>2, ScriptedRenderStep, GlobalsRenderStep DEF ScriptsNext

\* Every stage that runs is that of the scripts that are set, after INIT.
THEOREM StagesStayCurrent == ScriptsSpec => []StagesCurrent
<1>1. ScriptsInv => StagesCurrent
  BY DEF ScriptsInv
<1> QED
  BY <1>1, ScriptsStart, ScriptsStep, PTL DEF ScriptsSpec

\* No register changes but by a script that ran in that frame.
THEOREM RegistersAlwaysFlow == ScriptsSpec => RegistersFlow
<1>1. ScriptsInv /\ [ScriptsNext]_scriptsVars =>
        [register' # register =>
           \E r \in ran'.scripted \cup ran'.global : register' \in Sets \cap {r[2][1], r[2][2]}]_scriptsVars
  BY ScriptsStep DEF RegisterExplained
<1> QED
  BY <1>1, ScriptsStart, ScriptsStep, PTL DEF ScriptsSpec, RegistersFlow

-------------------------------------------------------------------------------
(* SuperscopeScripts: the table of the colour modifier and the beat. *)

\* Scripts stand for what they were compiled to unless they are marked dirty, a beat
\* is pending exactly if the sound has risen, and the table of the colour modifier is
\* that of the present code unless something is marked.
ScopeInv ==
  /\ scope = [mode |-> scope.mode, recompute |-> scope.recompute, scripts |-> scope.scripts,
              code |-> scope.code, dirty |-> scope.dirty, initRan |-> scope.initRan,
              pendingBeat |-> scope.pendingBeat, lastLoud |-> scope.lastLoud,
              tableDirty |-> scope.tableDirty, size |-> scope.size]
  /\ scope.mode \in {"Superscope", "ColorModifier"}
  /\ scope.recompute \in BOOLEAN /\ scope.dirty \in BOOLEAN /\ scope.initRan \in BOOLEAN
  /\ scope.pendingBeat \in BOOLEAN /\ scope.lastLoud \in BOOLEAN /\ scope.tableDirty \in BOOLEAN
  /\ events \in Nat
  /\ levels \in Seq(BOOLEAN) /\ levels # <<>> /\ levels[Len(levels)] = scope.lastLoud
  /\ scope.pendingBeat <=> Rises(levels)
  /\ scope.dirty => scope.tableDirty
  /\ ~scope.dirty => scope.code = scope.scripts
  /\ scope.mode = "ColorModifier" /\ ~scope.tableDirty =>
       table = [code |-> scope.scripts, after |-> events]

LEMMA OneLevel == ASSUME NEW l \in BOOLEAN
  PROVE <<l>> \in Seq(BOOLEAN) /\ <<l>> # <<>> /\ <<l>>[Len(<<l>>)] = l /\ ~Rises(<<l>>)
BY DEF Rises

\* A level that is heard adds a rise exactly if it follows silence.
LEMMA NextLevel ==
  ASSUME NEW l \in Seq(BOOLEAN), l # <<>>, NEW loud \in BOOLEAN
  PROVE  /\ Append(l, loud) \in Seq(BOOLEAN) /\ Append(l, loud) # <<>>
         /\ Append(l, loud)[Len(Append(l, loud))] = loud
         /\ Rises(Append(l, loud)) <=> Rises(l) \/ (loud /\ ~l[Len(l)])
<1> DEFINE m == Append(l, loud)
<1>1. /\ Len(l) \in Nat \ {0} /\ Len(m) = Len(l) + 1 /\ m[Len(l) + 1] = loud
      /\ \A i \in 1..Len(l) : m[i] = l[i]
      /\ m \in Seq(BOOLEAN) /\ m # <<>>
  BY AppendProperties, EmptySeq, LenProperties
<1>2. ASSUME Rises(m) PROVE Rises(l) \/ (loud /\ ~l[Len(l)])
  <2>1. PICK i \in 2..Len(m) : m[i] /\ ~m[i - 1]
    BY <1>2 DEF Rises
  <2>2. CASE i = Len(l) + 1
    <3>1. i - 1 = Len(l) /\ i - 1 \in 1..Len(l)
      BY <1>1, <2>2
    <3> QED
      BY <3>1, <1>1, <2>1, <2>2
  <2>3. CASE i # Len(l) + 1
    <3>1. i \in 2..Len(l) /\ i - 1 \in 1..Len(l) /\ i \in 1..Len(l)
      BY <1>1, <2>3
    <3>2. l[i] /\ ~l[i - 1]
      BY <3>1, <1>1, <2>1, Zenon
    <3> QED
      BY <3>1, <3>2 DEF Rises
  <2> QED
    BY <2>2, <2>3
<1>3. ASSUME Rises(l) PROVE Rises(m)
  <2>1. PICK i \in 2..Len(l) : l[i] /\ ~l[i - 1]
    BY <1>3 DEF Rises
  <2>2. i \in 2..Len(m) /\ i \in 1..Len(l) /\ i - 1 \in 1..Len(l)
    BY <1>1
  <2>3. m[i] /\ ~m[i - 1]
    BY <2>1, <2>2, <1>1, Zenon
  <2> QED
    BY <2>2, <2>3 DEF Rises
<1>4. ASSUME loud, ~l[Len(l)] PROVE Rises(m)
  <2>1. Len(l) + 1 \in 2..Len(m) /\ (Len(l) + 1) - 1 = Len(l) /\ Len(l) \in 1..Len(l)
    BY <1>1
  <2>2. m[Len(l) + 1] /\ ~m[(Len(l) + 1) - 1]
    BY <2>1, <1>1, <1>4, Zenon
  <2> QED
    BY <2>1, <2>2 DEF Rises
<1> QED
  BY <1>1, <1>2, <1>3, <1>4

\* What a frame was made with: Process leaves it, and whatever changes the scripts,
\* the events or the table clears it.
MadeInv ==
  /\ TableCurrent
  /\ BeatsReachScripts

LEMMA ScopeInit == SuperscopeInit => ScopeInv /\ MadeInv
<1> SUFFICES ASSUME SuperscopeInit PROVE ScopeInv /\ MadeInv
  OBVIOUS
<1>1. PICK m \in {"Superscope", "ColorModifier"}, r \in BOOLEAN :
        scope = [mode |-> m, recompute |-> r, scripts |-> None, code |-> None, dirty |-> TRUE, initRan |-> FALSE,
                pendingBeat |-> FALSE, lastLoud |-> FALSE, tableDirty |-> TRUE, size |-> 0]
  BY DEF SuperscopeInit
<1>2. MadeInv
  BY DEF SuperscopeInit, MadeInv, TableCurrent, BeatsReachScripts, NoPicture
<1>3. ScopeInv
  BY <1>1, OneLevel DEF SuperscopeInit, ScopeInv
<1> QED
  BY <1>2, <1>3

LEMMA ScopeStep == ScopeInv /\ MadeInv /\ [SuperscopeNext]_superscopeVars => ScopeInv' /\ MadeInv'
<1> SUFFICES ASSUME ScopeInv, MadeInv, [SuperscopeNext]_superscopeVars PROVE ScopeInv' /\ MadeInv'
  OBVIOUS
<1>0. ASSUME made' = NoPicture PROVE MadeInv'
  BY <1>0 DEF MadeInv, TableCurrent, BeatsReachScripts, NoPicture
<1>1. ASSUME NEW v \in Versions, SetScripts(v) PROVE ScopeInv' /\ MadeInv'
  <2>1. scope.lastLoud \in BOOLEAN
    BY DEF ScopeInv
  <2> QED
    BY <1>0, <1>1, <2>1, OneLevel DEF SetScripts, ScopeInv
<1>2. ASSUME NEW s \in ScopeSizes, InitScope(s) PROVE ScopeInv' /\ MadeInv'
  BY <1>0, <1>2, OneLevel DEF InitScope, ScopeInv
<1>3. ASSUME NEW loud \in BOOLEAN, Update(loud) PROVE ScopeInv' /\ MadeInv'
  <2>1. /\ levels' \in Seq(BOOLEAN) /\ levels' # <<>> /\ levels'[Len(levels')] = loud
        /\ Rises(levels') <=> Rises(levels) \/ (loud /\ ~scope.lastLoud)
    BY <1>3, NextLevel DEF Update, ScopeInv
  <2>2. Rises(levels)' = Rises(levels')
    BY DEF Rises
  <2> QED
    BY <1>0, <1>3, <2>1, <2>2 DEF Update, Pending, ScopeInv
<1>4. CASE Process
  <2> DEFINE s      == Compiled
             begins == ~s.initRan
             beats  == s.pendingBeat
             colour == s.mode = "ColorModifier"
             due    == TableDue(s, begins, beats)
             after  == events + (IF begins /\ "init" \in s.code THEN 1 ELSE 0)
                              + (IF beats /\ "beat" \in s.code THEN 1 ELSE 0)
             scripts == {c \in {"init", "frame", "beat"} :
                          c \in s.code /\ (c = "init" => begins) /\ (c = "beat" => beats)}
  <2>1. /\ s.mode = scope.mode /\ s.recompute = scope.recompute /\ s.scripts = scope.scripts
        /\ s.code = scope.scripts /\ ~s.dirty /\ s.pendingBeat = scope.pendingBeat
        /\ s.lastLoud = scope.lastLoud /\ s.size = scope.size
        /\ s.dirty \in BOOLEAN /\ s.initRan \in BOOLEAN /\ s.tableDirty \in BOOLEAN
        /\ ~s.tableDirty => ~scope.tableDirty /\ ~scope.dirty
        /\ s = [mode |-> s.mode, recompute |-> s.recompute, scripts |-> s.scripts,
                code |-> s.code, dirty |-> s.dirty, initRan |-> s.initRan,
                pendingBeat |-> s.pendingBeat, lastLoud |-> s.lastLoud,
                tableDirty |-> s.tableDirty, size |-> s.size]
    BY DEF Compiled, ScopeInv
  <2>2. /\ events' = after
        /\ scope' = [s EXCEPT !.initRan = TRUE, !.pendingBeat = FALSE,
                              !.tableDirty = ~colour /\ (@ \/ begins)]
        /\ table' = IF colour /\ due THEN [code |-> s.code, after |-> after] ELSE table
        /\ made' = [kind |-> s.mode, ran |-> scripts, levels |-> levels, code |-> s.code]
        /\ levels' = <<s.lastLoud>>
    BY <1>4 DEF Process
  <2> HIDE DEF s
  <2>3. colour => table' = [code |-> scope.scripts, after |-> events']
    <3>1. CASE due
      BY <2>1, <2>2, <3>1
    <3>2. CASE ~due
      <4>1. ~s.tableDirty /\ s.initRan /\ ~s.pendingBeat
        BY <3>2, <2>1 DEF TableDue, ScopeInv
      <4>2. events' = events
        BY <4>1, <2>2 DEF ScopeInv
      <4> QED
        BY <2>1, <2>2, <3>2, <4>1, <4>2 DEF ScopeInv
    <3> QED
      BY <3>1, <3>2
  <2>4. events' \in Nat
    BY <2>2 DEF ScopeInv
  <2>5. /\ scope'.mode = scope.mode /\ scope'.recompute = scope.recompute
        /\ scope'.scripts = scope.scripts /\ scope'.code = scope.scripts
        /\ scope'.dirty = s.dirty /\ scope'.initRan = TRUE /\ scope'.pendingBeat = FALSE
        /\ scope'.lastLoud = scope.lastLoud /\ scope'.tableDirty \in BOOLEAN
        /\ scope' = [mode |-> scope'.mode, recompute |-> scope'.recompute, scripts |-> scope'.scripts,
                code |-> scope'.code, dirty |-> scope'.dirty, initRan |-> scope'.initRan,
                pendingBeat |-> scope'.pendingBeat, lastLoud |-> scope'.lastLoud,
                tableDirty |-> scope'.tableDirty, size |-> scope'.size]
    BY <2>1, <2>2
  <2>6. ScopeInv'
    <3>1. levels' = <<scope.lastLoud>> /\ scope.lastLoud \in BOOLEAN
      BY <2>1, <2>2 DEF ScopeInv
    <3>2. Rises(levels)' = FALSE
      BY <3>1, OneLevel DEF Rises
    <3> QED
      BY <2>1, <2>3, <2>4, <2>5, <3>1, <3>2, OneLevel DEF ScopeInv
  <2>7. MadeInv'
    <3>1. TableCurrent'
      BY <2>1, <2>2, <2>3, <2>5 DEF TableCurrent
    <3>2. "beat" \in made'.ran <=> "beat" \in made'.code /\ Rises(levels)
      BY <2>1, <2>2 DEF ScopeInv
    <3>3. BeatsReachScripts'
      BY <2>2, <3>2 DEF BeatsReachScripts, Rises
    <3> QED
      BY <3>1, <3>3 DEF MadeInv
  <2> QED
    BY <2>6, <2>7
<1>5. CASE UNCHANGED superscopeVars
  <2>1. ScopeInv' = ScopeInv
    BY <1>5 DEF superscopeVars, ScopeInv, Rises
  <2>2. MadeInv' = MadeInv
    BY <1>5 DEF superscopeVars, MadeInv, TableCurrent, BeatsReachScripts, Rises
  <2> QED
    BY <2>1, <2>2
<1> QED
  BY <1>1, <1>2, <1>3, <1>4, <1>5 DEF SuperscopeNext

\* The colour modifier never draws with a table that is out of date.
THEOREM TablesStayCurrent == SuperscopeSpec => []TableCurrent
<1>1. MadeInv => TableCurrent
  BY DEF MadeInv
<1> QED
  BY <1>1, ScopeInit, ScopeStep, PTL DEF SuperscopeSpec

\* No rise of the sound is lost on its way to the beat script, and none comes twice.
THEOREM BeatsAlwaysReachScripts == SuperscopeSpec => []BeatsReachScripts
<1>1. MadeInv => BeatsReachScripts
  BY DEF MadeInv
<1> QED
  BY <1>1, ScopeInit, ScopeStep, PTL DEF SuperscopeSpec

===============================================================================
