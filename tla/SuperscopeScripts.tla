--------------------------- MODULE SuperscopeScripts ---------------------------
(***************************************************************************)
(* avs::ScriptedEffect of avs-compat (effects/scripted.cpp), the super-    *)
(* scope and the colour modifier of loaded presets: its four scripts, the  *)
(* beat that update notices and process hands on, and the table of colours *)
(* that is computed only when something may have changed it.               *)
(*                                                                         *)
(* Scripts are versions; a version has some of the four.  What they        *)
(* compute is told apart only by the runs of INIT and BEAT it follows.     *)
(***************************************************************************)
EXTENDS Integers, Sequences

CONSTANTS
  Versions,        \* sets of scripts: subsets of {"init", "frame", "beat", "pixel"}
  ScopeSizes,      \* w, h
  PointCounts,     \* values of n that a script may leave
  MaxPoints,       \* kMaxSuperscopePoints
  DefaultPoints,   \* n after init
  MaxEvents        \* bound: runs of INIT and BEAT, and updates between two frames

ASSUME SuperscopeAssumption ==
  /\ MaxPoints \in Nat /\ DefaultPoints \in 0..MaxPoints
  /\ PointCounts \subseteq Int /\ MaxEvents \in Nat

VARIABLES
  scope,     \* the fields of ScriptedEffect
  table,     \* colorLut_: what it was computed from, [code, after]
  n,         \* the variable n of the VM
  events,    \* history: runs of INIT and BEAT
  levels,    \* history: whether the last update before the last frame was loud, and each one since
  made       \* history: how the last frame was made

superscopeVars == <<scope, table, n, events, levels, made>>

None == {}
NoPicture == [kind |-> "none"]

SuperscopeInit ==
  /\ \E m \in {"Superscope", "ColorModifier"}, r \in BOOLEAN :
       scope = [mode |-> m, recompute |-> r, scripts |-> None, code |-> None, dirty |-> TRUE, initRan |-> FALSE,
                pendingBeat |-> FALSE, lastLoud |-> FALSE, tableDirty |-> TRUE, size |-> 0]
  /\ table   = [code |-> None, after |-> -1]
  /\ n       = 0
  /\ events  = 0
  /\ levels  = <<FALSE>>
  /\ made = NoPicture

\* setAllScripts
SetScripts(v) ==
  /\ scope' = [scope EXCEPT !.scripts = v, !.dirty = TRUE, !.pendingBeat = FALSE, !.tableDirty = TRUE]
  /\ levels' = <<scope.lastLoud>>
  /\ made' = NoPicture
  /\ UNCHANGED <<table, n, events>>

\* init: the engine calls it when the chain is set and when the window changes.
InitScope(s) ==
  /\ scope' = [scope EXCEPT !.size = s, !.lastLoud = FALSE, !.initRan = FALSE,
                            !.pendingBeat = FALSE, !.tableDirty = TRUE]
  /\ n' = DefaultPoints
  /\ levels' = <<FALSE>>
  /\ made' = NoPicture
  /\ UNCHANGED <<table, events>>

\* mutant: a beat is forgotten by the next update
PendingLast(isBeat) == isBeat

Pending(isBeat) == scope.pendingBeat \/ isBeat

\* update: a beat is a level that rises over the threshold.
Update(loud) ==
  /\ Len(levels) <= MaxEvents
  /\ scope' = [scope EXCEPT !.pendingBeat = Pending(loud /\ ~scope.lastLoud), !.lastLoud = loud]
  /\ levels' = Append(levels, loud)
  /\ made' = NoPicture
  /\ UNCHANGED <<table, n, events>>

\* compile
Compiled ==
  IF scope.dirty
    THEN [scope EXCEPT !.code = scope.scripts, !.dirty = FALSE, !.initRan = FALSE, !.tableDirty = TRUE]
    ELSE scope

\* mutant: a beat does not make the table out of date
TableDueNoBeat(s, begins, beats) == s.recompute \/ s.tableDirty \/ begins

TableDue(s, begins, beats) == s.recompute \/ s.tableDirty \/ begins \/ beats

Capped(points) == IF points > MaxPoints THEN MaxPoints ELSE points

\* process.  In colour mode n is not read, and a point count of 0 or less draws none.
Process ==
  LET s       == Compiled
      begins  == ~s.initRan
      beats   == s.pendingBeat
      after   == events + (IF begins /\ "init" \in s.code THEN 1 ELSE 0)
                        + (IF beats /\ "beat" \in s.code THEN 1 ELSE 0)
      scripts == {c \in {"init", "frame", "beat"} :
                    c \in s.code /\ (c = "init" => begins) /\ (c = "beat" => beats)}
      due     == TableDue(s, begins, beats)
      colour  == s.mode = "ColorModifier"
  IN  /\ after <= MaxEvents
      /\ events' = after
      /\ scope'  = [s EXCEPT !.initRan = TRUE, !.pendingBeat = FALSE,
                             !.tableDirty = ~colour /\ (@ \/ begins)]
      /\ table'  = IF colour /\ due THEN [code |-> s.code, after |-> after] ELSE table
      /\ \E left \in IF scripts = {} THEN {n} ELSE {n} \cup PointCounts :
           /\ n' = IF colour \/ left <= 0 THEN left ELSE Capped(left)
           /\ made' = [kind |-> s.mode, ran |-> scripts, levels |-> levels, code |-> s.code]
      /\ levels' = <<s.lastLoud>>

SuperscopeNext ==
  \/ \E v \in Versions : SetScripts(v)
  \/ \E s \in ScopeSizes : InitScope(s)
  \/ \E loud \in BOOLEAN : Update(loud)
  \/ Process

SuperscopeSpec == SuperscopeInit /\ [][SuperscopeNext]_superscopeVars

-------------------------------------------------------------------------------
\* A picture of the colour modifier was made with a table computed from the scripts
\* that are set and after the last run of INIT and of BEAT, whose variables the
\* pixel script may read.
TableCurrent ==
  made.kind = "ColorModifier" => table = [code |-> scope.scripts, after |-> events]

Rises(l) == \E i \in 2..Len(l) : l[i] /\ ~l[i - 1]

\* A frame runs the beat script exactly if the sound has risen since the last frame,
\* the last change of scripts or the last init: a beat is neither lost among several
\* updates nor run twice.  (Engine::step, engine.cpp:66, calls update once before each
\* process, and only for the effects of its own chain: one inside of a list is
\* processed without updates, and for it no beat ever rises.)
BeatsReachScripts ==
  made.kind # "none" =>
    ("beat" \in made.ran <=> "beat" \in made.code /\ Rises(made.levels))

===============================================================================
