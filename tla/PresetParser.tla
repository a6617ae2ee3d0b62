------------------------------ MODULE PresetParser ------------------------------
(***************************************************************************)
(* The binary presets of avs-compat/src/preset.cpp: a render list is a     *)
(* mode and a row of effects, each with an id, a length and a payload; the *)
(* payload of the id kListId is a render list again.                       *)
(*                                                                         *)
(* A field of the format is one cell, whatever its width; the name of an   *)
(* APE effect takes ApeCells, the first of which tells it apart.  Warnings *)
(* are left out.  parseRenderListChunk calls itself: lists is its stack.   *)
(***************************************************************************)
EXTENDS Integers, SequencesExt

CONSTANTS
  Presets,    \* well-formed presets, [mode, effects] of the forms below
  Effects,    \* the effects they are made of, those inside lists among them
  Cells,      \* what a damaged cell may hold
  Plugins     \* names of the APE effects a plug-in can be loaded for

kApeIdBase == 16384
kListId    == 20000    \* 0xFFFFFFFE
CommentId  == 21
ApeCells   == 2
Flagged    == 128      \* a mode byte with bit 7
Nul        == 0

VARIABLES
  file,      \* data
  lists,     \* the calls of parseRenderListChunk, the innermost last
  comments,  \* result.comments
  entries,   \* result.effects
  origin     \* history: [preset, at, cut]: what the file was, and where it was damaged

presetParserVars == <<file, lists, comments, entries, origin>>

\* A list from cell start (its mode) up to end, parsed up to pos.
Frame(start, end) == [start |-> start, end |-> end, pos |-> start, at |-> "mode", chain |-> <<>>]
top == Last(lists)
Slice(from, to) == SubSeq(file, from + 1, to)

IsApe(id) == id >= kApeIdBase /\ id # kListId

\* The cells before the payload of an effect: its id, perhaps its name, a length.
Header(id) == IF IsApe(id) THEN 2 + ApeCells ELSE 2

-------------------------------------------------------------------------------
(* The factories (avs-effects-legacy/src/effect_registry.cpp): which payloads they take. *)

\* Blur, Scatter, Mosaic, Brightness
NeedsEnabled(id) == id \in {6, 16, 22, 30}
\* Fadeout, Colorfade, Water, Grain, Mirror, Bump, Invert
NeedsFirstField(id) == id \in {3, 11, 20, 24, 26, 29, 37}

Movement(payload) ==
  LET at == IF Len(payload) > 1 /\ payload[2] = 33 THEN 3 ELSE 2    \* past "!rect "
  IN Len(payload) > 0 /\ (payload[1] = 32767 /\ Len(payload) >= at /\ payload[at] = 1
                            => Len(payload) > at)

Simple(payload) ==
  Len(payload) > 1 /\ payload[2] <= 16 /\ Len(payload) >= 2 + payload[2]

DotGrid(payload) == Len(payload) > 0 => payload[1] <= 16

\* A version, four scripts with their lengths, a flag.
ColorModifier(payload) ==
  LET past[script \in 0..4] ==
        IF script = 0 THEN 1
        ELSE LET at == past[script - 1]
             IN IF at < Len(payload) THEN at + 1 + payload[at + 1] ELSE Len(payload)
  IN Len(payload) > 0 /\ payload[1] = 1 /\ past[4] < Len(payload)

\* All fields are optional, or none is read: OnBeat Clear to Interferences and
\* Dynamic Shift to Set render mode, and everything registered for an APE effect.
AllOptional(id) == id \in {1, 4, 5, 7, 8, 9, 12, 18, 19, 23, 25, 27, 31, 33, 38, 39, 40, 41, 44}
NotRead(id)     == id \in {2, 10, 13, 14, 28, 32, 34, 35, 36, 42, 43}

Decodes(id, payload) ==
  CASE NeedsEnabled(id) \/ NeedsFirstField(id) -> Len(payload) > 0
    [] id = 0  -> Simple(payload)
    [] id = 15 -> Movement(payload)
    [] id = 17 -> DotGrid(payload)
    [] id = 45 -> ColorModifier(payload)
    [] AllOptional(id) \/ NotRead(id) \/ IsApe(id) -> TRUE

\* Every number below 46 has a name and, but for the comment, a factory.
RegisteredApes  == {1}
HasName(e)      == IF IsApe(e.id) THEN e.name # Nul ELSE e.id < 46
Registered(e)   == IF IsApe(e.id) THEN e.name \in RegisteredApes ELSE HasName(e)

-------------------------------------------------------------------------------
(* parseRenderListChunk *)

\* Where the effects of the list begin, or -1 if its mode does not fit.
AfterMode(f) ==
  IF file[f.pos + 1] < Flagged THEN f.pos + 1
  ELSE IF f.pos + 2 > f.end THEN -1
  ELSE LET extended == file[f.pos + 2]       \* counts one field too many
           declared == IF extended > 0 THEN extended - 1 ELSE 0
       IN IF f.pos + 2 + declared <= f.end THEN f.pos + 2 + declared ELSE -1

Returned(how) == [top EXCEPT !.at = how, !.pos = top.end]

ReadMode ==
  /\ top.at = "mode"
  /\ LET next == IF top.pos >= top.end THEN top.end ELSE AfterMode(top)
     IN lists' = Front(lists) \o
                 <<IF next = -1 THEN Returned("failed")
                                ELSE [top EXCEPT !.at = "effects", !.pos = next]>>
  /\ UNCHANGED <<file, comments, entries, origin>>

\* The effect at pos: its id, its name and where its payload is.
EffectAt(f) ==
  LET id    == file[f.pos + 1]
      start == f.pos + Header(id)
  IN [id |-> id,
      name  |-> IF IsApe(id) THEN file[f.pos + 2] ELSE Nul,
      start |-> start,
      end   |-> start + file[start]]

\* mutant: the payload has to end in the file, not in its list
FitsFile(f) ==
  /\ f.pos + Header(file[f.pos + 1]) <= Len(file)
  /\ EffectAt(f).end <= Len(file)

Fits(f) ==
  /\ f.pos + Header(file[f.pos + 1]) <= f.end
  /\ EffectAt(f).end <= f.end

More(f) == f.at = "effects" /\ f.pos + 2 <= f.end

EndOfList ==
  /\ top.at = "effects" /\ ~More(top)
  /\ lists' = Front(lists) \o <<Returned("complete")>>
  /\ UNCHANGED <<file, comments, entries, origin>>

\* What does not fit ends its list, with the effects before it.
TruncatedEffect ==
  /\ More(top) /\ ~Fits(top)
  /\ lists' = Front(lists) \o <<Returned("failed")>>
  /\ UNCHANGED <<file, comments, entries, origin>>

ReadEntry(e) == [id |-> e.id, name |-> e.name, payload |-> Slice(e.start, e.end)]

Entry(e) ==
  IF e.start < e.end \/ e.id \in {CommentId, kListId} \/ HasName(e) THEN <<ReadEntry(e)>> ELSE <<>>

\* The list that contains e goes on behind it.
Past(f, e, effects) == [f EXCEPT !.pos = e.end, !.chain = @ \o effects]

Node(kind, e) == [kind |-> kind, id |-> e.id, payload |-> Slice(e.start, e.end)]

\* What becomes of an effect that has been read.
Kind(read) ==
  CASE Registered(read) /\ Decodes(read.id, read.payload)          -> "decoded"
    [] ~Registered(read) /\ IsApe(read.id) /\ read.name \in Plugins -> "plugin"
    [] OTHER                                                        -> "unknown"

PlainEffect ==
  /\ More(top) /\ Fits(top)
  /\ LET e == EffectAt(top)
     IN /\ e.id \notin {CommentId, kListId}
        /\ lists' = Front(lists) \o <<Past(top, e, <<Node(Kind(ReadEntry(e)), e)>>)>>
        /\ entries' = entries \o Entry(e)
  /\ UNCHANGED <<file, comments, origin>>

\* The text of a comment without the zero that ends it, if all of it is there.
CommentIn(payload) ==
  IF payload = <<>> \/ Head(payload) > Len(payload) - 1 THEN <<>>
  ELSE LET text == SubSeq(payload, 2, 1 + Head(payload))
       IN <<IF text # <<>> /\ Last(text) = Nul THEN Front(text) ELSE text>>

CommentEffect ==
  /\ More(top) /\ Fits(top)
  /\ LET e == EffectAt(top)
     IN /\ e.id = CommentId
        /\ comments' = comments \o CommentIn(Slice(e.start, e.end))
        /\ entries' = entries \o Entry(e)
        /\ lists' = Front(lists) \o <<Past(top, e, <<>>)>>
  /\ UNCHANGED <<file, origin>>

EnterList ==
  /\ More(top) /\ Fits(top)
  /\ LET e == EffectAt(top)
     IN e.id = kListId /\ lists' = Append(lists, Frame(e.start, e.end))
  /\ UNCHANGED <<file, comments, entries, origin>>

\* mutant: a list that fails ends the list that contains it
LeaveListFailing ==
  /\ Len(lists) > 1 /\ top.at \in {"complete", "failed"}
  /\ LET outer == lists[Len(lists) - 1]
         e     == EffectAt(outer)
     IN /\ entries' = entries \o Entry(e)
        /\ lists' = SubSeq(lists, 1, Len(lists) - 2) \o
             <<IF top.at = "complete"
                 THEN Past(outer, e, <<[kind |-> "list", id |-> kListId, children |-> top.chain]>>)
                 ELSE [outer EXCEPT !.at = "failed", !.pos = outer.end]>>
  /\ UNCHANGED <<file, comments, origin>>

\* A list that fails stays as an unknown effect.
LeaveList ==
  /\ Len(lists) > 1 /\ top.at \in {"complete", "failed"}
  /\ LET outer == lists[Len(lists) - 1]
         e     == EffectAt(outer)
         node  == IF top.at = "complete"
                    THEN [kind |-> "list", id |-> kListId, children |-> top.chain]
                    ELSE Node("unknown", e)
     IN /\ lists' = SubSeq(lists, 1, Len(lists) - 2) \o <<Past(outer, e, <<node>>)>>
        /\ entries' = entries \o Entry(e)
  /\ UNCHANGED <<file, comments, origin>>

Parsed == Len(lists) = 1 /\ top.at \in {"complete", "failed"}

-------------------------------------------------------------------------------
(* What writes presets, for reference: an effect with its cells and what it parses to. *)

Leaf(kind, id, payload) ==
  [form     |-> "plain",
   cells    |-> <<id, Len(payload)>> \o payload,
   chain    |-> <<[kind |-> kind, id |-> id, payload |-> payload]>>,
   comments |-> <<>>,
   entries  |-> <<[id |-> id, name |-> Nul, payload |-> payload]>>]

Ape(kind, id, name, payload) ==
  [form     |-> "ape",
   cells    |-> <<id, name, Nul, Len(payload)>> \o payload,
   chain    |-> <<[kind |-> kind, id |-> id, payload |-> payload]>>,
   comments |-> <<>>,
   entries  |-> <<[id |-> id, name |-> name, payload |-> payload]>>]

Comment(text) ==
  [form     |-> "comment",
   cells    |-> <<CommentId, Len(text) + 2, Len(text) + 1>> \o text \o <<Nul>>,
   chain    |-> <<>>,
   comments |-> <<text>>,
   entries  |-> <<[id |-> CommentId, name |-> Nul, payload |-> <<Len(text) + 1>> \o text \o <<Nul>>]>>]

\* The cells, chain, comments or entries of effects in a row.
All(effects, field) == FlattenSeq([i \in DOMAIN effects |-> effects[i][field]])

List(mode, effects) ==
  LET payload == mode \o All(effects, "cells")
  IN [form     |-> "list", mode |-> mode, effects |-> effects,
      cells    |-> <<kListId, Len(payload)>> \o payload,
      chain    |-> <<[kind |-> "list", id |-> kListId, children |-> All(effects, "chain")]>>,
      comments |-> All(effects, "comments"),
      entries  |-> All(effects, "entries") \o <<[id |-> kListId, name |-> Nul, payload |-> payload]>>]

CellsOf(preset) == preset.mode \o All(preset.effects, "cells")

\* The effects that lie before the cell in the preset, and the one the cell is in.
EndOf(preset, n)  == Len(preset.mode) + Len(All(SubSeq(preset.effects, 1, n), "cells"))
Before(preset, cell) ==
  CHOOSE n \in 0..Len(preset.effects) :
    /\ n = 0 \/ EndOf(preset, n) < cell
    /\ n = Len(preset.effects) \/ EndOf(preset, n + 1) >= cell

\* A mode is one cell, or one with bit 7, a count and one cell less than it counts.
WellFormedMode(mode) ==
  /\ mode \in Seq(Nat) /\ mode # <<>>
  /\ IF mode[1] < Flagged THEN Len(mode) = 1
     ELSE Len(mode) > 1 /\ Len(mode) = (IF mode[2] > 0 THEN mode[2] + 1 ELSE 2)

\* A plain effect is none of the others; one without a payload is one that has a name.
WellFormedPlain(e) ==
  LET read == e.entries[1]
  IN /\ read.id \in Nat \ {CommentId, kListId} /\ read.payload \in Seq(Nat)
     /\ read.payload # <<>> \/ HasName(read)
     /\ IF e.form = "plain"
          THEN ~IsApe(read.id) /\ e = Leaf(Kind(read), read.id, read.payload)
          ELSE IsApe(read.id) /\ read.name \in Nat /\ e = Ape(Kind(read), read.id, read.name, read.payload)

WellFormed(e) ==
  /\ e.cells \in Seq(Nat)
  /\ e.comments \in Seq(Seq(Nat))
  /\ e.entries \in Seq([id : Nat, name : Nat, payload : Seq(Nat)])
  /\ \/ e.form \in {"plain", "ape"} /\ WellFormedPlain(e)
     \/ e.form = "comment" /\ e = Comment(e.comments[1])
     \/ e.form = "list" /\ e = List(e.mode, e.effects) /\ WellFormedMode(e.mode)
                        /\ e.effects \in Seq(Effects)

ASSUME PresetParserAssumption ==
  /\ Cells \subseteq Nat /\ Plugins \subseteq Nat \ {Nul}
  /\ \A e \in Effects : WellFormed(e)
  /\ \A preset \in Presets : WellFormedMode(preset.mode) /\ preset.effects \in Seq(Effects)

PresetParserInit ==
  /\ \E preset \in Presets, cut \in BOOLEAN :
       LET cells == CellsOf(preset)
       IN \E at \in Len(preset.mode) + 1..Len(cells) + 1 :
            /\ origin = [preset |-> preset, at |-> at, cut |-> cut]
            /\ IF cut THEN file = SubSeq(cells, 1, at - 1)
               ELSE at <= Len(cells) /\ \E cell \in Cells : file = [cells EXCEPT ![at] = cell]
  /\ lists = <<Frame(0, Len(file))>>
  /\ comments = <<>>
  /\ entries = <<>>

PresetParserNext ==
  ReadMode \/ TruncatedEffect \/ PlainEffect \/ CommentEffect \/ EnterList \/ LeaveList \/ EndOfList

PresetParserSpec == PresetParserInit /\ [][PresetParserNext]_presetParserVars

-------------------------------------------------------------------------------
Others(effects, n, field) ==
  [before |-> All(SubSeq(effects, 1, n), field),
   after  |-> All(SubSeq(effects, n + 2, Len(effects)), field)]

\* What lies before the damage comes out as it was written: the effects of the
\* outermost list, their comments and their entries.  Of a file that was cut off
\* nothing else comes out; half an effect is no effect.
EarlierEffectsSurvive ==
  Parsed =>
    LET n == Before(origin.preset, origin.at)
        Survives(field, result) ==
          LET written == All(SubSeq(origin.preset.effects, 1, n), field)
          IN IF origin.cut THEN result = written ELSE IsPrefix(written, result)
    IN /\ Survives("chain", top.chain)
       /\ Survives("comments", comments)
       /\ Survives("entries", entries)

\* Damage inside the payload of an effect, a whole tree of lists as may be, changes
\* that effect alone: it stays one node of the chain, and the effects behind it
\* are read where they begin.
DamageStaysInside ==
  (Parsed /\ ~origin.cut) =>
    LET effects == origin.preset.effects
        n       == Before(origin.preset, origin.at)
        hit     == effects[n + 1]
    IN origin.at > EndOf(origin.preset, n) + Header(hit.cells[1]) =>
         /\ LET chain == Others(effects, n, "chain")
            IN \E node \in {<<>>} \cup {<<top.chain[i]>> : i \in DOMAIN top.chain} :
                 /\ Len(node) = Len(hit.chain)
                 /\ top.chain = chain.before \o node \o chain.after
         /\ IsSuffix(Others(effects, n, "comments").after, comments)
         /\ IsSuffix(Others(effects, n, "entries").after, entries)

\* Damage costs the effect it is in, and of a file that was cut off what follows.
DamageConfined == EarlierEffectsSurvive /\ DamageStaysInside

\* No list reads beyond its own end, nor does it end beyond the list it is in.
InsideList ==
  \A i \in DOMAIN lists :
    /\ lists[i].pos <= lists[i].end
    /\ lists[i].end <= (IF i = 1 THEN Len(file) ELSE lists[i - 1].end)

===============================================================================
