------------------------------ MODULE ListWriters ------------------------------
(***************************************************************************)
(* Texts that describe an effect list, as their authors write them: a      *)
(* document, with any keys in any order and white space wherever it may    *)
(* stand, is written down whole, cut off at any token or with a token too  *)
(* many.                                                                   *)
(***************************************************************************)
EXTENDS ListText

Gaps    == {<<>>, <<Space>>}
Strings == {token \in STRING : IsString(token)}
Runs    == {run \in Seq({Bare, Colon, Space}) : run # <<>> /\ run[1] = Bare}

\* After the last field of an object, the last node of an array
End == <<>>

\* The pieces of a document, over smaller ones.  An array has its nodes, an object its
\* fields, each with the rest of them.
Pieces(parts) ==
  LET Some(kinds) == {part \in parts : part.what \in kinds}
  IN  [what : {"string"}, string : Strings]
      \cup [what : {"bare"}, run : Runs]
      \cup [what : {"array"}, before : Gaps, nodes : Some({"nodes"}) \cup {End}]
      \cup [what : {"object"}, before : Gaps, fields : Some({"fields"}) \cup {End}]
      \cup [what : {"nodes"}, node : Some({"object"}), after : Gaps,
            before : Gaps, rest : Some({"nodes"}) \cup {End}]
      \cup [what : {"fields"}, key : Strings, colon : Gaps, space : Gaps,
            value : Some({"string", "bare", "array", "object"}), after : Gaps,
            before : Gaps, rest : Some({"fields"}) \cup {End}]

\* What a piece says: its tokens and what they are to be read as, if they are good at
\* all.  An object must name an effect, an "effect" be a string, "children" an array.
Said(good, tokens, value) == [good |-> good, tokens |-> tokens, value |-> value]

\* A field and what follows its value
SaysField(piece, value) ==
  LET kind == piece.value.what
      good == /\ value.good
              /\ piece.key = "effect" => kind = "string"
              /\ piece.key = "children" => kind = "array"
  IN  Said(good,
           <<piece.key>> \o piece.colon \o <<Colon>> \o piece.space \o value.tokens \o piece.after,
           [id   |-> IF piece.key = "effect" /\ good THEN piece.value.string ELSE NoId,
            kids |-> IF piece.key = "children" /\ good THEN value.value ELSE <<>>])

Says(piece, said) ==
  CASE piece.what = "string" -> Said(TRUE, <<piece.string>>, <<>>)
    [] piece.what = "bare"   -> Said(TRUE, piece.run, <<>>)
    [] piece.what = "array"  ->
         LET open  == <<OpenBracket>> \o piece.before
             nodes == said[piece.nodes]
         IN  IF piece.nodes = End THEN Said(TRUE, open \o <<CloseBracket>>, <<>>)
             ELSE Said(nodes.good, open \o nodes.tokens, nodes.value)
    [] piece.what = "object" ->
         LET open   == <<OpenBrace>> \o piece.before
             fields == said[piece.fields]
         IN  IF piece.fields = End THEN Said(FALSE, open \o <<CloseBrace>>, NoNode)
             ELSE Said(fields.good /\ fields.value.id \notin {"", NoId},
                       open \o fields.tokens, fields.value)
    [] piece.what = "nodes"  ->
         LET node  == said[piece.node]
             first == node.tokens \o piece.after
             rest  == said[piece.rest]
         IN  IF piece.rest = End THEN Said(node.good, first \o <<CloseBracket>>, <<node.value>>)
             ELSE Said(node.good /\ rest.good, first \o <<Comma>> \o piece.before \o rest.tokens,
                       <<node.value>> \o rest.value)
    [] piece.what = "fields" ->
         LET field == SaysField(piece, said[piece.value])
             rest  == said[piece.rest]
         IN  IF piece.rest = End
             THEN Said(field.good, field.tokens \o <<CloseBrace>>, field.value)
             ELSE Said(field.good /\ rest.good,
                       field.tokens \o <<Comma>> \o piece.before \o rest.tokens,
                       Joined(field.value, rest.value))

\* What every document of at most so many levels says; its pieces are the domain.
Documents(levels) ==
  LET says[k \in 0..levels] ==
        IF k = 0 THEN <<>>
        ELSE [piece \in Pieces(DOMAIN says[k - 1]) |-> Says(piece, says[k - 1])]
  IN  says[levels]

\* The texts of an array or an object, each with the tree that it describes: none if
\* it is not good or damaged.
Tree(document, said) ==
  IF ~said.good THEN <<>>
  ELSE IF document.what = "array" THEN said.value ELSE <<said.value>>

Whole(tokens) == {before \o tokens \o after : before \in Gaps, after \in Gaps}

Damaged(tokens) ==
  LET cuts == {SubSeq(tokens, 1, n) : n \in 0..(Len(tokens) - 1)}
  IN  cuts \cup {Append(cut, Broken) : cut \in cuts}
           \cup {Append(tokens, m) : m \in (Marks \ {Space}) \cup {Bare, Broken}}

TextsOf(documents, levels) ==
  UNION {LET said == Documents(levels)[d]
         IN  {[tokens |-> text, tree |-> Tree(d, said)] : text \in Whole(said.tokens)}
             \cup {[tokens |-> text, tree |-> <<>>] : text \in Damaged(said.tokens)}
         : d \in documents}

\* The texts of all documents of so many levels
AllTexts(levels) ==
  TextsOf({d \in DOMAIN Documents(levels) : d.what \in {"array", "object"}}, levels)

================================================================================
