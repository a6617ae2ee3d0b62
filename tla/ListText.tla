------------------------------- MODULE ListText -------------------------------
(***************************************************************************)
(* EffectListConfigParser (libs/avs-compat/src/effects_misc.cpp): the text *)
(* of an effect list, parsed by hand.  It is a sequence of tokens: the     *)
(* marks { } [ ] , and :, a run of white space " ", a string, a character  *)
(* of anything else, and a string that has no end or a bad escape.  A      *)
(* number or a word that runs on into a string goes to its end; the code   *)
(* would stop at a mark inside of it.  What the text describes is a list   *)
(* of nodes [id, kids].                                                    *)
(***************************************************************************)
EXTENDS Integers, Sequences

OpenBrace    == "{"
CloseBrace   == "}"
OpenBracket  == "["
CloseBracket == "]"
Comma        == ","
Colon        == ":"
Space        == " "
Marks  == {OpenBrace, CloseBrace, OpenBracket, CloseBracket, Comma, Colon, Space}
Bare   == "7"     \* of a number or a word
Broken == "\""    \* a string that parseString rejects
TheEnd == "end"

\* Each operator below returns [ok, at, value]: whether it succeeded, the next token
\* and what it read.

Peek(t, p) == IF p <= Len(t) THEN t[p] ELSE TheEnd
AfterSpace(t, p) == IF Peek(t, p) = Space THEN p + 1 ELSE p       \* skipWhitespace
IsString(token) == token \notin Marks \cup {Bare, Broken, TheEnd}

Failure == [ok |-> FALSE, at |-> 0, value |-> <<>>]
Read(p, v) == [ok |-> TRUE, at |-> p, value |-> v]

NoId   == TheEnd      \* no "effect" yet
NoNode == [id |-> NoId, kids |-> <<>>]

\* parseObject up to its first field; an object needs an "effect", and the last one
\* must not be empty.
ParseObject(t, p, parse) ==
  LET fields == parse["fields"][AfterSpace(t, p + 1)]
  IN  IF Peek(t, p) = OpenBrace /\ fields.ok /\ fields.value.id \notin {"", NoId} THEN fields ELSE Failure

\* The loop of parseArray, at an object.
ParseNodes(t, p, parse) ==
  LET node == parse["object"][p]
      next == AfterSpace(t, node.at)
      rest == parse["nodes"][AfterSpace(t, next + 1)]
  IN  CASE node.ok /\ Peek(t, next) = Comma /\ rest.ok -> Read(rest.at, <<node.value>> \o rest.value)
        [] node.ok /\ Peek(t, next) = CloseBracket -> Read(next, <<node.value>>)
        [] OTHER -> Failure

\* parseArray, which stops before the bracket that its callers consume
ParseArray(t, p, parse) ==
  LET nodes == parse["nodes"][AfterSpace(t, p)]
  IN  IF Peek(t, AfterSpace(t, p)) = CloseBracket THEN Read(AfterSpace(t, p) + 1, <<>>)
      ELSE IF nodes.ok THEN Read(nodes.at + 1, nodes.value) ELSE Failure

\* One field of parseObject
ParseField(t, p, parse) ==
  LET colon == AfterSpace(t, p + 1)
      start == AfterSpace(t, colon + 1)
      kids  == parse["array"][start + 1]
      skip  == parse["value"][start]
  IN  IF ~IsString(Peek(t, p)) \/ Peek(t, colon) # Colon THEN Failure
      ELSE CASE Peek(t, p) = "effect" /\ IsString(Peek(t, start)) ->
                  Read(start + 1, [NoNode EXCEPT !.id = Peek(t, start)])
             [] Peek(t, p) = "children" /\ Peek(t, start) = OpenBracket /\ kids.ok ->
                  Read(kids.at, [NoNode EXCEPT !.kids = kids.value])
             [] Peek(t, p) \notin {"effect", "children"} /\ skip.ok -> Read(skip.at, NoNode)
             [] OTHER -> Failure

\* A field and those after it: the last "effect" counts, all the "children" do.
Joined(f, g) ==
  [id |-> IF g.id # NoId THEN g.id ELSE f.id, kids |-> f.kids \o g.kids]

ParseFields(t, p, parse) ==
  LET field == ParseField(t, p, parse)
      next  == AfterSpace(t, field.at)
      rest  == parse["fields"][AfterSpace(t, next + 1)]
  IN  CASE field.ok /\ Peek(t, next) = Comma /\ rest.ok ->
             Read(rest.at, Joined(field.value, rest.value))
        [] field.ok /\ Peek(t, next) = CloseBrace -> Read(next + 1, field.value)
        [] OTHER -> Failure

\* The end of a number or a word
Stops(t, q) == Peek(t, q) \in {Comma, CloseBrace, CloseBracket, TheEnd}
EndOfRun(t, p) ==
  CHOOSE q \in p..(Len(t) + 1) : Stops(t, q) /\ \A r \in p..(q - 1) : ~Stops(t, r)

\* The value of any other key is skipped; objects and arrays as if they were effects.
SkipValue(t, p, parse) ==
  CASE IsString(Peek(t, p))   -> Read(p + 1, <<>>)
    [] Peek(t, p) = Broken      -> Failure
    [] Peek(t, p) = OpenBrace   -> parse["object"][p]
    [] Peek(t, p) = OpenBracket -> parse["array"][p + 1]
    [] OTHER -> IF EndOfRun(t, p) > p THEN Read(EndOfRun(t, p), <<>>) ELSE Failure

\* What each of them reads from each position on.
ParseAt(t, what, p, parse) ==
  CASE what = "object" -> ParseObject(t, p, parse)
    [] what = "fields" -> ParseFields(t, p, parse)
    [] what = "nodes"  -> ParseNodes(t, p, parse)
    [] what = "array"  -> ParseArray(t, p, parse)
    [] what = "value"  -> SkipValue(t, p, parse)

Parser(t) ==
  LET parse[what \in {"object", "fields", "nodes", "array", "value"}] ==
        [p \in Nat |-> ParseAt(t, what, p, parse)]
  IN  parse

\* The array or the object that a text begins with
ParseStart(t) ==
  LET first == AfterSpace(t, 1)
      node  == Parser(t)["object"][first]
  IN  IF Peek(t, first) = OpenBracket THEN Parser(t)["array"][first + 1]
      ELSE IF node.ok THEN Read(node.at, <<node.value>>) ELSE Failure

\* mutant: what follows it is not looked at
ParsePrefix(t) == ParseStart(t)

Parse(t) ==
  LET whole == ParseStart(t)
  IN  IF whole.ok /\ AfterSpace(t, whole.at) > Len(t) THEN whole ELSE Failure

===============================================================================
