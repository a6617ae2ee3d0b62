------------------------------ MODULE ListProofs ------------------------------
(* The text of an effect list, however it is laid out, is read as the tree it *)
(* was written from; one that is cut off or goes on is rejected.  For         *)
(* documents of any depth and texts of any length.                            *)
EXTENDS EffectList, ListWriters, SharedLemmas, SequenceTheorems, TLAPS

-------------------------------------------------------------------------------
(* The parser of lists: each of its functions looks only at what follows *)

\* What the parser has a function for
Kinds == {"object", "fields", "nodes", "array", "value"}

\* What a function reads at the position where it stands: only from these others.
Earlier(what) ==
  CASE what = "object" -> {}
    [] what = "fields" -> {}
    [] what = "nodes"  -> {"object"}
    [] what = "array"  -> {"nodes"}
    [] what = "value"  -> {"object"}

\* An answer is past the position asked about, and past the bracket that closed it.
SoundAnswer(t, what, p, r) ==
  /\ r.ok \in BOOLEAN
  /\ r.ok => /\ r.at \in Nat /\ p < r.at /\ r.at <= Len(t) + 1
             /\ what \in {"object", "fields"} => Peek(t, r.at - 1) = CloseBrace
             /\ what = "nodes" => Peek(t, r.at) = CloseBracket
             /\ what = "array" => Peek(t, r.at - 1) = CloseBracket

\* The answers that one at p depends on agree, and are sound.
AgreeAfter(what, p, f, g) ==
  /\ \A w \in Kinds, q \in Nat : p < q => f[w][q] = g[w][q]
  /\ \A w \in Earlier(what) : f[w][p] = g[w][p]

SoundAfter(t, what, p, f) ==
  /\ \A w \in Kinds, q \in Nat : p < q /\ q <= Len(t) + 1 => SoundAnswer(t, w, q, f[w][q])
  /\ \A w \in Earlier(what) : SoundAnswer(t, w, p, f[w][p])

\* The marks and the other tokens are different from each other, and no strings.
Reserved == {OpenBrace, CloseBrace, OpenBracket, CloseBracket, Comma, Colon, Space,
            Bare, Broken, TheEnd}

\* No mark is another mark.
LEMMA TokensDiffer ==
  /\ OpenBrace # CloseBrace /\ OpenBrace # OpenBracket /\ OpenBrace # CloseBracket
     /\ OpenBrace # Comma /\ OpenBrace # Colon /\ OpenBrace # Space /\ OpenBrace # Bare
     /\ OpenBrace # Broken /\ OpenBrace # TheEnd
  /\ CloseBrace # OpenBracket /\ CloseBrace # CloseBracket /\ CloseBrace # Comma
     /\ CloseBrace # Colon /\ CloseBrace # Space /\ CloseBrace # Bare /\ CloseBrace # Broken
     /\ CloseBrace # TheEnd
  /\ OpenBracket # CloseBracket /\ OpenBracket # Comma /\ OpenBracket # Colon
     /\ OpenBracket # Space /\ OpenBracket # Bare /\ OpenBracket # Broken /\ OpenBracket # TheEnd
  /\ CloseBracket # Comma /\ CloseBracket # Colon /\ CloseBracket # Space /\ CloseBracket # Bare
     /\ CloseBracket # Broken /\ CloseBracket # TheEnd
  /\ Comma # Colon /\ Comma # Space /\ Comma # Bare /\ Comma # Broken /\ Comma # TheEnd
  /\ Colon # Space /\ Colon # Bare /\ Colon # Broken /\ Colon # TheEnd
  /\ Space # Bare /\ Space # Broken /\ Space # TheEnd
  /\ Bare # Broken /\ Bare # TheEnd
  /\ Broken # TheEnd
BY Zenon DEF OpenBrace, CloseBrace, OpenBracket, CloseBracket, Comma, Colon, Space,
             Bare, Broken, TheEnd

\* The two keys that the parser knows are strings, and no mark is a string.
LEMMA StringsDiffer ==
  /\ IsString("effect") /\ IsString("children")
  /\ \A x : IsString(x) <=> x \notin Reserved
<1>1. "effect" \notin Reserved /\ "children" \notin Reserved
  BY Zenon DEF Reserved, OpenBrace, CloseBrace, OpenBracket, CloseBracket, Comma, Colon,
               Space, Bare, Broken, TheEnd
<1>2. \A x : IsString(x) <=> x \notin Reserved
  BY Zenon DEF IsString, Reserved, Marks
<1> QED
  BY <1>1, <1>2

\* A token that is not the end stands in the text.
LEMMA SeenIsInside ==
  ASSUME NEW t, Len(t) \in Nat, NEW p \in Nat, Peek(t, p) # TheEnd
  PROVE  p <= Len(t)
BY DEF Peek

\* skipWhitespace goes on by one token at most, and never past the end.
LEMMA SpaceSkipped ==
  ASSUME NEW t, Len(t) \in Nat, NEW p \in Nat
  PROVE  /\ AfterSpace(t, p) \in Nat /\ p <= AfterSpace(t, p) /\ AfterSpace(t, p) <= p + 1
         /\ p <= Len(t) + 1 => AfterSpace(t, p) <= Len(t) + 1
         /\ p > Len(t) => AfterSpace(t, p) = p
<1>1. p > Len(t) => Peek(t, p) # Space
  BY TokensDiffer DEF Peek
<1>2. AfterSpace(t, p) = IF Peek(t, p) = Space THEN p + 1 ELSE p
  BY DEF AfterSpace
<1> QED
  BY <1>1, <1>2

\* The place behind a token and white space is further on, and in the text or at its end.
LEMMA NextSkipped ==
  ASSUME NEW t, Len(t) \in Nat, NEW p \in Nat
  PROVE  /\ AfterSpace(t, p + 1) \in Nat /\ p < AfterSpace(t, p + 1)
         /\ p <= Len(t) => AfterSpace(t, p + 1) <= Len(t) + 1
<1>1. PICK m \in Nat : m = p + 1
  OBVIOUS
<1>2. /\ AfterSpace(t, m) \in Nat /\ m <= AfterSpace(t, m)
      /\ m <= Len(t) + 1 => AfterSpace(t, m) <= Len(t) + 1
  BY SpaceSkipped
<1> QED
  BY <1>1, <1>2

\* parseObject's answer follows from what is read further on, and is sound if that is; so
\* with the other functions.
LEMMA ObjectLocal ==
  ASSUME NEW t, Len(t) \in Nat, NEW p \in Nat, p <= Len(t) + 1, NEW f, NEW g,
         AgreeAfter("object", p, f, g), SoundAfter(t, "object", p, f)
  PROVE  /\ ParseObject(t, p, f) = ParseObject(t, p, g)
         /\ SoundAnswer(t, "object", p, ParseObject(t, p, f))
<1>1. PICK q : q = AfterSpace(t, p + 1)
  OBVIOUS
<1>2. q \in Nat /\ p < q /\ (p <= Len(t) => q <= Len(t) + 1)
  BY <1>1, NextSkipped
<1>3. PICK fields : fields = f["fields"][q]
  OBVIOUS
<1>4. g["fields"][q] = fields
  BY <1>2, <1>3 DEF AgreeAfter, Kinds
<1>5. ParseObject(t, p, f) = ParseObject(t, p, g)
  BY <1>1, <1>3, <1>4 DEF ParseObject
<1>6. CASE Peek(t, p) = OpenBrace /\ fields.ok /\ fields.value.id \notin {"", NoId}
  <2>1. p <= Len(t)
    BY <1>6, SeenIsInside, TokensDiffer
  <2>2. SoundAnswer(t, "fields", q, fields)
    BY <1>2, <1>3, <2>1 DEF SoundAfter, Kinds
  <2>3. ParseObject(t, p, f) = fields
    BY <1>1, <1>3, <1>6 DEF ParseObject
  <2>4. fields.ok = TRUE /\ fields.at \in Nat /\ q < fields.at /\ fields.at <= Len(t) + 1
        /\ Peek(t, fields.at - 1) = CloseBrace
    BY <1>6, <2>2 DEF SoundAnswer
  <2>5. p < fields.at
    BY <1>2, <2>4
  <2>6. SoundAnswer(t, "object", p, fields)
    BY <2>4, <2>5, Zenon DEF SoundAnswer
  <2> QED
    BY <1>5, <2>3, <2>6
<1>7. CASE ~(Peek(t, p) = OpenBrace /\ fields.ok /\ fields.value.id \notin {"", NoId})
  <2>1. ParseObject(t, p, f) = Failure
    BY <1>1, <1>3, <1>7 DEF ParseObject
  <2> QED
    BY <1>5, <2>1 DEF SoundAnswer, Failure
<1> QED
  BY <1>6, <1>7

\* One field of parseObject
LEMMA FieldLocal ==
  ASSUME NEW t, Len(t) \in Nat, NEW p \in Nat, p <= Len(t) + 1, NEW f, NEW g,
         AgreeAfter("fields", p, f, g), SoundAfter(t, "fields", p, f)
  PROVE  /\ ParseField(t, p, f) = ParseField(t, p, g)
         /\ SoundAnswer(t, "value", p, ParseField(t, p, f))
<1>1. PICK colon : colon = AfterSpace(t, p + 1)
  OBVIOUS
<1>2. PICK start : start = AfterSpace(t, colon + 1)
  OBVIOUS
<1>3. colon \in Nat /\ p < colon /\ (p <= Len(t) => colon <= Len(t) + 1)
  BY <1>1, NextSkipped
<1>4. start \in Nat /\ colon < start /\ (colon <= Len(t) => start <= Len(t) + 1)
  BY <1>2, <1>3, NextSkipped
<1>5. PICK kids : kids = f["array"][start + 1]
  OBVIOUS
<1>6. PICK skip : skip = f["value"][start]
  OBVIOUS
<1>7. g["array"][start + 1] = kids /\ g["value"][start] = skip
  BY <1>3, <1>4, <1>5, <1>6 DEF AgreeAfter, Kinds
<1>8. ParseField(t, p, f) = ParseField(t, p, g)
  BY <1>1, <1>2, <1>5, <1>6, <1>7, Zenon DEF ParseField
<1>9. CASE ParseField(t, p, f) = Failure
  BY <1>8, <1>9 DEF SoundAnswer, Failure
<1>10. CASE ParseField(t, p, f) # Failure
  <2>1. IsString(Peek(t, p)) /\ Peek(t, colon) = Colon
    BY <1>1, <1>10 DEF ParseField
  <2>2. p <= Len(t) /\ colon <= Len(t)
    BY <1>3, <2>1, SeenIsInside, TokensDiffer, StringsDiffer DEF Reserved
  <2>3. start <= Len(t) + 1
    BY <1>4, <2>2
  <2>4. \/ IsString(Peek(t, start)) /\ \E v : ParseField(t, p, f) = Read(start + 1, v)
        \/ Peek(t, start) = OpenBracket /\ kids.ok /\ \E v : ParseField(t, p, f) = Read(kids.at, v)
        \/ skip.ok /\ \E v : ParseField(t, p, f) = Read(skip.at, v)
    BY <1>1, <1>2, <1>5, <1>6, <1>10, Zenon DEF ParseField
  <2>5. CASE IsString(Peek(t, start)) /\ \E v : ParseField(t, p, f) = Read(start + 1, v)
    <3>1. start <= Len(t)
      BY <1>4, <2>5, SeenIsInside, TokensDiffer, StringsDiffer DEF Reserved
    <3> QED
      BY <1>3, <1>4, <1>8, <2>5, <3>1 DEF SoundAnswer, Read
  <2>6. CASE Peek(t, start) = OpenBracket /\ kids.ok /\ \E v : ParseField(t, p, f) = Read(kids.at, v)
    <3>1. start <= Len(t)
      BY <1>4, <2>6, SeenIsInside, TokensDiffer
    <3>2. SoundAnswer(t, "array", start + 1, kids)
      BY <1>3, <1>4, <1>5, <3>1 DEF SoundAfter, Kinds
    <3> QED
      BY <1>3, <1>4, <1>8, <2>6, <3>2 DEF SoundAnswer, Read
  <2>7. CASE skip.ok /\ \E v : ParseField(t, p, f) = Read(skip.at, v)
    <3>1. SoundAnswer(t, "value", start, skip)
      BY <1>3, <1>4, <1>6, <2>3 DEF SoundAfter, Kinds
    <3> QED
      BY <1>3, <1>4, <1>8, <2>7, <3>1 DEF SoundAnswer, Read
  <2> QED
    BY <2>4, <2>5, <2>6, <2>7
<1> QED
  BY <1>9, <1>10

\* A failure says nothing of a place.
LEMMA FailureIsSound ==
  ASSUME NEW t, NEW what, NEW p
  PROVE  SoundAnswer(t, what, p, Failure)
BY Zenon DEF SoundAnswer, Failure

\* An answer from further on is one for here.
LEMMA PassedOn ==
  ASSUME NEW t, NEW what, NEW p \in Nat, NEW q \in Nat, p < q, NEW r, NEW v,
         SoundAnswer(t, what, q, r), r.ok
  PROVE  SoundAnswer(t, what, p, Read(r.at, v))
BY DEF SoundAnswer, Read

\* White space behind what was read
LEMMA AnswerSkipped ==
  ASSUME NEW t, Len(t) \in Nat, NEW what, NEW p \in Nat, NEW r, r.ok, SoundAnswer(t, what, p, r)
  PROVE  /\ AfterSpace(t, r.at) \in Nat /\ p < AfterSpace(t, r.at)
         /\ AfterSpace(t, r.at) <= Len(t) + 1
<1>1. PICK at \in Nat : at = r.at /\ p < at /\ at <= Len(t) + 1
  BY DEF SoundAnswer
<1>2. /\ AfterSpace(t, at) \in Nat /\ at <= AfterSpace(t, at)
      /\ at <= Len(t) + 1 => AfterSpace(t, at) <= Len(t) + 1
  BY <1>1, SpaceSkipped
<1> QED
  BY <1>1, <1>2

\* The cases of the two loops
LEMMA FieldsCases ==
  ASSUME NEW t, NEW p, NEW f, NEW field, field = ParseField(t, p, f),
         NEW next, next = AfterSpace(t, field.at),
         NEW rest, rest = f["fields"][AfterSpace(t, next + 1)]
  PROVE  /\ field.ok /\ Peek(t, next) = Comma /\ rest.ok =>
              ParseFields(t, p, f) = Read(rest.at, Joined(field.value, rest.value))
         /\ field.ok /\ Peek(t, next) = CloseBrace =>
              ParseFields(t, p, f) = Read(next + 1, field.value)
         /\ ~field.ok \/ Peek(t, next) \notin {Comma, CloseBrace} \/ (Peek(t, next) = Comma /\ ~rest.ok) =>
              ParseFields(t, p, f) = Failure
<1>1. ParseFields(t, p, f) =
        CASE field.ok /\ Peek(t, next) = Comma /\ rest.ok ->
               Read(rest.at, Joined(field.value, rest.value))
          [] field.ok /\ Peek(t, next) = CloseBrace -> Read(next + 1, field.value)
          [] OTHER -> Failure
  BY Zenon DEF ParseFields
<1>2. Comma # CloseBrace
  BY TokensDiffer
<1> QED
  BY <1>1, <1>2

LEMMA NodesCases ==
  ASSUME NEW t, NEW p, NEW f, NEW node, node = f["object"][p],
         NEW next, next = AfterSpace(t, node.at),
         NEW rest, rest = f["nodes"][AfterSpace(t, next + 1)]
  PROVE  /\ node.ok /\ Peek(t, next) = Comma /\ rest.ok =>
              ParseNodes(t, p, f) = Read(rest.at, <<node.value>> \o rest.value)
         /\ node.ok /\ Peek(t, next) = CloseBracket =>
              ParseNodes(t, p, f) = Read(next, <<node.value>>)
         /\ ~node.ok \/ Peek(t, next) \notin {Comma, CloseBracket} \/ (Peek(t, next) = Comma /\ ~rest.ok) =>
              ParseNodes(t, p, f) = Failure
<1>1. ParseNodes(t, p, f) =
        CASE node.ok /\ Peek(t, next) = Comma /\ rest.ok -> Read(rest.at, <<node.value>> \o rest.value)
          [] node.ok /\ Peek(t, next) = CloseBracket -> Read(next, <<node.value>>)
          [] OTHER -> Failure
  BY Zenon DEF ParseNodes
<1>2. Comma # CloseBracket
  BY TokensDiffer
<1> QED
  BY <1>1, <1>2

\* parseObject's loop
LEMMA FieldsLocal ==
  ASSUME NEW t, Len(t) \in Nat, NEW p \in Nat, p <= Len(t) + 1, NEW f, NEW g,
         AgreeAfter("fields", p, f, g), SoundAfter(t, "fields", p, f)
  PROVE  /\ ParseFields(t, p, f) = ParseFields(t, p, g)
         /\ SoundAnswer(t, "fields", p, ParseFields(t, p, f))
<1>1. PICK field : field = ParseField(t, p, f)
  OBVIOUS
<1>2. ParseField(t, p, g) = field /\ SoundAnswer(t, "value", p, field)
  BY <1>1, FieldLocal
<1>3. PICK next : next = AfterSpace(t, field.at)
  OBVIOUS
<1>4. PICK q : q = AfterSpace(t, next + 1)
  OBVIOUS
<1>5. PICK rest : rest = f["fields"][q]
  OBVIOUS
<1>6. field.ok => next \in Nat /\ p < next /\ next <= Len(t) + 1
  BY <1>2, <1>3, AnswerSkipped
<1>7. field.ok => q \in Nat /\ next < q /\ (next <= Len(t) => q <= Len(t) + 1)
  BY <1>4, <1>6, NextSkipped
<1>8. field.ok => g["fields"][q] = rest
  BY <1>5, <1>6, <1>7 DEF AgreeAfter, Kinds
<1>9. rest = f["fields"][AfterSpace(t, next + 1)]
  BY <1>4, <1>5
<1>10. field.ok => rest = g["fields"][AfterSpace(t, next + 1)]
  BY <1>4, <1>8
<1>11. CASE field.ok /\ Peek(t, next) = Comma /\ rest.ok
  <2>1. next <= Len(t)
    BY <1>6, <1>11, SeenIsInside, TokensDiffer
  <2>2. SoundAnswer(t, "fields", q, rest)
    BY <1>5, <1>6, <1>7, <1>11, <2>1 DEF SoundAfter, Kinds
  <2>3. PICK v : v = Joined(field.value, rest.value)
    OBVIOUS
  <2>4. ParseFields(t, p, f) = Read(rest.at, v)
    BY <1>1, <1>3, <1>9, <1>11, <2>3, FieldsCases
  <2>5. ParseFields(t, p, g) = Read(rest.at, v)
    BY <1>2, <1>3, <1>10, <1>11, <2>3, FieldsCases
  <2>6. p < q
    BY <1>6, <1>7, <1>11
  <2> QED
    BY <1>6, <1>7, <1>11, <2>2, <2>4, <2>5, <2>6, PassedOn
<1>12. CASE field.ok /\ Peek(t, next) = CloseBrace
  <2>1. next <= Len(t)
    BY <1>6, <1>12, SeenIsInside, TokensDiffer
  <2>2. /\ ParseFields(t, p, f) = Read(next + 1, field.value)
        /\ ParseFields(t, p, g) = Read(next + 1, field.value)
    BY <1>1, <1>2, <1>3, <1>9, <1>10, <1>12, FieldsCases
  <2> QED
    BY <1>6, <1>12, <2>1, <2>2 DEF SoundAnswer, Read
<1>13. CASE ~field.ok \/ Peek(t, next) \notin {Comma, CloseBrace} \/ (Peek(t, next) = Comma /\ ~rest.ok)
  <2>1. ParseFields(t, p, f) = Failure
    BY <1>1, <1>3, <1>4, <1>5, <1>13, FieldsCases
  <2>2. PICK s : s = g["fields"][q]
    OBVIOUS
  <2>3. ~field.ok \/ Peek(t, next) \notin {Comma, CloseBrace} \/ (Peek(t, next) = Comma /\ ~s.ok)
    BY <1>8, <1>13, <2>2
  <2>4. ParseFields(t, p, g) = Failure
    BY <1>2, <1>3, <1>4, <2>2, <2>3, FieldsCases
  <2> QED
    BY <2>1, <2>4, FailureIsSound
<1> QED
  BY <1>11, <1>12, <1>13

\* parseArray's loop
LEMMA NodesLocal ==
  ASSUME NEW t, Len(t) \in Nat, NEW p \in Nat, p <= Len(t) + 1, NEW f, NEW g,
         AgreeAfter("nodes", p, f, g), SoundAfter(t, "nodes", p, f)
  PROVE  /\ ParseNodes(t, p, f) = ParseNodes(t, p, g)
         /\ SoundAnswer(t, "nodes", p, ParseNodes(t, p, f))
<1>1. PICK node : node = f["object"][p]
  OBVIOUS
<1>2. node = g["object"][p] /\ SoundAnswer(t, "object", p, node)
  BY <1>1 DEF AgreeAfter, SoundAfter, Earlier
<1>3. PICK next : next = AfterSpace(t, node.at)
  OBVIOUS
<1>4. PICK q : q = AfterSpace(t, next + 1)
  OBVIOUS
<1>5. PICK rest : rest = f["nodes"][q]
  OBVIOUS
<1>6. node.ok => next \in Nat /\ p < next /\ next <= Len(t) + 1
  BY <1>2, <1>3, AnswerSkipped
<1>7. node.ok => q \in Nat /\ next < q /\ (next <= Len(t) => q <= Len(t) + 1)
  BY <1>4, <1>6, NextSkipped
<1>8. node.ok => g["nodes"][q] = rest
  BY <1>5, <1>6, <1>7 DEF AgreeAfter, Kinds
<1>9. rest = f["nodes"][AfterSpace(t, next + 1)]
  BY <1>4, <1>5
<1>10. node.ok => rest = g["nodes"][AfterSpace(t, next + 1)]
  BY <1>4, <1>8
<1>11. CASE node.ok /\ Peek(t, next) = Comma /\ rest.ok
  <2>1. next <= Len(t)
    BY <1>6, <1>11, SeenIsInside, TokensDiffer
  <2>2. SoundAnswer(t, "nodes", q, rest)
    BY <1>5, <1>6, <1>7, <1>11, <2>1 DEF SoundAfter, Kinds
  <2>3. PICK v : v = <<node.value>> \o rest.value
    OBVIOUS
  <2>4. ParseNodes(t, p, f) = Read(rest.at, <<node.value>> \o rest.value)
    BY <1>1, <1>3, <1>9, <1>11, NodesCases
  <2>5. ParseNodes(t, p, f) = Read(rest.at, v)
    BY <2>3, <2>4
  <2>6. ParseNodes(t, p, g) = Read(rest.at, v)
    BY <1>2, <1>3, <1>10, <1>11, <2>3, NodesCases
  <2>7. p < q
    BY <1>6, <1>7, <1>11
  <2> QED
    BY <1>6, <1>7, <1>11, <2>2, <2>5, <2>6, <2>7, PassedOn
<1>12. CASE node.ok /\ Peek(t, next) = CloseBracket
  <2>1. next <= Len(t)
    BY <1>6, <1>12, SeenIsInside, TokensDiffer
  <2>2. ParseNodes(t, p, f) = Read(next, <<node.value>>)
    BY <1>1, <1>3, <1>9, <1>12, NodesCases
  <2>3. ParseNodes(t, p, g) = Read(next, <<node.value>>)
    BY <1>2, <1>3, <1>10, <1>12, NodesCases
  <2> QED
    BY <1>6, <1>12, <2>1, <2>2, <2>3 DEF SoundAnswer, Read
<1>13. CASE ~node.ok \/ Peek(t, next) \notin {Comma, CloseBracket} \/ (Peek(t, next) = Comma /\ ~rest.ok)
  <2>1. ParseNodes(t, p, f) = Failure
    BY <1>1, <1>3, <1>9, <1>13, NodesCases
  <2>2. PICK s : s = g["nodes"][AfterSpace(t, next + 1)]
    OBVIOUS
  <2>3. ~node.ok \/ Peek(t, next) \notin {Comma, CloseBracket} \/ (Peek(t, next) = Comma /\ ~s.ok)
    BY <1>10, <1>13, <2>2
  <2>4. ParseNodes(t, p, g) = Failure
    BY <1>2, <1>3, <2>2, <2>3, NodesCases
  <2> QED
    BY <2>1, <2>4, FailureIsSound
<1> QED
  BY <1>11, <1>12, <1>13

\* parseArray
LEMMA ArrayLocal ==
  ASSUME NEW t, Len(t) \in Nat, NEW p \in Nat, p <= Len(t) + 1, NEW f, NEW g,
         AgreeAfter("array", p, f, g), SoundAfter(t, "array", p, f)
  PROVE  /\ ParseArray(t, p, f) = ParseArray(t, p, g)
         /\ SoundAnswer(t, "array", p, ParseArray(t, p, f))
<1>1. PICK q : q = AfterSpace(t, p)
  OBVIOUS
<1>2. q \in Nat /\ p <= q /\ q <= Len(t) + 1
  BY <1>1, SpaceSkipped
<1>3. PICK nodes : nodes = f["nodes"][q]
  OBVIOUS
<1>4. g["nodes"][q] = nodes /\ SoundAnswer(t, "nodes", q, nodes)
  BY <1>2, <1>3 DEF AgreeAfter, SoundAfter, Kinds, Earlier
<1>5. /\ ParseArray(t, p, f) = IF Peek(t, q) = CloseBracket THEN Read(q + 1, <<>>)
                               ELSE IF nodes.ok THEN Read(nodes.at + 1, nodes.value) ELSE Failure
      /\ ParseArray(t, p, g) = IF Peek(t, q) = CloseBracket THEN Read(q + 1, <<>>)
                               ELSE IF nodes.ok THEN Read(nodes.at + 1, nodes.value) ELSE Failure
  BY <1>1, <1>3, <1>4, Zenon DEF ParseArray
<1>6. CASE Peek(t, q) = CloseBracket
  <2>1. q <= Len(t)
    BY <1>2, <1>6, SeenIsInside, TokensDiffer
  <2> QED
    BY <1>2, <1>5, <1>6, <2>1 DEF SoundAnswer, Read
<1>7. CASE Peek(t, q) # CloseBracket /\ nodes.ok
  <2>1. PICK at \in Nat : at = nodes.at /\ q < at /\ at <= Len(t) + 1 /\ Peek(t, at) = CloseBracket
    BY <1>4, <1>7 DEF SoundAnswer
  <2>2. at <= Len(t)
    BY <2>1, SeenIsInside, TokensDiffer
  <2> QED
    BY <1>2, <1>5, <1>7, <2>1, <2>2 DEF SoundAnswer, Read
<1>8. CASE Peek(t, q) # CloseBracket /\ ~nodes.ok
  BY <1>5, <1>8, FailureIsSound
<1> QED
  BY <1>6, <1>7, <1>8

\* A run of other characters ends at the first mark that stops it.
LEMMA RunStops ==
  ASSUME NEW t, Len(t) \in Nat, NEW p \in Nat, p <= Len(t) + 1
  PROVE  /\ EndOfRun(t, p) \in p..(Len(t) + 1) /\ Stops(t, EndOfRun(t, p))
         /\ \A r \in p..(EndOfRun(t, p) - 1) : ~Stops(t, r)
<1>1. PICK T : T = {q \in p..(Len(t) + 1) : Stops(t, q)}
  OBVIOUS
<1>2. Len(t) + 1 \in T
  <2>1. Peek(t, Len(t) + 1) = TheEnd
    BY DEF Peek
  <2> QED
    BY <1>1, <2>1 DEF Stops
<1>3. T \subseteq Nat /\ T # {}
  BY <1>1, <1>2
<1>4. PICK q \in T : \A r \in T : q <= r
  BY <1>3, LeastOf
<1>5. q \in p..(Len(t) + 1) /\ Stops(t, q) /\ \A r \in p..(q - 1) : ~Stops(t, r)
  <2>1. ASSUME NEW r \in p..(q - 1) PROVE ~Stops(t, r)
    <3>1. r \in p..(Len(t) + 1) /\ ~(q <= r)
      BY <1>1, <1>4
    <3> QED
      BY <1>1, <1>4, <3>1
  <2> QED
    BY <1>1, <1>4, <2>1
<1> QED
  BY <1>5, Zenon DEF EndOfRun

\* There is no other such place.
LEMMA RunStopsAt ==
  ASSUME NEW t, Len(t) \in Nat, NEW p \in Nat, NEW q \in Nat, p <= q, q <= Len(t) + 1,
         Stops(t, q), \A r \in p..(q - 1) : ~Stops(t, r)
  PROVE  EndOfRun(t, p) = q
<1>1. PICK e : e = EndOfRun(t, p)
  OBVIOUS
<1>2. e \in p..(Len(t) + 1) /\ Stops(t, e) /\ \A r \in p..(e - 1) : ~Stops(t, r)
  BY <1>1, RunStops
<1>3. ~(e < q) /\ ~(q < e)
  BY <1>2
<1> QED
  BY <1>1, <1>2, <1>3

\* skipValue
LEMMA ValueLocal ==
  ASSUME NEW t, Len(t) \in Nat, NEW p \in Nat, p <= Len(t) + 1, NEW f, NEW g,
         AgreeAfter("value", p, f, g), SoundAfter(t, "value", p, f)
  PROVE  /\ SkipValue(t, p, f) = SkipValue(t, p, g)
         /\ SoundAnswer(t, "value", p, SkipValue(t, p, f))
<1>1. f["object"][p] = g["object"][p] /\ SoundAnswer(t, "object", p, f["object"][p])
  BY DEF AgreeAfter, SoundAfter, Earlier
<1>2. f["array"][p + 1] = g["array"][p + 1]
      /\ (p <= Len(t) => SoundAnswer(t, "array", p + 1, f["array"][p + 1]))
  BY DEF AgreeAfter, SoundAfter, Kinds
<1>3. SkipValue(t, p, f) = SkipValue(t, p, g)
  BY <1>1, <1>2, Zenon DEF SkipValue
<1>4. PICK seen : seen = Peek(t, p)
  OBVIOUS
<1>5. CASE IsString(seen)
  <2>1. p <= Len(t)
    BY <1>4, <1>5, SeenIsInside, StringsDiffer DEF Reserved
  <2>2. SkipValue(t, p, f) = Read(p + 1, <<>>)
    BY <1>4, <1>5, StringsDiffer DEF SkipValue, Reserved
  <2> QED
    BY <1>3, <2>1, <2>2 DEF SoundAnswer, Read
<1>6. CASE seen = Broken
  <2>1. SkipValue(t, p, f) = Failure
    BY <1>4, <1>6, StringsDiffer, TokensDiffer DEF SkipValue, Reserved
  <2> QED
    BY <1>3, <2>1, FailureIsSound
<1>7. CASE seen = OpenBrace
  <2>1. SkipValue(t, p, f) = f["object"][p]
    BY <1>4, <1>7, StringsDiffer, TokensDiffer DEF SkipValue, Reserved
  <2> QED
    BY <1>1, <1>3, <2>1 DEF SoundAnswer
<1>8. CASE seen = OpenBracket
  <2>1. p <= Len(t)
    BY <1>4, <1>8, SeenIsInside, TokensDiffer
  <2>2. SkipValue(t, p, f) = f["array"][p + 1]
    BY <1>4, <1>8, StringsDiffer, TokensDiffer DEF SkipValue, Reserved
  <2> QED
    BY <1>2, <1>3, <2>1, <2>2 DEF SoundAnswer
<1>9. CASE ~IsString(seen) /\ seen \notin {Broken, OpenBrace, OpenBracket}
  <2>1. PICK e : e = EndOfRun(t, p)
    OBVIOUS
  <2>2. SkipValue(t, p, f) = IF e > p THEN Read(e, <<>>) ELSE Failure
    BY <1>4, <1>9, <2>1 DEF SkipValue
  <2>3. e \in p..(Len(t) + 1)
    BY <2>1, RunStops
  <2> QED
    BY <1>3, <2>2, <2>3 DEF SoundAnswer, Read, Failure
<1> QED
  BY <1>5, <1>6, <1>7, <1>8, <1>9

\* What the parser reads at a position follows from what it reads further on.
LEMMA ReadsLocally ==
  ASSUME NEW t, Len(t) \in Nat, NEW what \in Kinds, NEW p \in Nat, p <= Len(t) + 1, NEW f, NEW g,
         AgreeAfter(what, p, f, g), SoundAfter(t, what, p, f)
  PROVE  /\ ParseAt(t, what, p, f) = ParseAt(t, what, p, g)
         /\ SoundAnswer(t, what, p, ParseAt(t, what, p, f))
<1>1. CASE what = "object"
  BY <1>1, ObjectLocal DEF ParseAt
<1>2. CASE what = "fields"
  BY <1>2, FieldsLocal DEF ParseAt
<1>3. CASE what = "nodes"
  BY <1>3, NodesLocal DEF ParseAt
<1>4. CASE what = "array"
  BY <1>4, ArrayLocal DEF ParseAt
<1>5. CASE what = "value"
  BY <1>5, ValueLocal DEF ParseAt
<1> QED
  BY <1>1, <1>2, <1>3, <1>4, <1>5 DEF Kinds

\* A parser of the last k positions, and of none after them.
ParsesLast(t, k, f) ==
  /\ f = [w \in Kinds |-> [q \in Nat |-> f[w][q]]]
  /\ \A w \in Kinds, q \in Nat : q + k > Len(t) + 1 => f[w][q] = ParseAt(t, w, q, f)
  /\ \A w \in Kinds, q \in Nat :
       q + k > Len(t) + 1 /\ q <= Len(t) + 1 => SoundAnswer(t, w, q, f[w][q])

\* After the end of the text nothing is read.
LEMMA BeyondTheEnd ==
  ASSUME NEW t, Len(t) \in Nat, NEW p \in Nat, p > Len(t) + 1, NEW f,
         ~f["object"][p].ok, ~f["nodes"][p].ok
  PROVE  /\ \A w \in Kinds \ {"value"} : ParseAt(t, w, p, f) = Failure
         /\ \A g : ParseAt(t, "value", p, f) = ParseAt(t, "value", p, g)
<1>1. p > Len(t)
  OBVIOUS
<1>2. Peek(t, p) = TheEnd /\ AfterSpace(t, p) = p
  BY <1>1, SpaceSkipped DEF Peek
<1>3. ParseObject(t, p, f) = Failure
  BY <1>2, TokensDiffer DEF ParseObject
<1>4. ParseFields(t, p, f) = Failure
  <2>1. ParseField(t, p, f) = Failure
    BY <1>2, StringsDiffer DEF ParseField, Reserved
  <2>2. ~Failure.ok
    BY DEF Failure
  <2> QED
    BY <2>1, <2>2, FieldsCases
<1>5. ParseNodes(t, p, f) = Failure
  BY NodesCases
<1>6. ParseArray(t, p, f) = Failure
  BY <1>2, TokensDiffer DEF ParseArray
<1>7. \A g : SkipValue(t, p, f) = SkipValue(t, p, g)
  BY <1>2, StringsDiffer, TokensDiffer DEF SkipValue, Reserved
<1> QED
  BY <1>3, <1>4, <1>5, <1>6, <1>7 DEF ParseAt, Kinds

\* Nor is an object or a node.
LEMMA NothingBeyond ==
  ASSUME NEW t, Len(t) \in Nat, NEW p \in Nat, p > Len(t) + 1, NEW f,
         \A w \in Kinds : f[w][p] = ParseAt(t, w, p, f)
  PROVE  ~f["object"][p].ok /\ ~f["nodes"][p].ok
<1>1. p > Len(t)
  OBVIOUS
<1>2. Peek(t, p) = TheEnd
  BY <1>1 DEF Peek
<1>3. f["object"][p] = Failure
  BY <1>2, TokensDiffer DEF ParseAt, ParseObject, Kinds
<1>4. ~Failure.ok
  BY DEF Failure
<1>5. ParseNodes(t, p, f) = Failure
  BY <1>3, <1>4, NodesCases
<1>6. f["nodes"][p] = Failure
  BY <1>5 DEF ParseAt, Kinds
<1> QED
  BY <1>3, <1>4, <1>6

\* There is a parser of no position: one that knows only what comes after the end.
LEMMA ParsesNothing ==
  ASSUME NEW t, Len(t) \in Nat
  PROVE  \E f : ParsesLast(t, 0, f)
<1>1. PICK none : none = [w \in Kinds |-> [q \in Nat |-> Failure]]
  OBVIOUS
<1>2. PICK f : f = [w \in Kinds |->
                     [q \in Nat |-> IF w = "value" THEN ParseAt(t, w, q, none) ELSE Failure]]
  OBVIOUS
<1>3. ~Failure.ok
  BY DEF Failure
<1>4. ASSUME NEW w \in Kinds, NEW q \in Nat, q > Len(t) + 1
      PROVE  f[w][q] = ParseAt(t, w, q, f)
  <2>1. f["object"][q] = Failure /\ f["nodes"][q] = Failure
    BY <1>2 DEF Kinds
  <2>2. none["object"][q] = Failure /\ none["nodes"][q] = Failure
    BY <1>1 DEF Kinds
  <2>3. CASE w = "value"
    <3>1. f[w][q] = ParseAt(t, "value", q, none)
      BY <1>2, <2>3
    <3>2. ParseAt(t, "value", q, none) = ParseAt(t, "value", q, f)
      BY <1>3, <1>4, <2>2, BeyondTheEnd
    <3> QED
      BY <2>3, <3>1, <3>2
  <2>4. CASE w # "value"
    <3>1. f[w][q] = Failure
      BY <1>2, <2>4
    <3>2. ParseAt(t, w, q, f) = Failure
      BY <1>3, <1>4, <2>1, <2>4, BeyondTheEnd
    <3> QED
      BY <3>1, <3>2
  <2> QED
    BY <2>3, <2>4
<1>5. \A q \in Nat : q + 0 = q
  OBVIOUS
<1>6. \A w \in Kinds, q \in Nat : q > Len(t) + 1 => f[w][q] = ParseAt(t, w, q, f)
  BY <1>4
<1>7. \A q \in Nat : ~(q > Len(t) + 1 /\ q <= Len(t) + 1)
  OBVIOUS
<1>8. \A w \in Kinds, q \in Nat : q + 0 > Len(t) + 1 => f[w][q] = ParseAt(t, w, q, f)
  BY <1>5, <1>6
<1>9. \A w \in Kinds, q \in Nat :
        q + 0 > Len(t) + 1 /\ q <= Len(t) + 1 => SoundAnswer(t, w, q, f[w][q])
  BY <1>5, <1>7
<1>10. f = [w \in Kinds |-> [q \in Nat |-> f[w][q]]]
  BY <1>2
<1> QED
  BY <1>8, <1>9, <1>10, Zenon DEF ParsesLast

\* A parser of the last positions can be given the one before them: first the functions
\* that read further on only, then those that ask these.
LEMMA ParsesOneMore ==
  ASSUME NEW t, Len(t) \in Nat, NEW k \in Nat, k <= Len(t) + 1, NEW f, ParsesLast(t, k, f)
  PROVE  \E g : ParsesLast(t, k + 1, g)
<1>1. PICK p \in Nat : p = Len(t) + 1 - k
  OBVIOUS
<1>2. /\ p <= Len(t) + 1
      /\ \A q \in Nat : (q + k > Len(t) + 1 <=> p < q)
                        /\ (q + (k + 1) > Len(t) + 1 <=> p < q \/ q = p)
  BY <1>1
<1>3. \A w \in Kinds, q \in Nat : p < q => f[w][q] = ParseAt(t, w, q, f)
  BY <1>2, Zenon DEF ParsesLast
<1>4. \A w \in Kinds, q \in Nat : p < q /\ q <= Len(t) + 1 => SoundAnswer(t, w, q, f[w][q])
  BY <1>2, Zenon DEF ParsesLast
<1>5. /\ "object" \in Kinds /\ "fields" \in Kinds /\ "nodes" \in Kinds
       /\ "array" \in Kinds /\ "value" \in Kinds
  BY DEF Kinds
<1>6. p <= Len(t) + 1
  BY <1>2
<1>7. PICK r5 : r5 = ParseAt(t, "object", p, f)
  OBVIOUS
<1>8. PICK f1 : f1 = [w \in Kinds |-> [q \in Nat |-> IF w = "object" /\ q = p THEN r5 ELSE f[w][q]]]
  OBVIOUS
<1>9. /\ f1["object"][p] = r5
      /\ \A w \in Kinds, q \in Nat : w # "object" \/ q # p => f1[w][q] = f[w][q]
  BY <1>1, <1>5, <1>8
<1>10. PICK r6 : r6 = ParseAt(t, "fields", p, f1)
  OBVIOUS
<1>11. PICK f2 : f2 = [w \in Kinds |-> [q \in Nat |-> IF w = "fields" /\ q = p THEN r6 ELSE f1[w][q]]]
  OBVIOUS
<1>12. /\ f2["fields"][p] = r6
      /\ \A w \in Kinds, q \in Nat : w # "fields" \/ q # p => f2[w][q] = f1[w][q]
  BY <1>1, <1>5, <1>11
<1>13. PICK r7 : r7 = ParseAt(t, "nodes", p, f2)
  OBVIOUS
<1>14. PICK f3 : f3 = [w \in Kinds |-> [q \in Nat |-> IF w = "nodes" /\ q = p THEN r7 ELSE f2[w][q]]]
  OBVIOUS
<1>15. /\ f3["nodes"][p] = r7
      /\ \A w \in Kinds, q \in Nat : w # "nodes" \/ q # p => f3[w][q] = f2[w][q]
  BY <1>1, <1>5, <1>14
<1>16. PICK r8 : r8 = ParseAt(t, "array", p, f3)
  OBVIOUS
<1>17. PICK f4 : f4 = [w \in Kinds |-> [q \in Nat |-> IF w = "array" /\ q = p THEN r8 ELSE f3[w][q]]]
  OBVIOUS
<1>18. /\ f4["array"][p] = r8
      /\ \A w \in Kinds, q \in Nat : w # "array" \/ q # p => f4[w][q] = f3[w][q]
  BY <1>1, <1>5, <1>17
<1>19. PICK r9 : r9 = ParseAt(t, "value", p, f4)
  OBVIOUS
<1>20. PICK g : g = [w \in Kinds |-> [q \in Nat |-> IF w = "value" /\ q = p THEN r9 ELSE f4[w][q]]]
  OBVIOUS
<1>21. /\ g["value"][p] = r9
      /\ \A w \in Kinds, q \in Nat : w # "value" \/ q # p => g[w][q] = f4[w][q]
  BY <1>1, <1>5, <1>20
<1>22. ASSUME NEW w \in Kinds, NEW q \in Nat, p < q
       PROVE  g[w][q] = f[w][q] /\ f1[w][q] = f[w][q] /\ f2[w][q] = f[w][q]
              /\ f3[w][q] = f[w][q] /\ f4[w][q] = f[w][q]
  <2>1. q # p
    BY <1>22
  <2>2. f1[w][q] = f[w][q]
    BY <1>9, <2>1
  <2>3. f2[w][q] = f[w][q]
    BY <1>12, <2>1, <2>2
  <2>4. f3[w][q] = f[w][q]
    BY <1>15, <2>1, <2>3
  <2>5. f4[w][q] = f[w][q]
    BY <1>18, <2>1, <2>4
  <2>6. g[w][q] = f[w][q]
    BY <1>21, <2>1, <2>5
  <2> QED
    BY <2>2, <2>3, <2>4, <2>5, <2>6
<1>23. /\ f2["object"][p] = f1["object"][p] /\ f3["object"][p] = f1["object"][p]
       /\ f4["object"][p] = f1["object"][p] /\ g["object"][p] = f1["object"][p]
       /\ g["fields"][p] = f2["fields"][p] /\ g["array"][p] = f4["array"][p]
       /\ f4["nodes"][p] = f3["nodes"][p] /\ g["nodes"][p] = f3["nodes"][p]
  BY <1>12, <1>15, <1>18, <1>21 DEF Kinds
<1>24. \A w \in Kinds, q \in Nat : p < q /\ q <= Len(t) + 1 =>
         SoundAnswer(t, w, q, f1[w][q]) /\ SoundAnswer(t, w, q, f2[w][q])
         /\ SoundAnswer(t, w, q, f3[w][q]) /\ SoundAnswer(t, w, q, f4[w][q])
         /\ SoundAnswer(t, w, q, g[w][q])
  BY <1>4, <1>22, Zenon
<1>25. /\ ParseAt(t, "object", p, f) = ParseAt(t, "object", p, g)
       /\ SoundAnswer(t, "object", p, f1["object"][p])
  <2>1. AgreeAfter("object", p, f, g)
    BY <1>22 DEF AgreeAfter, Earlier
  <2>2. SoundAfter(t, "object", p, f)
    BY <1>4 DEF SoundAfter, Earlier
  <2> QED
    BY <1>5, <1>6, <1>9, <1>7, <2>1, <2>2, ReadsLocally
<1>26. /\ ParseAt(t, "fields", p, f1) = ParseAt(t, "fields", p, g)
       /\ SoundAnswer(t, "fields", p, f2["fields"][p])
  <2>1. AgreeAfter("fields", p, f1, g)
    BY <1>22 DEF AgreeAfter, Earlier
  <2>2. SoundAfter(t, "fields", p, f1)
    BY <1>24 DEF SoundAfter, Earlier
  <2> QED
    BY <1>5, <1>6, <1>12, <1>10, <2>1, <2>2, ReadsLocally
<1>27. /\ ParseAt(t, "nodes", p, f2) = ParseAt(t, "nodes", p, g)
       /\ SoundAnswer(t, "nodes", p, f3["nodes"][p])
  <2>1. AgreeAfter("nodes", p, f2, g)
    BY <1>22, <1>23 DEF AgreeAfter, Earlier
  <2>2. SoundAfter(t, "nodes", p, f2)
    BY <1>23, <1>24, <1>25 DEF SoundAfter, Earlier
  <2> QED
    BY <1>5, <1>6, <1>15, <1>13, <2>1, <2>2, ReadsLocally
<1>28. /\ ParseAt(t, "array", p, f3) = ParseAt(t, "array", p, g)
       /\ SoundAnswer(t, "array", p, f4["array"][p])
  <2>1. AgreeAfter("array", p, f3, g)
    BY <1>22, <1>23 DEF AgreeAfter, Earlier
  <2>2. SoundAfter(t, "array", p, f3)
    BY <1>24, <1>27 DEF SoundAfter, Earlier
  <2> QED
    BY <1>5, <1>6, <1>18, <1>16, <2>1, <2>2, ReadsLocally
<1>29. /\ ParseAt(t, "value", p, f4) = ParseAt(t, "value", p, g)
       /\ SoundAnswer(t, "value", p, g["value"][p])
  <2>1. AgreeAfter("value", p, f4, g)
    BY <1>22, <1>23 DEF AgreeAfter, Earlier
  <2>2. SoundAfter(t, "value", p, f4)
    BY <1>23, <1>24, <1>25 DEF SoundAfter, Earlier
  <2> QED
    BY <1>5, <1>6, <1>21, <1>19, <2>1, <2>2, ReadsLocally
<1>30. \A w \in Kinds : g[w][p] = ParseAt(t, w, p, g) /\ SoundAnswer(t, w, p, g[w][p])
  <2>1. SUFFICES ASSUME NEW w \in Kinds
                 PROVE  g[w][p] = ParseAt(t, w, p, g) /\ SoundAnswer(t, w, p, g[w][p])
    OBVIOUS
  <2>2. w = "object" \/ w = "fields" \/ w = "nodes" \/ w = "array" \/ w = "value"
    BY <2>1 DEF Kinds
  <2> QED
    BY <1>7, <1>9, <1>10, <1>12, <1>13, <1>15, <1>16, <1>18, <1>19, <1>21, <1>23, <1>25, <1>26,
       <1>27, <1>28, <1>29, <2>2
<1>31. ASSUME NEW w \in Kinds, NEW q \in Nat, p < q PROVE g[w][q] = ParseAt(t, w, q, g)
  <2>1. g[w][q] = f[w][q] /\ f[w][q] = ParseAt(t, w, q, f)
    BY <1>3, <1>22, <1>31
  <2>2. CASE q <= Len(t) + 1
    <3>1. \A v \in Kinds, r \in Nat : q < r \/ r = q => p < r
      BY <1>31
    <3>2. AgreeAfter(w, q, f, g)
      <4>1. Earlier(w) \subseteq Kinds
        BY <1>31 DEF Earlier, Kinds
      <4> QED
        BY <1>22, <1>31, <3>1, <4>1, Zenon DEF AgreeAfter
    <3>3. SoundAfter(t, w, q, f)
      <4>1. Earlier(w) \subseteq Kinds
        BY <1>31 DEF Earlier, Kinds
      <4> QED
        BY <1>4, <1>31, <2>2, <3>1, <4>1, Zenon DEF SoundAfter
    <3>4. ParseAt(t, w, q, f) = ParseAt(t, w, q, g)
      BY <1>31, <2>2, <3>2, <3>3, ReadsLocally
    <3> QED
      BY <2>1, <3>4
  <2>3. CASE q > Len(t) + 1
    <3>1. g["object"][q] = f["object"][q] /\ g["nodes"][q] = f["nodes"][q]
      BY <1>22, <1>31 DEF Kinds
    <3>2. ~f["object"][q].ok /\ ~f["nodes"][q].ok
      BY <1>3, <1>31, <2>3, NothingBeyond
    <3>3. ParseAt(t, w, q, f) = ParseAt(t, w, q, g)
      BY <1>31, <2>3, <3>1, <3>2, BeyondTheEnd
    <3> QED
      BY <2>1, <3>3
  <2> QED
    BY <2>2, <2>3
<1>32. \A w \in Kinds, q \in Nat : q + (k + 1) > Len(t) + 1 => g[w][q] = ParseAt(t, w, q, g)
  BY <1>2, <1>30, <1>31, Zenon
<1>33. \A w \in Kinds, q \in Nat :
         q + (k + 1) > Len(t) + 1 /\ q <= Len(t) + 1 => SoundAnswer(t, w, q, g[w][q])
  BY <1>2, <1>24, <1>30, Zenon
<1>34. g = [w \in Kinds |-> [q \in Nat |-> g[w][q]]]
  BY <1>20
<1>35. ParsesLast(t, k + 1, g)
  BY <1>32, <1>33, <1>34, Zenon DEF ParsesLast
<1> QED
  BY <1>35

\* A function that the definition of Parser holds of
Solves(t, f) == f = [what \in Kinds |-> [p \in Nat |-> ParseAt(t, what, p, f)]]

\* There is one: by induction over the positions, from the end.
LEMMA SolutionExists ==
  ASSUME NEW t, Len(t) \in Nat
  PROVE  \E f : Solves(t, f)
<1>1. PICK T : T = {k \in Nat : k <= Len(t) + 2 => \E f : ParsesLast(t, k, f)}
  OBVIOUS
<1>2. 0 \in T
  BY <1>1, ParsesNothing
<1>3. ASSUME NEW k \in Nat, k \in T PROVE k + 1 \in T
  <2>1. ASSUME k + 1 <= Len(t) + 2 PROVE \E f : ParsesLast(t, k + 1, f)
    <3>1. k <= Len(t) + 1 /\ k <= Len(t) + 2
      BY <2>1
    <3>2. PICK f : ParsesLast(t, k, f)
      BY <1>1, <1>3, <3>1
    <3> QED
      BY <3>1, <3>2, ParsesOneMore
  <2> QED
    BY <1>1, <2>1
<1>4. Nat \subseteq T
  BY <1>2, <1>3, Induct
<1>5. Len(t) + 2 \in T
  BY <1>4
<1>6. PICK f : ParsesLast(t, Len(t) + 2, f)
  BY <1>1, <1>5
<1>7. \A q \in Nat : q + (Len(t) + 2) > Len(t) + 1
  OBVIOUS
<1>8. \A w \in Kinds, q \in Nat : f[w][q] = ParseAt(t, w, q, f)
  BY <1>6, <1>7, Zenon DEF ParsesLast
<1>9. f = [w \in Kinds |-> [q \in Nat |-> f[w][q]]]
  BY <1>6, Zenon DEF ParsesLast
<1>10. f = [w \in Kinds |-> [q \in Nat |-> ParseAt(t, w, q, f)]]
  BY <1>8, <1>9
<1> QED
  BY <1>10, Zenon DEF Solves

\* The parser is what it is defined to be.
LEMMA ParserIs ==
  ASSUME NEW t, Len(t) \in Nat, NEW what \in Kinds, NEW p \in Nat
  PROVE  Parser(t)[what][p] = ParseAt(t, what, p, Parser(t))
<1>1. \E f : Solves(t, f)
  BY SolutionExists
<1>2. Parser(t) = CHOOSE f : f = [w \in {"object", "fields", "nodes", "array", "value"} |->
                                    [q \in Nat |-> ParseAt(t, w, q, f)]]
  BY Zenon DEF Parser
<1>3. Solves(t, Parser(t))
  BY <1>1, <1>2, Zenon DEF Solves, Kinds
<1>4. PICK f : f = Parser(t)
  OBVIOUS
<1>5. f = [w \in Kinds |-> [q \in Nat |-> ParseAt(t, w, q, f)]]
  BY <1>3, <1>4, Zenon DEF Solves
<1>6. f[what][p] = ParseAt(t, what, p, f)
  <2>1. PICK h : h = [w \in Kinds |-> [q \in Nat |-> ParseAt(t, w, q, f)]]
    OBVIOUS
  <2>2. h[what][p] = ParseAt(t, what, p, f)
    BY <2>1, Zenon
  <2>3. f = h
    BY <1>5, <2>1, Zenon
  <2> QED
    BY <2>2, <2>3
<1> QED
  BY <1>4, <1>6

\* Its answers are sound.
LEMMA ParserIsSound ==
  ASSUME NEW t, Len(t) \in Nat, NEW what \in Kinds, NEW p \in Nat, p <= Len(t) + 1
  PROVE  SoundAnswer(t, what, p, Parser(t)[what][p])
<1>1. PICK f : f = Parser(t)
  OBVIOUS
<1>2. \A w \in Kinds, q \in Nat : f[w][q] = ParseAt(t, w, q, f)
  BY <1>1, ParserIs
<1>3. PICK T : T = {k \in Nat : \A w \in Kinds, q \in Nat :
                      q + k > Len(t) + 1 /\ q <= Len(t) + 1 => SoundAnswer(t, w, q, f[w][q])}
  OBVIOUS
<1>4. 0 \in T
  <2>1. \A q \in Nat : ~(q + 0 > Len(t) + 1 /\ q <= Len(t) + 1)
    OBVIOUS
  <2> QED
    BY <1>3, <2>1
<1>5. ASSUME NEW k \in Nat, k \in T PROVE k + 1 \in T
  <2>1. SUFFICES ASSUME NEW w \in Kinds, NEW q \in Nat, q + (k + 1) > Len(t) + 1, q <= Len(t) + 1
                 PROVE  SoundAnswer(t, w, q, f[w][q])
    BY <1>3
  <2>2. \A v \in Kinds, r \in Nat : q < r /\ r <= Len(t) + 1 => SoundAnswer(t, v, r, f[v][r])
    <3>1. \A r \in Nat : q < r => r + k > Len(t) + 1
      BY <2>1
    <3> QED
      BY <1>3, <1>5, <3>1
  <2>3. ASSUME NEW v \in Kinds, \A u \in Earlier(v) : SoundAnswer(t, u, q, f[u][q])
        PROVE  SoundAnswer(t, v, q, f[v][q])
    <3>1. SoundAfter(t, v, q, f)
      BY <2>2, <2>3, Zenon DEF SoundAfter
    <3>2. AgreeAfter(v, q, f, f)
      BY Zenon DEF AgreeAfter
    <3>3. SoundAnswer(t, v, q, ParseAt(t, v, q, f))
      BY <2>1, <3>1, <3>2, ReadsLocally
    <3> QED
      BY <1>2, <3>3
  <2>4. SoundAnswer(t, "object", q, f["object"][q])
    BY <2>3 DEF Kinds, Earlier
  <2>5. SoundAnswer(t, "nodes", q, f["nodes"][q])
    BY <2>3, <2>4 DEF Kinds, Earlier
  <2> QED
    BY <2>3, <2>4, <2>5 DEF Kinds, Earlier
<1>6. Nat \subseteq T
  BY <1>4, <1>5, Induct
<1>7. Len(t) + 2 \in T /\ p + (Len(t) + 2) > Len(t) + 1
  BY <1>6
<1> QED
  BY <1>1, <1>3, <1>7

-------------------------------------------------------------------------------
(* A text that goes on: what was read of its beginning is read again *)

\* The text c is the beginning of t.
Begins(c, t) ==
  /\ Len(c) \in Nat /\ Len(t) \in Nat /\ Len(c) <= Len(t)
  /\ \A i \in 1..Len(c) : c[i] = t[i]

\* A number or a word at the end may go on; everything else has a mark at its end.
Settled(c, what, r) == r.ok /\ (what = "value" => r.at <= Len(c))

\* What f reads in the beginning, and is settled there, g reads in the text.
ReadAgain(c, what, r, s) == Settled(c, what, r) => s = r

AgainAfter(c, what, p, f, g) ==
  /\ \A w \in Kinds, q \in Nat : p < q /\ q <= Len(c) + 1 => ReadAgain(c, w, f[w][q], g[w][q])
  /\ \A w \in Earlier(what) : ReadAgain(c, w, f[w][p], g[w][p])

\* The tokens of the beginning
LEMMA SeenAgain ==
  ASSUME NEW c, NEW t, Begins(c, t), NEW p \in Nat \ {0}, p <= Len(c)
  PROVE  Peek(t, p) = Peek(c, p)
BY DEF Begins, Peek

\* White space that ends in the beginning
LEMMA SpaceAgain ==
  ASSUME NEW c, NEW t, Begins(c, t), NEW p \in Nat \ {0}, AfterSpace(c, p) <= Len(c)
  PROVE  /\ AfterSpace(t, p) = AfterSpace(c, p)
         /\ Peek(t, AfterSpace(t, p)) = Peek(c, AfterSpace(c, p))
<1>1. PICK q \in Nat \ {0} : q = AfterSpace(c, p) /\ p <= q /\ q <= Len(c)
  <2>1. Len(c) \in Nat
    BY DEF Begins
  <2>2. AfterSpace(c, p) \in Nat /\ p <= AfterSpace(c, p)
    BY <2>1, SpaceSkipped
  <2> QED
    BY <2>2
<1>2. p <= Len(c)
  BY <1>1 DEF Begins
<1>3. Peek(t, p) = Peek(c, p) /\ Peek(t, q) = Peek(c, q)
  BY <1>1, <1>2, SeenAgain
<1>4. AfterSpace(t, p) = q
  BY <1>1, <1>3 DEF AfterSpace
<1> QED
  BY <1>1, <1>3, <1>4

\* What was read begins in the text.
LEMMA AskedInside ==
  ASSUME NEW t, Len(t) \in Nat, NEW what, NEW p \in Nat, NEW r, SoundAnswer(t, what, p, r), r.ok
  PROVE  p <= Len(t)
BY DEF SoundAnswer

\* An object, which ends at its brace, is read again; so with the others.
LEMMA ObjectAgain ==
  ASSUME NEW c, NEW t, Begins(c, t), NEW p \in Nat \ {0}, p <= Len(c) + 1, NEW f, NEW g,
         SoundAfter(c, "object", p, f), AgainAfter(c, "object", p, f, g),
         ParseObject(c, p, f).ok
  PROVE  ParseObject(t, p, g) = ParseObject(c, p, f)
<1>1. PICK q : q = AfterSpace(c, p + 1)
  OBVIOUS
<1>2. Len(c) \in Nat /\ p \in Nat
  BY DEF Begins
<1>3. PICK fields : fields = f["fields"][q]
  OBVIOUS
<1>4. /\ Peek(c, p) = OpenBrace /\ fields.ok /\ fields.value.id \notin {"", NoId}
      /\ ParseObject(c, p, f) = fields
  BY <1>1, <1>3 DEF ParseObject, Failure
<1>5. p <= Len(c)
  BY <1>2, <1>4, SeenIsInside, TokensDiffer
<1>6. q \in Nat /\ p < q /\ q <= Len(c) + 1
  BY <1>1, <1>2, <1>5, NextSkipped
<1>7. SoundAnswer(c, "fields", q, fields) /\ g["fields"][q] = fields
  BY <1>3, <1>4, <1>6 DEF SoundAfter, AgainAfter, ReadAgain, Settled, Kinds
<1>8. q <= Len(c)
  BY <1>2, <1>4, <1>6, <1>7, AskedInside
<1>9. AfterSpace(t, p + 1) = q
  BY <1>1, <1>8, SpaceAgain, p + 1 \in Nat \ {0}
<1>10. Peek(t, p) = OpenBrace
  BY <1>4, <1>5, SeenAgain
<1> QED
  BY <1>4, <1>7, <1>9, <1>10 DEF ParseObject

\* One field of parseObject, behind which the beginning goes on
LEMMA FieldAgain ==
  ASSUME NEW c, NEW t, Begins(c, t), NEW p \in Nat \ {0}, p <= Len(c) + 1, NEW f, NEW g,
         SoundAfter(c, "fields", p, f), AgainAfter(c, "fields", p, f, g),
         ParseField(c, p, f).ok, ParseField(c, p, f).at <= Len(c)
  PROVE  ParseField(t, p, g) = ParseField(c, p, f)
<1>1. PICK colon : colon = AfterSpace(c, p + 1)
  OBVIOUS
<1>2. PICK start : start = AfterSpace(c, colon + 1)
  OBVIOUS
<1>3. PICK kids : kids = f["array"][start + 1]
  OBVIOUS
<1>4. PICK skip : skip = f["value"][start]
  OBVIOUS
<1>5. PICK key : key = Peek(c, p)
  OBVIOUS
<1>6. PICK seen : seen = Peek(c, start)
  OBVIOUS
<1>7. Len(c) \in Nat /\ p \in Nat
  BY DEF Begins
<1>8. ~Failure.ok
  BY DEF Failure
<1>9. /\ IsString(key) /\ Peek(c, colon) = Colon
      /\ \/ key = "effect" /\ IsString(seen)
            /\ ParseField(c, p, f) = Read(start + 1, [NoNode EXCEPT !.id = seen])
         \/ key = "children" /\ seen = OpenBracket /\ kids.ok
            /\ ParseField(c, p, f) = Read(kids.at, [NoNode EXCEPT !.kids = kids.value])
         \/ key \notin {"effect", "children"} /\ skip.ok
            /\ ParseField(c, p, f) = Read(skip.at, NoNode)
  BY <1>1, <1>2, <1>3, <1>4, <1>5, <1>6, <1>8, Zenon DEF ParseField
<1>10. p <= Len(c)
  BY <1>5, <1>7, <1>9, SeenIsInside, StringsDiffer DEF Reserved
<1>11. colon \in Nat /\ p < colon
  BY <1>1, <1>7, NextSkipped
<1>12. colon \in Nat \ {0} /\ colon + 1 \in Nat \ {0}
  BY <1>11
<1>13. colon <= Len(c)
  BY <1>7, <1>9, <1>12, SeenIsInside, TokensDiffer
<1>14. start \in Nat \ {0} /\ colon < start /\ start <= Len(c) + 1 /\ p < start
  <2>1. start \in Nat /\ colon < start /\ start <= Len(c) + 1
    BY <1>2, <1>7, <1>13, <1>11, NextSkipped
  <2> QED
    BY <1>11, <2>1
<1>15. start <= Len(c)
  <2>1. CASE IsString(seen) \/ seen = OpenBracket
    BY <1>6, <1>7, <1>14, <2>1, SeenIsInside, StringsDiffer, TokensDiffer DEF Reserved
  <2>2. CASE skip.ok
    <3>1. SoundAnswer(c, "value", start, skip)
      BY <1>4, <1>14 DEF SoundAfter, Kinds
    <3> QED
      BY <1>7, <1>14, <2>2, <3>1, AskedInside
  <2> QED
    BY <1>9, <2>1, <2>2
<1>16. Peek(t, p) = key
  BY <1>5, <1>10, SeenAgain
<1>17. AfterSpace(t, p + 1) = colon /\ Peek(t, colon) = Colon
  BY <1>1, <1>9, <1>13, SpaceAgain, p + 1 \in Nat \ {0}
<1>18. AfterSpace(t, colon + 1) = start /\ Peek(t, start) = seen
  BY <1>2, <1>6, <1>12, <1>15, SpaceAgain
<1>19. CASE key = "effect" /\ IsString(seen)
            /\ ParseField(c, p, f) = Read(start + 1, [NoNode EXCEPT !.id = seen])
  BY <1>9, <1>16, <1>17, <1>18, <1>19 DEF ParseField
<1>20. CASE key = "children" /\ seen = OpenBracket /\ kids.ok
            /\ ParseField(c, p, f) = Read(kids.at, [NoNode EXCEPT !.kids = kids.value])
  <2>1. g["array"][start + 1] = kids
    BY <1>3, <1>14, <1>15, <1>20 DEF AgainAfter, ReadAgain, Settled, Kinds
  <2>2. ~IsString(seen) \/ key # "effect"
    BY <1>20
  <2> QED
    BY <1>9, <1>16, <1>17, <1>18, <1>20, <2>1, <2>2 DEF ParseField
<1>21. CASE key \notin {"effect", "children"} /\ skip.ok
            /\ ParseField(c, p, f) = Read(skip.at, NoNode)
  <2>1. skip.at <= Len(c)
    BY <1>21 DEF Read
  <2>2. g["value"][start] = skip
    BY <1>4, <1>14, <1>15, <1>21, <2>1 DEF AgainAfter, ReadAgain, Settled, Kinds
  <2> QED
    BY <1>9, <1>16, <1>17, <1>18, <1>21, <2>2 DEF ParseField
<1> QED
  BY <1>9, <1>19, <1>20, <1>21

\* parseObject's loop
LEMMA FieldsAgain ==
  ASSUME NEW c, NEW t, Begins(c, t), NEW p \in Nat \ {0}, p <= Len(c) + 1, NEW f, NEW g,
         SoundAfter(c, "fields", p, f), AgainAfter(c, "fields", p, f, g),
         ParseFields(c, p, f).ok
  PROVE  ParseFields(t, p, g) = ParseFields(c, p, f)
<1>1. PICK field : field = ParseField(c, p, f)
  OBVIOUS
<1>2. PICK next : next = AfterSpace(c, field.at)
  OBVIOUS
<1>3. PICK rest : rest = f["fields"][AfterSpace(c, next + 1)]
  OBVIOUS
<1>4. Len(c) \in Nat /\ p \in Nat
  BY DEF Begins
<1>5. ~Failure.ok
  BY DEF Failure
<1>6. field.ok /\ (Peek(c, next) = CloseBrace \/ (Peek(c, next) = Comma /\ rest.ok))
  BY <1>1, <1>2, <1>3, <1>5, FieldsCases
<1>7. SoundAnswer(c, "value", p, field)
  BY <1>1, <1>4, FieldLocal DEF AgreeAfter
<1>8. next \in Nat /\ p < next /\ next <= Len(c) + 1
  BY <1>2, <1>4, <1>6, <1>7, AnswerSkipped
<1>9. next <= Len(c)
  BY <1>4, <1>6, <1>8, SeenIsInside, TokensDiffer
<1>10. PICK at \in Nat \ {0} : at = field.at /\ at <= Len(c)
  <2>1. PICK at \in Nat \ {0} : at = field.at
    BY <1>6, <1>7 DEF SoundAnswer
  <2>2. at <= next
    BY <1>2, <1>4, <2>1, SpaceSkipped
  <2> QED
    BY <1>4, <1>8, <1>9, <2>1, <2>2
<1>11. field = ParseField(t, p, g)
  BY <1>1, <1>6, <1>10, FieldAgain
<1>12. next = AfterSpace(t, field.at) /\ Peek(t, next) = Peek(c, next)
  BY <1>2, <1>9, <1>10, SpaceAgain
<1>13. CASE Peek(c, next) = CloseBrace
  <2>1. ParseFields(c, p, f) = Read(next + 1, field.value)
    BY <1>1, <1>2, <1>3, <1>6, <1>13, FieldsCases
  <2>2. ParseFields(t, p, g) = Read(next + 1, field.value)
    BY <1>6, <1>11, <1>12, <1>13, FieldsCases
  <2> QED
    BY <2>1, <2>2
<1>14. CASE Peek(c, next) = Comma /\ rest.ok
  <2>1. PICK q : q = AfterSpace(c, next + 1)
    OBVIOUS
  <2>2. q \in Nat /\ next < q /\ q <= Len(c) + 1
    BY <1>4, <1>8, <1>9, <2>1, NextSkipped
  <2>3. SoundAnswer(c, "fields", q, rest) /\ g["fields"][q] = rest
    BY <1>3, <1>8, <1>14, <2>1, <2>2 DEF SoundAfter, AgainAfter, ReadAgain, Settled, Kinds
  <2>4. q <= Len(c)
    BY <1>4, <1>14, <2>2, <2>3, AskedInside
  <2>5. next + 1 \in Nat \ {0}
    BY <1>8
  <2>6. AfterSpace(t, next + 1) = q
    BY <2>1, <2>4, <2>5, SpaceAgain
  <2>7. rest = g["fields"][AfterSpace(t, next + 1)]
    BY <2>3, <2>6
  <2>8. ParseFields(c, p, f) = Read(rest.at, Joined(field.value, rest.value))
    BY <1>1, <1>2, <1>3, <1>6, <1>14, FieldsCases
  <2>9. ParseFields(t, p, g) = Read(rest.at, Joined(field.value, rest.value))
    BY <1>6, <1>11, <1>12, <1>14, <2>7, FieldsCases
  <2> QED
    BY <2>8, <2>9
<1> QED
  BY <1>6, <1>13, <1>14

\* parseArray's loop
LEMMA NodesAgain ==
  ASSUME NEW c, NEW t, Begins(c, t), NEW p \in Nat \ {0}, p <= Len(c) + 1, NEW f, NEW g,
         SoundAfter(c, "nodes", p, f), AgainAfter(c, "nodes", p, f, g),
         ParseNodes(c, p, f).ok
  PROVE  ParseNodes(t, p, g) = ParseNodes(c, p, f)
<1>1. PICK node : node = f["object"][p]
  OBVIOUS
<1>2. PICK next : next = AfterSpace(c, node.at)
  OBVIOUS
<1>3. PICK rest : rest = f["nodes"][AfterSpace(c, next + 1)]
  OBVIOUS
<1>4. Len(c) \in Nat /\ p \in Nat
  BY DEF Begins
<1>5. ~Failure.ok
  BY DEF Failure
<1>6. node.ok /\ (Peek(c, next) = CloseBracket \/ (Peek(c, next) = Comma /\ rest.ok))
  BY <1>1, <1>2, <1>3, <1>5, NodesCases
<1>7. SoundAnswer(c, "object", p, node) /\ g["object"][p] = node
  BY <1>1, <1>6 DEF SoundAfter, AgainAfter, ReadAgain, Settled, Earlier
<1>8. next \in Nat /\ p < next /\ next <= Len(c) + 1
  BY <1>2, <1>4, <1>6, <1>7, AnswerSkipped
<1>9. next <= Len(c)
  BY <1>4, <1>6, <1>8, SeenIsInside, TokensDiffer
<1>10. PICK at \in Nat \ {0} : at = node.at
  BY <1>6, <1>7 DEF SoundAnswer
<1>11. next = AfterSpace(t, node.at) /\ Peek(t, next) = Peek(c, next)
  BY <1>2, <1>9, <1>10, SpaceAgain
<1>12. node = g["object"][p]
  BY <1>7
<1>13. CASE Peek(c, next) = CloseBracket
  <2>1. ParseNodes(c, p, f) = Read(next, <<node.value>>)
    BY <1>1, <1>2, <1>3, <1>6, <1>13, NodesCases
  <2>2. ParseNodes(t, p, g) = Read(next, <<node.value>>)
    BY <1>6, <1>11, <1>12, <1>13, NodesCases
  <2> QED
    BY <2>1, <2>2
<1>14. CASE Peek(c, next) = Comma /\ rest.ok
  <2>1. PICK q : q = AfterSpace(c, next + 1)
    OBVIOUS
  <2>2. q \in Nat /\ next < q /\ q <= Len(c) + 1
    BY <1>4, <1>8, <1>9, <2>1, NextSkipped
  <2>3. SoundAnswer(c, "nodes", q, rest) /\ g["nodes"][q] = rest
    BY <1>3, <1>8, <1>14, <2>1, <2>2 DEF SoundAfter, AgainAfter, ReadAgain, Settled, Kinds
  <2>4. q <= Len(c)
    BY <1>4, <1>14, <2>2, <2>3, AskedInside
  <2>5. next + 1 \in Nat \ {0}
    BY <1>8
  <2>6. AfterSpace(t, next + 1) = q
    BY <2>1, <2>4, <2>5, SpaceAgain
  <2>7. rest = g["nodes"][AfterSpace(t, next + 1)]
    BY <2>3, <2>6
  <2>8. ParseNodes(c, p, f) = Read(rest.at, <<node.value>> \o rest.value)
    BY <1>1, <1>2, <1>3, <1>6, <1>14, NodesCases
  <2>9. ParseNodes(t, p, g) = Read(rest.at, <<node.value>> \o rest.value)
    BY <1>6, <1>11, <1>12, <1>14, <2>7, NodesCases
  <2> QED
    BY <2>8, <2>9
<1> QED
  BY <1>6, <1>13, <1>14

\* parseArray
LEMMA ArrayAgain ==
  ASSUME NEW c, NEW t, Begins(c, t), NEW p \in Nat \ {0}, p <= Len(c) + 1, NEW f, NEW g,
         SoundAfter(c, "array", p, f), AgainAfter(c, "array", p, f, g),
         ParseArray(c, p, f).ok
  PROVE  ParseArray(t, p, g) = ParseArray(c, p, f)
<1>1. PICK q : q = AfterSpace(c, p)
  OBVIOUS
<1>2. PICK nodes : nodes = f["nodes"][q]
  OBVIOUS
<1>3. Len(c) \in Nat /\ p \in Nat
  BY DEF Begins
<1>4. q \in Nat /\ p <= q /\ q <= Len(c) + 1
  BY <1>1, <1>3, SpaceSkipped
<1>5. SoundAnswer(c, "nodes", q, nodes) /\ (nodes.ok => g["nodes"][q] = nodes)
  BY <1>2, <1>3, <1>4 DEF SoundAfter, AgainAfter, ReadAgain, Settled, Kinds, Earlier
<1>6. ParseArray(c, p, f) = IF Peek(c, q) = CloseBracket THEN Read(q + 1, <<>>)
                            ELSE IF nodes.ok THEN Read(nodes.at + 1, nodes.value) ELSE Failure
  BY <1>1, <1>2, Zenon DEF ParseArray
<1>7. Peek(c, q) = CloseBracket \/ nodes.ok
  BY <1>6 DEF Failure
<1>8. q <= Len(c)
  BY <1>3, <1>4, <1>5, <1>7, SeenIsInside, TokensDiffer, AskedInside
<1>9. AfterSpace(t, p) = q /\ Peek(t, q) = Peek(c, q)
  BY <1>1, <1>8, SpaceAgain
<1>10. ParseArray(t, p, g) = IF Peek(c, q) = CloseBracket THEN Read(q + 1, <<>>)
                             ELSE IF g["nodes"][q].ok THEN Read(g["nodes"][q].at + 1, g["nodes"][q].value)
                             ELSE Failure
  BY <1>9, Zenon DEF ParseArray
<1> QED
  BY <1>5, <1>6, <1>7, <1>10

\* skipValue, behind whose value the beginning goes on
LEMMA ValueAgain ==
  ASSUME NEW c, NEW t, Begins(c, t), NEW p \in Nat \ {0}, p <= Len(c) + 1, NEW f, NEW g,
         SoundAfter(c, "value", p, f), AgainAfter(c, "value", p, f, g),
         SkipValue(c, p, f).ok, SkipValue(c, p, f).at <= Len(c)
  PROVE  SkipValue(t, p, g) = SkipValue(c, p, f)
<1>1. PICK seen : seen = Peek(c, p)
  OBVIOUS
<1>2. Len(c) \in Nat /\ Len(t) \in Nat /\ p \in Nat /\ Len(c) <= Len(t)
  BY DEF Begins
<1>3. p <= Len(c)
  <2>1. AgreeAfter("value", p, f, f)
    BY DEF AgreeAfter
  <2>2. SoundAnswer(c, "value", p, SkipValue(c, p, f))
    BY <1>2, <2>1, ValueLocal
  <2> QED
    BY <1>2, <2>2, AskedInside
<1>4. Peek(t, p) = seen
  BY <1>1, <1>3, SeenAgain
<1>5. CASE IsString(seen)
  BY <1>1, <1>4, <1>5, StringsDiffer DEF SkipValue, Reserved
<1>6. CASE seen = Broken
  BY <1>1, <1>6, StringsDiffer, TokensDiffer DEF SkipValue, Reserved, Failure
<1>7. CASE seen = OpenBrace
  <2>1. SkipValue(c, p, f) = f["object"][p] /\ SkipValue(t, p, g) = g["object"][p]
    BY <1>1, <1>4, <1>7, StringsDiffer, TokensDiffer DEF SkipValue, Reserved
  <2> QED
    BY <2>1 DEF AgainAfter, ReadAgain, Settled, Earlier
<1>8. CASE seen = OpenBracket
  <2>1. SkipValue(c, p, f) = f["array"][p + 1] /\ SkipValue(t, p, g) = g["array"][p + 1]
    BY <1>1, <1>4, <1>8, StringsDiffer, TokensDiffer DEF SkipValue, Reserved
  <2> QED
    BY <1>2, <1>3, <2>1 DEF AgainAfter, ReadAgain, Settled, Kinds
<1>9. CASE ~IsString(seen) /\ seen \notin {Broken, OpenBrace, OpenBracket}
  <2>1. PICK e : e = EndOfRun(c, p)
    OBVIOUS
  <2>2. SkipValue(c, p, f) = IF e > p THEN Read(e, <<>>) ELSE Failure
    BY <1>1, <1>9, <2>1 DEF SkipValue
  <2>3. e > p /\ e <= Len(c)
    BY <2>2 DEF Read, Failure
  <2>4. e \in p..(Len(c) + 1) /\ Stops(c, e) /\ \A r \in p..(e - 1) : ~Stops(c, r)
    BY <1>2, <2>1, RunStops
  <2>5. \A r \in p..e : Peek(t, r) = Peek(c, r)
    BY <1>2, <2>3, <2>4, SeenAgain
  <2>6. Stops(t, e) /\ \A r \in p..(e - 1) : ~Stops(t, r)
    BY <2>3, <2>4, <2>5 DEF Stops
  <2>7. EndOfRun(t, p) = e
    BY <1>2, <2>3, <2>4, <2>6, RunStopsAt
  <2>8. SkipValue(t, p, g) = IF e > p THEN Read(e, <<>>) ELSE Failure
    BY <1>4, <1>9, <2>7 DEF SkipValue
  <2> QED
    BY <2>2, <2>8
<1> QED
  BY <1>5, <1>6, <1>7, <1>8, <1>9

\* What is read at a position
LEMMA AgainAt ==
  ASSUME NEW c, NEW t, Begins(c, t), NEW what \in Kinds, NEW p \in Nat \ {0}, p <= Len(c) + 1,
         NEW f, NEW g, SoundAfter(c, what, p, f), AgainAfter(c, what, p, f, g),
         Settled(c, what, ParseAt(c, what, p, f))
  PROVE  ParseAt(t, what, p, g) = ParseAt(c, what, p, f)
<1>1. CASE what = "object"
  BY <1>1, ObjectAgain DEF ParseAt, Settled
<1>2. CASE what = "fields"
  BY <1>2, FieldsAgain DEF ParseAt, Settled
<1>3. CASE what = "nodes"
  BY <1>3, NodesAgain DEF ParseAt, Settled
<1>4. CASE what = "array"
  BY <1>4, ArrayAgain DEF ParseAt, Settled
<1>5. CASE what = "value"
  BY <1>5, ValueAgain DEF ParseAt, Settled
<1> QED
  BY <1>1, <1>2, <1>3, <1>4, <1>5 DEF Kinds

\* Whatever was read of the beginning of a text, and ended in it, is read of the text.
LEMMA ReadOnceMore ==
  ASSUME NEW c, NEW t, Begins(c, t), NEW what \in Kinds, NEW p \in Nat \ {0}, p <= Len(c) + 1
  PROVE  ReadAgain(c, what, Parser(c)[what][p], Parser(t)[what][p])
<1>1. PICK f, g : f = Parser(c) /\ g = Parser(t)
  OBVIOUS
<1>2. Len(c) \in Nat /\ Len(t) \in Nat
  BY DEF Begins
<1>3. \A w \in Kinds, q \in Nat : f[w][q] = ParseAt(c, w, q, f) /\ g[w][q] = ParseAt(t, w, q, g)
  BY <1>1, <1>2, ParserIs
<1>4. \A w \in Kinds, q \in Nat : q <= Len(c) + 1 => SoundAnswer(c, w, q, f[w][q])
  BY <1>1, <1>2, ParserIsSound
<1>5. PICK T : T = {k \in Nat : \A w \in Kinds, q \in Nat \ {0} :
                      q + k > Len(c) + 1 /\ q <= Len(c) + 1 => ReadAgain(c, w, f[w][q], g[w][q])}
  OBVIOUS
<1>6. 0 \in T
  <2>1. \A q \in Nat : ~(q + 0 > Len(c) + 1 /\ q <= Len(c) + 1)
    BY <1>2
  <2> QED
    BY <1>5, <2>1
<1>7. ASSUME NEW k \in Nat, k \in T PROVE k + 1 \in T
  <2>1. SUFFICES ASSUME NEW w \in Kinds, NEW q \in Nat \ {0}, q + (k + 1) > Len(c) + 1, q <= Len(c) + 1
                 PROVE  ReadAgain(c, w, f[w][q], g[w][q])
    BY <1>5
  <2>2. \A v \in Kinds, r \in Nat : q < r /\ r <= Len(c) + 1 => ReadAgain(c, v, f[v][r], g[v][r])
    <3>1. \A r \in Nat : q < r => r + k > Len(c) + 1 /\ r \in Nat \ {0}
      BY <1>2, <2>1
    <3> QED
      BY <1>5, <1>7, <3>1
  <2>3. ASSUME NEW v \in Kinds, \A u \in Earlier(v) : ReadAgain(c, u, f[u][q], g[u][q])
        PROVE  ReadAgain(c, v, f[v][q], g[v][q])
    <3>1. AgainAfter(c, v, q, f, g)
      BY <2>2, <2>3, Zenon DEF AgainAfter
    <3>2. SoundAfter(c, v, q, f)
      <4>1. Earlier(v) \subseteq Kinds
        BY <2>3 DEF Earlier, Kinds
      <4>2. q \in Nat
        OBVIOUS
      <4> QED
        BY <1>4, <2>1, <4>1, <4>2, Zenon DEF SoundAfter
    <3>3. Settled(c, v, ParseAt(c, v, q, f)) => ParseAt(t, v, q, g) = ParseAt(c, v, q, f)
      BY <2>1, <3>1, <3>2, AgainAt
    <3> QED
      BY <1>3, <3>3 DEF ReadAgain
  <2>4. ReadAgain(c, "object", f["object"][q], g["object"][q])
    BY <2>3 DEF Kinds, Earlier
  <2>5. ReadAgain(c, "nodes", f["nodes"][q], g["nodes"][q])
    BY <2>3, <2>4 DEF Kinds, Earlier
  <2> QED
    BY <2>3, <2>4, <2>5 DEF Kinds, Earlier
<1>8. Nat \subseteq T
  BY <1>6, <1>7, Induct
<1>9. Len(c) + 2 \in T /\ p + (Len(c) + 2) > Len(c) + 1
  BY <1>2, <1>8
<1> QED
  BY <1>1, <1>5, <1>9

-------------------------------------------------------------------------------
(* What is written of the pieces of a document, and where it stands in a text *)

\* What a text may consist of
Tokens == (Reserved \ {TheEnd}) \cup Strings

\* The tokens u stand in the text t from position p on.
Stands(u, t, p) ==
  /\ p + Len(u) <= Len(t) + 1
  /\ \A i \in 1..Len(u) : t[p + i - 1] = u[i]

\* Of two parts, the second stands behind the first.
LEMMA StandsBoth ==
  ASSUME NEW t, Len(t) \in Nat, NEW p \in Nat \ {0}, NEW u \in Seq(Tokens), NEW v \in Seq(Tokens),
         Stands(u \o v, t, p)
  PROVE  Stands(u, t, p) /\ Stands(v, t, p + Len(u))
<1>1. Len(u) \in Nat /\ Len(v) \in Nat /\ Len(u \o v) = Len(u) + Len(v)
  OBVIOUS
<1>2. \A i \in 1..Len(u) : i \in 1..(Len(u) + Len(v)) /\ (u \o v)[i] = u[i]
  OBVIOUS
<1>3. \A i \in 1..Len(v) : i + Len(u) \in 1..(Len(u) + Len(v)) /\ (u \o v)[i + Len(u)] = v[i]
  OBVIOUS
<1>4. /\ p + (Len(u) + Len(v)) <= Len(t) + 1
      /\ \A i \in 1..(Len(u) + Len(v)) : t[p + i - 1] = (u \o v)[i]
  BY <1>1 DEF Stands
<1>5. Stands(u, t, p)
  BY <1>1, <1>2, <1>4 DEF Stands
<1>6. \A i \in 1..Len(v) : t[(p + Len(u)) + i - 1] = v[i]
  <2>1. ASSUME NEW i \in 1..Len(v) PROVE t[(p + Len(u)) + i - 1] = v[i]
    <3>1. t[p + (i + Len(u)) - 1] = v[i]
      BY <1>3, <1>4
    <3>2. p + (i + Len(u)) - 1 = (p + Len(u)) + i - 1
      BY <1>1
    <3> QED
      BY <3>1, <3>2
  <2> QED
    BY <2>1
<1>7. Stands(v, t, p + Len(u))
  BY <1>1, <1>4, <1>6 DEF Stands
<1> QED
  BY <1>5, <1>7

\* The first token is what the parser sees.
LEMMA StandsFirst ==
  ASSUME NEW t, Len(t) \in Nat, NEW p \in Nat \ {0}, NEW u \in Seq(Tokens), Len(u) > 0,
         Stands(u, t, p)
  PROVE  p <= Len(t) /\ Peek(t, p) = u[1]
<1>1. p <= Len(t) /\ t[p + 1 - 1] = u[1] /\ p + 1 - 1 = p
  BY DEF Stands
<1> QED
  BY <1>1 DEF Peek

\* A single token
LEMMA StandsOne ==
  ASSUME NEW t, Len(t) \in Nat, NEW p \in Nat \ {0}, NEW x \in Tokens, Stands(<<x>>, t, p)
  PROVE  p <= Len(t) /\ Peek(t, p) = x
<1>1. PICK u : u = <<x>>
  OBVIOUS
<1>2. u \in Seq(Tokens) /\ Len(u) = 1 /\ u[1] = x /\ Stands(u, t, p)
  BY <1>1
<1>3. Len(u) > 0
  BY <1>2
<1>4. p <= Len(t) /\ Peek(t, p) = u[1]
  BY <1>2, <1>3, StandsFirst
<1> QED
  BY <1>2, <1>4

\* White space in a document is one token or none.
LEMMA GapsAre ==
  ASSUME NEW gap \in Gaps
  PROVE  gap \in Seq(Tokens) /\ Len(gap) \in {0, 1} /\ (Len(gap) = 1 => gap[1] = Space)
<1>1. Space \in Tokens
  BY TokensDiffer DEF Tokens, Reserved
<1>2. gap = <<>> \/ gap = <<Space>>
  BY DEF Gaps
<1>3. CASE gap = <<>>
  BY <1>3
<1>4. CASE gap = <<Space>>
  BY <1>1, <1>4
<1> QED
  BY <1>2, <1>3, <1>4

\* White space is skipped, up to what is none.
LEMMA GapSkipped ==
  ASSUME NEW t, Len(t) \in Nat, NEW p \in Nat \ {0}, NEW gap \in Gaps, Stands(gap, t, p),
         Peek(t, p + Len(gap)) # Space
  PROVE  AfterSpace(t, p) = p + Len(gap) /\ p + Len(gap) \in Nat \ {0}
<1>1. gap \in Seq(Tokens) /\ Len(gap) \in {0, 1} /\ (Len(gap) = 1 => gap[1] = Space)
  BY GapsAre
<1>2. CASE Len(gap) = 1
  <2>1. Peek(t, p) = Space
    BY <1>1, <1>2, StandsFirst
  <2> QED
    BY <1>2, <2>1 DEF AfterSpace
<1>3. CASE Len(gap) = 0
  BY <1>3 DEF AfterSpace
<1> QED
  BY <1>1, <1>2, <1>3

\* What is said of a piece: something, that begins as its kind does.
WellSaid(d, s) ==
  /\ s.good \in BOOLEAN
  /\ s.tokens \in Seq(Tokens) /\ Len(s.tokens) > 0
  /\ d.what = "string" => d.string \in Strings /\ s = Said(TRUE, <<d.string>>, <<>>)
  /\ d.what = "bare"   => d.run \in Runs /\ s = Said(TRUE, d.run, <<>>)
  /\ d.what = "array"  => s.tokens[1] = OpenBracket
  /\ d.what \in {"object", "nodes"} => s.tokens[1] = OpenBrace
  /\ d.what = "fields" => IsString(s.tokens[1])

\* The parser reads of it what it says, or fails.
Answered(r, at, s) == r = IF s.good THEN Read(at, s.value) ELSE Failure

ReadsAs(d, s) ==
  \A t, p : Len(t) \in Nat /\ p \in Nat \ {0} /\ Stands(s.tokens, t, p) =>
    /\ d.what = "array"  => Answered(Parser(t)["array"][p + 1], p + Len(s.tokens), s)
    /\ d.what = "object" => Answered(Parser(t)["object"][p], p + Len(s.tokens), s)
    /\ d.what = "nodes"  => Answered(Parser(t)["nodes"][p], p + Len(s.tokens) - 1, s)
    /\ d.what = "fields" => Answered(Parser(t)["fields"][p], p + Len(s.tokens), s)

\* What a piece is made of
LEMMA PieceCases ==
  ASSUME NEW parts, NEW piece \in Pieces(parts)
  PROVE  \/ piece.what = "string" /\ piece.string \in Strings
         \/ piece.what = "bare" /\ piece.run \in Runs
         \/ /\ piece.what = "array" /\ piece.before \in Gaps
            /\ piece.nodes = End \/ (piece.nodes \in parts /\ piece.nodes.what = "nodes")
         \/ /\ piece.what = "object" /\ piece.before \in Gaps
            /\ piece.fields = End \/ (piece.fields \in parts /\ piece.fields.what = "fields")
         \/ /\ piece.what = "nodes" /\ piece.before \in Gaps /\ piece.after \in Gaps
            /\ piece.node \in parts /\ piece.node.what = "object"
            /\ piece.rest = End \/ (piece.rest \in parts /\ piece.rest.what = "nodes")
         \/ /\ piece.what = "fields" /\ piece.before \in Gaps /\ piece.after \in Gaps
            /\ piece.colon \in Gaps /\ piece.space \in Gaps /\ piece.key \in Strings
            /\ piece.value \in parts /\ piece.value.what \in {"string", "bare", "array", "object"}
            /\ piece.rest = End \/ (piece.rest \in parts /\ piece.rest.what = "fields")
BY DEF Pieces

\* Strings and marks are tokens.
LEMMA StringsAndMarks ==
  /\ \A x \in Strings : IsString(x) /\ x \in Tokens
  /\ \A x \in Reserved : ~IsString(x)
  /\ OpenBrace \in Tokens /\ CloseBrace \in Tokens /\ OpenBracket \in Tokens
  /\ CloseBracket \in Tokens /\ Comma \in Tokens /\ Colon \in Tokens /\ Space \in Tokens
  /\ Bare \in Tokens /\ Broken \in Tokens
BY StringsDiffer, TokensDiffer DEF Strings, Tokens, Reserved

\* Joined parts begin with the first.
LEMMA JoinedTokens ==
  ASSUME NEW u \in Seq(Tokens), NEW v \in Seq(Tokens), NEW w, w = u \o v
  PROVE  /\ w \in Seq(Tokens) /\ Len(w) = Len(u) + Len(v)
         /\ Len(u) \in Nat /\ Len(v) \in Nat
         /\ Len(u) > 0 => w[1] = u[1]
<1>1. Len(u) \in Nat /\ Len(v) \in Nat
  OBVIOUS
<1>2. w \in Seq(Tokens) /\ Len(w) = Len(u) + Len(v)
  OBVIOUS
<1>3. Len(u) > 0 => w[1] = u[1]
  <2>1. SUFFICES ASSUME Len(u) > 0 PROVE w[1] = u[1]
    OBVIOUS
  <2>2. 1 \in 1..Len(u)
    BY <1>1, <2>1
  <2> QED
    BY <2>2
<1> QED
  BY <1>1, <1>2, <1>3

\* Where the parts of a field stand
FieldTokens(key, colon, space, v, after) ==
  <<key>> \o colon \o <<Colon>> \o space \o v \o after

\* The colon of the field is at q and its value at start.
FieldFound(t, p, key, v, after, whole, q, start) ==
  /\ p < q /\ q < start /\ Peek(t, p) = key
  /\ AfterSpace(t, p + 1) = q /\ Peek(t, q) = Colon
  /\ AfterSpace(t, q + 1) = start /\ Stands(v, t, start) /\ Peek(t, start) = v[1]
  /\ Stands(after, t, start + Len(v))
  /\ start + Len(v) + Len(after) = p + Len(whole)

\* A field that stands in a text is found there.
LEMMA FieldStands ==
  ASSUME NEW t, Len(t) \in Nat, NEW p \in Nat \ {0}, NEW key \in Strings, NEW colon \in Gaps,
         NEW space \in Gaps, NEW after \in Gaps, NEW v \in Seq(Tokens), Len(v) > 0, v[1] # Space,
         Stands(FieldTokens(key, colon, space, v, after), t, p)
  PROVE  \E q, start \in Nat \ {0} :
           FieldFound(t, p, key, v, after, FieldTokens(key, colon, space, v, after), q, start)
<1>1. PICK whole : whole = FieldTokens(key, colon, space, v, after)
  OBVIOUS
<1>2. PICK a, b, c, d, e : a = <<key>> /\ b = a \o colon /\ c = <<Colon>> /\ d = b \o c /\ e = d \o space
  OBVIOUS
<1>3. whole = (e \o v) \o after /\ Stands(whole, t, p)
  BY <1>2, <1>1 DEF FieldTokens
<1>4. /\ colon \in Seq(Tokens) /\ Len(colon) \in {0, 1}
      /\ space \in Seq(Tokens) /\ Len(space) \in {0, 1}
      /\ after \in Seq(Tokens) /\ Len(after) \in {0, 1}
  BY GapsAre
<1>5. /\ a \in Seq(Tokens) /\ Len(a) = 1 /\ a[1] = key
      /\ c \in Seq(Tokens) /\ Len(c) = 1 /\ c[1] = Colon
  BY <1>2, StringsAndMarks
<1>6. b \in Seq(Tokens) /\ Len(b) = 1 + Len(colon) /\ b[1] = key
  BY <1>2, <1>4, <1>5
<1>7. d \in Seq(Tokens) /\ Len(d) = 2 + Len(colon) /\ d[1] = key
  BY <1>2, <1>4, <1>5, <1>6
<1>8. e \in Seq(Tokens) /\ Len(e) = 2 + Len(colon) + Len(space) /\ e[1] = key
  BY <1>2, <1>4, <1>7
<1>9. PICK ev : ev = e \o v
  OBVIOUS
<1>10. PICK l \in Nat \ {0} : l = Len(v)
  OBVIOUS
<1>11. ev \in Seq(Tokens) /\ Len(ev) = 2 + Len(colon) + Len(space) + l /\ ev[1] = key
  <2>1. Len(e) \in Nat /\ Len(e) > 0
    BY <1>4, <1>8
  <2>2. ev \in Seq(Tokens) /\ Len(ev) = Len(e) + Len(v) /\ ev[1] = e[1]
    BY <1>8, <1>9, <2>1, JoinedTokens
  <2> QED
    BY <1>4, <1>8, <1>10, <2>2
<1>12. whole \in Seq(Tokens) /\ Len(whole) = 2 + Len(colon) + Len(space) + l + Len(after)
      /\ whole[1] = key
  <2>1. Len(ev) \in Nat /\ Len(ev) > 0
    BY <1>4, <1>11
  <2>2. whole = ev \o after
    BY <1>3, <1>9
  <2>3. ev \in Seq(Tokens) /\ after \in Seq(Tokens)
    BY <1>4, <1>11
  <2>4. whole \in Seq(Tokens) /\ Len(whole) = Len(ev) + Len(after) /\ whole[1] = ev[1]
    BY <2>1, <2>2, <2>3, JoinedTokens
  <2> QED
    BY <1>4, <1>11, <2>4
<1>13. PICK q : q = p + 1 + Len(colon)
  OBVIOUS
<1>14. PICK start : start = q + 1 + Len(space)
  OBVIOUS
<1>15. /\ q \in Nat \ {0} /\ start \in Nat \ {0} /\ p < q /\ q < start
       /\ p + 1 \in Nat \ {0} /\ q + 1 \in Nat \ {0}
  BY <1>4, <1>13, <1>14
<1>16. Stands(ev, t, p) /\ Stands(after, t, p + Len(ev))
  BY <1>3, <1>4, <1>11, <1>9, StandsBoth
<1>17. p + Len(ev) = start + Len(v) /\ p + Len(e) = start /\ p + Len(d) = q + 1
       /\ p + Len(b) = q /\ p + Len(a) = p + 1
  BY <1>4, <1>5, <1>6, <1>7, <1>8, <1>11, <1>10, <1>13, <1>14
<1>18. Stands(after, t, start + Len(v))
  BY <1>16, <1>17
<1>19. Stands(e, t, p) /\ Stands(v, t, p + Len(e))
  BY <1>8, <1>16, <1>9, StandsBoth
<1>20. Stands(v, t, start)
  BY <1>17, <1>19
<1>21. Stands(d, t, p) /\ Stands(space, t, p + Len(d))
  BY <1>2, <1>4, <1>7, <1>19, StandsBoth
<1>22. Stands(b, t, p) /\ Stands(c, t, p + Len(b))
  BY <1>2, <1>5, <1>6, <1>21, StandsBoth
<1>23. Stands(a, t, p) /\ Stands(colon, t, p + Len(a))
  BY <1>2, <1>4, <1>5, <1>22, StandsBoth
<1>24. Peek(t, p) = key
  BY <1>5, <1>23, StandsFirst
<1>25. Peek(t, q) = Colon
  <2>1. Stands(c, t, q)
    BY <1>17, <1>22
  <2>2. c \in Seq(Tokens) /\ Len(c) > 0 /\ c[1] = Colon /\ q \in Nat \ {0}
    BY <1>5, <1>15
  <2> QED
    BY <2>1, <2>2, StandsFirst
<1>26. Peek(t, start) = v[1]
  BY <1>15, <1>20, StandsFirst
<1>27. AfterSpace(t, p + 1) = q
  <2>1. Stands(colon, t, p + 1) /\ (p + 1) + Len(colon) = q
    BY <1>4, <1>13, <1>17, <1>23
  <2>2. Peek(t, (p + 1) + Len(colon)) # Space
    BY <1>25, <2>1, TokensDiffer
  <2> QED
    BY <1>15, <2>1, <2>2, GapSkipped
<1>28. AfterSpace(t, q + 1) = start
  <2>1. Stands(space, t, q + 1) /\ (q + 1) + Len(space) = start
    BY <1>4, <1>14, <1>15, <1>17, <1>21
  <2>2. Peek(t, (q + 1) + Len(space)) # Space
    BY <1>26, <2>1
  <2> QED
    BY <1>15, <2>1, <2>2, GapSkipped
<1>29. start + Len(v) + Len(after) = p + Len(whole)
  BY <1>4, <1>12, <1>10, <1>13, <1>14
<1> QED
  BY <1>15, <1>18, <1>20, <1>24, <1>25, <1>26, <1>27, <1>28, <1>29, <1>1 DEF FieldFound

\* A number or a word goes on to the mark that ends it, spaces and colons included.
LEMMA RunStands ==
  ASSUME NEW t, Len(t) \in Nat, NEW p \in Nat \ {0}, NEW run \in Runs, NEW after \in Gaps,
         Stands(run, t, p), Stands(after, t, p + Len(run)),
         Peek(t, p + Len(run) + Len(after)) \in {Comma, CloseBrace}
  PROVE  EndOfRun(t, p) = p + Len(run) + Len(after)
<1>1. run \in Seq({Bare, Colon, Space}) /\ Len(run) > 0
  BY DEF Runs
<1>2. after \in Seq(Tokens) /\ Len(after) \in {0, 1} /\ (Len(after) = 1 => after[1] = Space)
  BY GapsAre
<1>3. PICK l \in Nat \ {0} : l = Len(run)
  BY <1>1
<1>4. PICK q \in Nat \ {0} : q = p + l
  OBVIOUS
<1>5. PICK e \in Nat \ {0} : e = p + Len(run) + Len(after)
  BY <1>2, <1>3
<1>6. e = q + Len(after) /\ p < q /\ q <= e /\ e <= q + 1
  <2>1. q = p + Len(run)
    BY <1>3, <1>4
  <2>2. e = q + Len(after)
    BY <1>5, <2>1
  <2>3. PICK w \in {0, 1} : w = Len(after)
    BY <1>2
  <2>4. e = q + w
    BY <2>2, <2>3
  <2>5. w = 0 => e = q
    BY <1>4, <2>4
  <2>6. w = 1 => e = q + 1
    BY <1>4, <2>4
  <2>7. e = q \/ e = q + 1
    BY <2>3, <2>5, <2>6
  <2>8. p < q
    BY <1>3, <1>4
  <2>9. q <= e /\ e <= q + 1
    BY <1>4, <2>7
  <2> QED
    BY <2>2, <2>8, <2>9
<1>7. \A r \in p..(q - 1) : ~Stops(t, r)
  <2>1. SUFFICES ASSUME NEW r \in p..(q - 1) PROVE ~Stops(t, r)
    OBVIOUS
  <2>2. PICK i \in 1..l : i = r - p + 1
    BY <1>4
  <2>3. r = p + i - 1 /\ r <= Len(t)
    BY <1>3, <2>2 DEF Stands
  <2>4. t[r] = run[i]
    BY <1>3, <2>2, <2>3 DEF Stands
  <2>5. run[i] \in {Bare, Colon, Space}
    BY <1>1, <1>3
  <2> QED
    BY <2>3, <2>4, <2>5, TokensDiffer DEF Stops, Peek
<1>8. q < e => ~Stops(t, q)
  <2>1. SUFFICES ASSUME q < e PROVE ~Stops(t, q)
    OBVIOUS
  <2>2. Len(after) = 1
    BY <1>2, <1>6, <2>1
  <2>3. Peek(t, q) = Space
    BY <1>2, <1>3, <1>4, <2>2, StandsFirst
  <2> QED
    BY <2>3, TokensDiffer DEF Stops
<1>9. \A r \in p..(e - 1) : ~Stops(t, r)
  BY <1>6, <1>7, <1>8
<1>10. Stops(t, e)
  BY <1>5 DEF Stops
<1>11. e <= Len(t)
  BY <1>5, SeenIsInside, TokensDiffer
<1> QED
  BY <1>5, <1>6, <1>9, <1>10, <1>11, RunStopsAt

\* The value of a field that is skipped: the parser goes on to the mark behind it.
LEMMA SkippedValue ==
  ASSUME NEW t, Len(t) \in Nat, NEW p \in Nat \ {0}, NEW d, NEW s, WellSaid(d, s), ReadsAs(d, s),
         d.what \in {"string", "bare", "array", "object"}, NEW after \in Gaps,
         Stands(s.tokens, t, p), Stands(after, t, p + Len(s.tokens)),
         Peek(t, p + Len(s.tokens) + Len(after)) \in {Comma, CloseBrace}
  PROVE  /\ s.good => /\ Parser(t)["value"][p].ok
                      /\ AfterSpace(t, Parser(t)["value"][p].at) = p + Len(s.tokens) + Len(after)
         /\ ~s.good => ~Parser(t)["value"][p].ok
<1>1. PICK e, skip : e = p + Len(s.tokens) + Len(after) /\ skip = Parser(t)["value"][p]
  OBVIOUS
<1>2. SUFFICES (s.good => skip.ok /\ AfterSpace(t, skip.at) = e) /\ (~s.good => ~skip.ok)
  BY <1>1
<1>3. PICK f : f = Parser(t)
  OBVIOUS
<1>4. p \in Nat
  OBVIOUS
<1>5. skip = SkipValue(t, p, f)
  BY <1>3, <1>4, <1>1, ParserIs DEF ParseAt, Kinds
<1>6. PICK l \in Nat \ {0} : l = Len(s.tokens)
  BY DEF WellSaid
<1>7. s.tokens \in Seq(Tokens) /\ s.good \in BOOLEAN
  BY DEF WellSaid
<1>8. Peek(t, p) = s.tokens[1]
  BY <1>6, <1>7, StandsFirst
<1>9. PICK q \in Nat \ {0} : q = p + Len(s.tokens)
  BY <1>6
<1>10. AfterSpace(t, q) = e
  <2>1. Peek(t, q + Len(after)) # Space
    BY <1>9, TokensDiffer
  <2> QED
    BY <1>9, <1>1, <2>1, GapSkipped
<1>11. ~Failure.ok
  BY DEF Failure
<1>12. \A a, v : Read(a, v).ok /\ Read(a, v).at = a
  BY DEF Read
<1>13. CASE d.what = "string"
  <2>1. s = Said(TRUE, <<d.string>>, <<>>) /\ d.string \in Strings
    BY <1>13 DEF WellSaid
  <2>2. s.good = TRUE /\ s.tokens = <<d.string>>
    BY <2>1 DEF Said
  <2>3. Len(<<d.string>>) = 1 /\ <<d.string>>[1] = d.string
    OBVIOUS
  <2>4. l = 1 /\ IsString(Peek(t, p))
    BY <1>6, <1>8, <2>1, <2>2, <2>3, StringsAndMarks
  <2>5. skip = Read(p + 1, <<>>)
    BY <1>5, <2>4, StringsAndMarks DEF SkipValue, Reserved
  <2>6. q = p + 1
    BY <1>6, <1>9, <2>4
  <2> QED
    BY <1>10, <1>12, <2>2, <2>5, <2>6
<1>14. CASE d.what = "bare"
  <2>1. s = Said(TRUE, d.run, <<>>) /\ d.run \in Runs
    BY <1>14 DEF WellSaid
  <2>2. s.good = TRUE /\ s.tokens = d.run /\ d.run[1] = Bare
    BY <2>1 DEF Said, Runs
  <2>3. Stands(d.run, t, p) /\ Stands(after, t, p + Len(d.run)) /\ e = p + Len(d.run) + Len(after)
        /\ Peek(t, p + Len(d.run) + Len(after)) \in {Comma, CloseBrace}
    BY <1>1, <2>2
  <2>4. EndOfRun(t, p) = e
    BY <2>1, <2>3, RunStands
  <2>5. Peek(t, p) = Bare
    BY <1>8, <2>2
  <2>6. skip = IF e > p THEN Read(e, <<>>) ELSE Failure
    BY <1>5, <2>4, <2>5, TokensDiffer, StringsAndMarks DEF SkipValue, Reserved
  <2>7. Len(after) \in Nat
    BY GapsAre
  <2>8. e > p /\ e \in Nat
    BY <1>6, <1>9, <1>1, <2>7
  <2>9. AfterSpace(t, e) = e
    BY <1>1, TokensDiffer DEF AfterSpace
  <2> QED
    BY <1>12, <2>2, <2>6, <2>8, <2>9
<1>15. CASE d.what = "array"
  <2>1. Peek(t, p) = OpenBracket
    BY <1>8, <1>15 DEF WellSaid
  <2>2. skip = f["array"][p + 1]
    BY <1>5, <2>1, TokensDiffer, StringsAndMarks DEF SkipValue, Reserved
  <2>3. Answered(skip, q, s)
    BY <1>3, <1>9, <1>15, <2>2 DEF ReadsAs
  <2> QED
    BY <1>7, <1>10, <1>11, <1>12, <2>3 DEF Answered
<1>16. CASE d.what = "object"
  <2>1. Peek(t, p) = OpenBrace
    BY <1>8, <1>16 DEF WellSaid
  <2>2. skip = f["object"][p]
    BY <1>5, <2>1, TokensDiffer, StringsAndMarks DEF SkipValue, Reserved
  <2>3. Answered(skip, q, s)
    BY <1>3, <1>9, <1>16, <2>2 DEF ReadsAs
  <2> QED
    BY <1>7, <1>10, <1>11, <1>12, <2>3 DEF Answered
<1> QED
  BY <1>13, <1>14, <1>15, <1>16

\* A field is read as what it says, up to the mark behind it.
LEMMA FieldReads ==
  ASSUME NEW t, Len(t) \in Nat, NEW p \in Nat \ {0}, NEW piece, NEW s,
         piece.key \in Strings, piece.colon \in Gaps, piece.space \in Gaps, piece.after \in Gaps,
         WellSaid(piece.value, s), ReadsAs(piece.value, s),
         piece.value.what \in {"string", "bare", "array", "object"},
         NEW said, said = SaysField(piece, s),
         Stands(said.tokens, t, p),
         NEW e, e = p + Len(said.tokens), Peek(t, e) \in {Comma, CloseBrace},
         NEW field, field = ParseField(t, p, Parser(t))
  PROVE  /\ said.good => field.ok /\ AfterSpace(t, field.at) = e /\ field.value = said.value
         /\ ~said.good => ~field.ok
<1>1. PICK f : f = Parser(t)
  OBVIOUS
<1>2. PICK kind, key : kind = piece.value.what /\ key = piece.key
  OBVIOUS
<1>3. /\ said.good = (s.good /\ (key = "effect" => kind = "string")
                             /\ (key = "children" => kind = "array"))
      /\ said.tokens = <<key>> \o piece.colon \o <<Colon>> \o piece.space \o s.tokens \o piece.after
      /\ said.value = [id   |-> IF key = "effect" /\ said.good THEN piece.value.string ELSE NoId,
                       kids |-> IF key = "children" /\ said.good THEN s.value ELSE <<>>]
  BY <1>2, Zenon DEF SaysField, Said
<1>4. s.tokens \in Seq(Tokens) /\ Len(s.tokens) > 0 /\ s.good \in BOOLEAN
  BY DEF WellSaid
<1>5. PICK x : x = s.tokens[1]
  OBVIOUS
<1>6. /\ kind = "string" => IsString(x) /\ x = piece.value.string /\ Len(s.tokens) = 1
                            /\ s.good = TRUE
      /\ kind = "bare" => x = Bare
      /\ kind = "array" => x = OpenBracket
      /\ kind = "object" => x = OpenBrace
  <2>1. CASE kind = "string"
    <3>1. s = Said(TRUE, <<piece.value.string>>, <<>>) /\ piece.value.string \in Strings
      BY <1>2, <2>1 DEF WellSaid
    <3>2. s.tokens = <<piece.value.string>> /\ s.good = TRUE
      BY <3>1 DEF Said
    <3>3. Len(<<piece.value.string>>) = 1 /\ <<piece.value.string>>[1] = piece.value.string
      OBVIOUS
    <3>4. IsString(piece.value.string)
      BY <3>1, StringsAndMarks
    <3> QED
      BY <1>5, <2>1, <3>2, <3>3, <3>4
  <2>2. CASE kind = "bare"
    <3>1. s = Said(TRUE, piece.value.run, <<>>) /\ piece.value.run \in Runs
      BY <1>2, <2>2 DEF WellSaid
    <3>2. s.tokens = piece.value.run /\ piece.value.run[1] = Bare
      BY <3>1 DEF Said, Runs
    <3> QED
      BY <1>5, <2>2, <3>2
  <2>3. CASE kind = "array"
    BY <1>2, <1>5, <2>3 DEF WellSaid
  <2>4. CASE kind = "object"
    BY <1>2, <1>5, <2>4 DEF WellSaid
  <2> QED
    BY <2>1, <2>2, <2>3, <2>4
<1>7. kind \in {"string", "bare", "array", "object"}
  BY <1>2
<1>8. x # Space
  BY <1>6, <1>7, TokensDiffer, StringsAndMarks DEF Reserved
<1>9. key \in Strings
  BY <1>2
<1>10. PICK q \in Nat \ {0}, start \in Nat \ {0} :
         /\ p < q /\ q < start /\ Peek(t, p) = key
         /\ AfterSpace(t, p + 1) = q /\ Peek(t, q) = Colon
         /\ AfterSpace(t, q + 1) = start /\ Stands(s.tokens, t, start) /\ Peek(t, start) = x
         /\ Stands(piece.after, t, start + Len(s.tokens))
         /\ start + Len(s.tokens) + Len(piece.after) = p + Len(said.tokens)
  <2>1. PICK whole : whole = said.tokens
    OBVIOUS
  <2>2. whole = <<key>> \o piece.colon \o <<Colon>> \o piece.space \o s.tokens \o piece.after
        /\ Stands(whole, t, p)
    BY <1>3, <2>1
  <2>3. s.tokens[1] # Space
    BY <1>5, <1>8
  <2>4. \E q, start \in Nat \ {0} :
          /\ p < q /\ q < start /\ Peek(t, p) = key
          /\ AfterSpace(t, p + 1) = q /\ Peek(t, q) = Colon
          /\ AfterSpace(t, q + 1) = start /\ Stands(s.tokens, t, start)
          /\ Peek(t, start) = s.tokens[1]
          /\ Stands(piece.after, t, start + Len(s.tokens))
          /\ start + Len(s.tokens) + Len(piece.after) = p + Len(whole)
    <3>1. PICK colon \in Gaps, space \in Gaps, after \in Gaps :
            colon = piece.colon /\ space = piece.space /\ after = piece.after
      OBVIOUS
    <3>2. PICK v \in Seq(Tokens) : v = s.tokens
      BY <1>4
    <3>3. whole = FieldTokens(key, colon, space, v, after)
      BY <2>2, <3>1, <3>2 DEF FieldTokens
    <3>4. Len(v) > 0 /\ v[1] # Space /\ Stands(FieldTokens(key, colon, space, v, after), t, p)
      BY <1>4, <2>2, <2>3, <3>2, <3>3
    <3>5. \E q, start \in Nat \ {0} :
            FieldFound(t, p, key, v, after, FieldTokens(key, colon, space, v, after), q, start)
      BY <1>9, <3>1, <3>2, <3>4, FieldStands
    <3> QED
      BY <3>1, <3>2, <3>3, <3>5 DEF FieldFound
  <2> QED
    BY <1>5, <2>1, <2>4
<1>11. e = start + Len(s.tokens) + Len(piece.after)
  BY <1>10
<1>12. PICK kids, skip : kids = f["array"][start + 1] /\ skip = f["value"][start]
  OBVIOUS
<1>13. IsString(key)
  BY <1>9, StringsAndMarks
<1>14. field = CASE key = "effect" /\ IsString(x) ->
                      Read(start + 1, [NoNode EXCEPT !.id = x])
                 [] key = "children" /\ x = OpenBracket /\ kids.ok ->
                      Read(kids.at, [NoNode EXCEPT !.kids = kids.value])
                 [] key \notin {"effect", "children"} /\ skip.ok -> Read(skip.at, NoNode)
                 [] OTHER -> Failure
  BY <1>1, <1>10, <1>12, <1>13, Zenon DEF ParseField
<1>15. ~Failure.ok
  BY DEF Failure
<1>16. \A a, v : Read(a, v).ok /\ Read(a, v).at = a /\ Read(a, v).value = v
  BY DEF Read
<1>17. PICK r \in Nat \ {0} : r = start + Len(s.tokens)
  <2>1. PICK l \in Nat : l = Len(s.tokens)
    BY <1>4
  <2> QED
    BY <1>10, <2>1
<1>18. AfterSpace(t, r) = e
  <2>1. Peek(t, r + Len(piece.after)) # Space
    BY <1>11, <1>17, TokensDiffer
  <2> QED
    BY <1>10, <1>11, <1>17, <2>1, GapSkipped
<1>19. NoNode = [id |-> NoId, kids |-> <<>>]
  BY DEF NoNode
<1>20. CASE key = "effect"
  <2>1. "effect" # "children"
    OBVIOUS
  <2>2. CASE kind = "string"
    <3>1. said.good = TRUE
      BY <1>3, <1>6, <1>20, <2>1, <2>2
    <3>2. said.value = [id |-> x, kids |-> <<>>]
      BY <1>3, <1>6, <1>20, <2>1, <2>2, <3>1
    <3>3. field = Read(start + 1, [NoNode EXCEPT !.id = x])
      BY <1>6, <1>14, <1>20, <2>1, <2>2
    <3>4. [NoNode EXCEPT !.id = x] = [id |-> x, kids |-> <<>>]
      BY <1>19
    <3>5. r = start + 1
      BY <1>6, <1>17, <2>2
    <3> QED
      BY <1>16, <1>18, <3>1, <3>2, <3>3, <3>4, <3>5
  <2>3. CASE kind # "string"
    <3>1. ~said.good
      BY <1>3, <1>20, <2>3
    <3>2. ~IsString(x)
      BY <1>6, <1>7, <2>3, StringsAndMarks DEF Reserved
    <3>3. field = Failure
      BY <1>14, <1>20, <2>1, <3>2
    <3> QED
      BY <1>15, <3>1, <3>3
  <2> QED
    BY <2>2, <2>3
<1>21. CASE key = "children"
  <2>1. "effect" # "children"
    OBVIOUS
  <2>2. CASE kind = "array"
    <3>1. Answered(kids, r, s)
      BY <1>1, <1>2, <1>10, <1>12, <1>17, <2>2 DEF ReadsAs
    <3>2. said.good = s.good
      BY <1>3, <1>4, <1>21, <2>1, <2>2
    <3>3. x = OpenBracket /\ ~IsString(x)
      BY <1>6, <2>2, StringsAndMarks DEF Reserved
    <3>4. CASE s.good
      <4>1. kids = Read(r, s.value)
        BY <3>1, <3>4 DEF Answered
      <4>2. field = Read(r, [NoNode EXCEPT !.kids = s.value])
        BY <1>14, <1>16, <1>21, <2>1, <3>3, <4>1
      <4>3. said.value = [id |-> NoId, kids |-> s.value]
        BY <1>3, <1>21, <2>1, <3>2, <3>4
      <4>4. [NoNode EXCEPT !.kids = s.value] = [id |-> NoId, kids |-> s.value]
        BY <1>19
      <4> QED
        BY <1>16, <1>18, <3>2, <3>4, <4>2, <4>3, <4>4
    <3>5. CASE ~s.good
      <4>1. kids = Failure
        BY <3>1, <3>5 DEF Answered
      <4>2. field = Failure
        BY <1>14, <1>15, <1>21, <2>1, <4>1
      <4> QED
        BY <1>15, <3>2, <3>5, <4>2
    <3> QED
      BY <3>4, <3>5
  <2>3. CASE kind # "array"
    <3>1. ~said.good
      BY <1>3, <1>21, <2>3
    <3>2. x # OpenBracket
      BY <1>6, <1>7, <2>3, TokensDiffer, StringsAndMarks DEF Reserved
    <3>3. field = Failure
      BY <1>14, <1>21, <2>1, <3>2
    <3> QED
      BY <1>15, <3>1, <3>3
  <2> QED
    BY <2>2, <2>3
<1>22. CASE key \notin {"effect", "children"}
  <2>1. /\ s.good => skip.ok /\ AfterSpace(t, skip.at) = e
        /\ ~s.good => ~skip.ok
    <3>1. skip = Parser(t)["value"][start] /\ Peek(t, e) \in {Comma, CloseBrace}
      BY <1>1, <1>12
    <3>2. PICK d : d = piece.value
      OBVIOUS
    <3>3. PICK after \in Gaps : after = piece.after
      OBVIOUS
    <3>4. WellSaid(d, s) /\ ReadsAs(d, s) /\ d.what \in {"string", "bare", "array", "object"}
      BY <3>2
    <3>5. /\ Stands(after, t, start + Len(s.tokens)) /\ e = start + Len(s.tokens) + Len(after)
          /\ Peek(t, start + Len(s.tokens) + Len(after)) \in {Comma, CloseBrace}
      BY <1>10, <1>11, <3>1, <3>3
    <3>6. /\ s.good => /\ Parser(t)["value"][start].ok
                        /\ AfterSpace(t, Parser(t)["value"][start].at)
                             = start + Len(s.tokens) + Len(after)
          /\ ~s.good => ~Parser(t)["value"][start].ok
      BY <1>10, <3>4, <3>5, SkippedValue
    <3> QED
      BY <3>1, <3>5, <3>6
  <2>2. said.good = s.good
    BY <1>3, <1>4, <1>22
  <2>3. said.value = NoNode
    BY <1>3, <1>19, <1>22
  <2>4. CASE s.good
    <3>1. field = Read(skip.at, NoNode)
      BY <1>14, <1>22, <2>1, <2>4
    <3> QED
      BY <1>16, <2>1, <2>2, <2>3, <2>4, <3>1
  <2>5. CASE ~s.good
    <3>1. field = Failure
      BY <1>14, <1>22, <2>1, <2>5
    <3> QED
      BY <1>15, <2>2, <2>5, <3>1
  <2> QED
    BY <2>4, <2>5
<1> QED
  BY <1>20, <1>21, <1>22

\* What follows an opening mark or a comma
Opened(mark, before, u) == <<mark>> \o before \o u

OpenedAt(t, p, mark, u, whole, q) ==
  /\ p < q /\ Peek(t, p) = mark /\ AfterSpace(t, p + 1) = q
  /\ Stands(u, t, q) /\ Peek(t, q) = u[1] /\ q + Len(u) = p + Len(whole)

\* How long that is, and that it begins with the mark
LEMMA OpenedTokens ==
  ASSUME NEW mark \in Tokens, NEW before \in Gaps, NEW u \in Seq(Tokens)
  PROVE  /\ Opened(mark, before, u) \in Seq(Tokens)
         /\ Len(Opened(mark, before, u)) = 1 + Len(before) + Len(u)
         /\ Len(Opened(mark, before, u)) > 0 /\ Opened(mark, before, u)[1] = mark
<1>1. PICK a, b, whole : a = <<mark>> /\ b = a \o before /\ whole = Opened(mark, before, u)
  OBVIOUS
<1>2. a \in Seq(Tokens) /\ Len(a) = 1 /\ a[1] = mark
  BY <1>1
<1>3. before \in Seq(Tokens) /\ Len(before) \in {0, 1}
  BY GapsAre
<1>4. Len(a) > 0
  BY <1>2
<1>5. b \in Seq(Tokens) /\ Len(b) = 1 + Len(before) /\ b[1] = mark
  BY <1>1, <1>2, <1>3, <1>4, JoinedTokens
<1>6. whole = b \o u
  BY <1>1 DEF Opened
<1>7. Len(b) > 0
  BY <1>3, <1>5
<1>8. whole \in Seq(Tokens) /\ Len(whole) = Len(b) + Len(u) /\ whole[1] = mark /\ Len(u) \in Nat
  BY <1>5, <1>6, <1>7, JoinedTokens
<1>9. Len(whole) = 1 + Len(before) + Len(u)
  BY <1>5, <1>8
<1>10. Len(whole) > 0
  BY <1>3, <1>8, <1>9
<1> QED
  BY <1>1, <1>8, <1>9, <1>10

\* Behind the mark and white space stands what follows it.
LEMMA OpenedStands ==
  ASSUME NEW t, Len(t) \in Nat, NEW p \in Nat \ {0}, NEW mark \in Tokens, NEW before \in Gaps,
         NEW u \in Seq(Tokens), Len(u) > 0, u[1] # Space, Stands(Opened(mark, before, u), t, p)
  PROVE  \E q \in Nat \ {0} : OpenedAt(t, p, mark, u, Opened(mark, before, u), q)
<1>1. PICK a, b, whole : a = <<mark>> /\ b = a \o before /\ whole = Opened(mark, before, u)
  OBVIOUS
<1>2. a \in Seq(Tokens) /\ Len(a) = 1 /\ a[1] = mark
  BY <1>1
<1>3. before \in Seq(Tokens) /\ Len(before) \in {0, 1}
  BY GapsAre
<1>4. b \in Seq(Tokens) /\ Len(b) = 1 + Len(before)
  BY <1>1, <1>2, <1>3, JoinedTokens
<1>5. whole = b \o u /\ Stands(whole, t, p)
  BY <1>1 DEF Opened
<1>6. Stands(b, t, p) /\ Stands(u, t, p + Len(b))
  BY <1>4, <1>5, StandsBoth
<1>7. Stands(a, t, p) /\ Stands(before, t, p + Len(a))
  BY <1>1, <1>2, <1>3, <1>6, StandsBoth
<1>8. Peek(t, p) = mark
  BY <1>2, <1>7, StandsFirst
<1>9. PICK q \in Nat \ {0} : q = p + 1 + Len(before)
  BY <1>3
<1>10. Stands(u, t, q) /\ p < q
  <2>1. p + Len(b) = q
    BY <1>3, <1>4, <1>9
  <2> QED
    BY <1>3, <1>6, <1>9, <2>1
<1>11. Peek(t, q) = u[1]
  BY <1>9, <1>10, StandsFirst
<1>12. AfterSpace(t, p + 1) = q
  <2>1. Stands(before, t, p + 1) /\ (p + 1) + Len(before) = q /\ p + 1 \in Nat \ {0}
    BY <1>2, <1>3, <1>7, <1>9
  <2>2. Peek(t, (p + 1) + Len(before)) # Space
    BY <1>11, <2>1
  <2> QED
    BY <2>1, <2>2, GapSkipped
<1>13. Len(whole) = 1 + Len(before) + Len(u)
  BY <1>1, OpenedTokens
<1>14. q + Len(u) = p + Len(whole)
  BY <1>3, <1>9, <1>13
<1> QED
  BY <1>1, <1>8, <1>9, <1>10, <1>11, <1>12, <1>14 DEF OpenedAt

\* What each kind of piece says
LEMMA SaysEach ==
  ASSUME NEW piece, NEW said
  PROVE  /\ piece.what = "string" => Says(piece, said) = Said(TRUE, <<piece.string>>, <<>>)
         /\ piece.what = "bare" => Says(piece, said) = Said(TRUE, piece.run, <<>>)
         /\ piece.what = "array" /\ piece.nodes = End =>
              Says(piece, said) = Said(TRUE, Opened(OpenBracket, piece.before, <<CloseBracket>>), <<>>)
         /\ piece.what = "array" /\ piece.nodes # End =>
              Says(piece, said) = Said(said[piece.nodes].good,
                                       Opened(OpenBracket, piece.before, said[piece.nodes].tokens),
                                       said[piece.nodes].value)
         /\ piece.what = "object" /\ piece.fields = End =>
              Says(piece, said) = Said(FALSE, Opened(OpenBrace, piece.before, <<CloseBrace>>), NoNode)
         /\ piece.what = "object" /\ piece.fields # End =>
              Says(piece, said) = Said(said[piece.fields].good
                                         /\ said[piece.fields].value.id \notin {"", NoId},
                                       Opened(OpenBrace, piece.before, said[piece.fields].tokens),
                                       said[piece.fields].value)
<1>1. CASE piece.what = "string"
  BY <1>1 DEF Says
<1>2. CASE piece.what = "bare"
  BY <1>2 DEF Says
<1>3. CASE piece.what = "array"
  BY <1>3 DEF Says, Opened
<1>4. CASE piece.what = "object"
  BY <1>4 DEF Says, Opened
<1> QED
  BY <1>1, <1>2, <1>3, <1>4

LEMMA SaysNodes ==
  ASSUME NEW piece, NEW said, piece.what = "nodes", NEW node, node = said[piece.node],
         NEW s, s = said[piece.rest]
  PROVE  Says(piece, said) =
           IF piece.rest = End
           THEN Said(node.good, node.tokens \o piece.after \o <<CloseBracket>>, <<node.value>>)
           ELSE Said(node.good /\ s.good,
                     node.tokens \o piece.after \o <<Comma>> \o piece.before \o s.tokens,
                     <<node.value>> \o s.value)
BY DEF Says

LEMMA SaysFields ==
  ASSUME NEW piece, NEW said, piece.what = "fields", NEW field,
         field = SaysField(piece, said[piece.value]), NEW s, s = said[piece.rest]
  PROVE  Says(piece, said) =
           IF piece.rest = End
           THEN Said(field.good, field.tokens \o <<CloseBrace>>, field.value)
           ELSE Said(field.good /\ s.good,
                     field.tokens \o <<Comma>> \o piece.before \o s.tokens,
                     Joined(field.value, s.value))
BY DEF Says

\* Of all these pieces the parser reads what they say.
AllSaid(said) == \A d \in DOMAIN said : WellSaid(d, said[d]) /\ ReadsAs(d, said[d])

\* A mark by itself
LEMMA MarkAlone ==
  ASSUME NEW mark \in Tokens
  PROVE  <<mark>> \in Seq(Tokens) /\ Len(<<mark>>) = 1 /\ <<mark>>[1] = mark
OBVIOUS

\* An array is read as what it says; so with the pieces below.
LEMMA ArrayReads ==
  ASSUME NEW said, AllSaid(said), NEW piece, piece.what = "array", piece.before \in Gaps,
         piece.nodes = End \/ (piece.nodes \in DOMAIN said /\ piece.nodes.what = "nodes")
  PROVE  WellSaid(piece, Says(piece, said)) /\ ReadsAs(piece, Says(piece, said))
<1>1. PICK s : s = Says(piece, said)
  OBVIOUS
<1>2. PICK nodes : nodes = said[piece.nodes]
  OBVIOUS
<1>3. PICK before \in Gaps : before = piece.before
  OBVIOUS
<1>4. PICK u : u = IF piece.nodes = End THEN <<CloseBracket>> ELSE nodes.tokens
  OBVIOUS
<1>5. OpenBracket \in Tokens /\ CloseBracket \in Tokens
  BY StringsAndMarks
<1>6. /\ u \in Seq(Tokens) /\ Len(u) > 0
      /\ u[1] = IF piece.nodes = End THEN CloseBracket ELSE OpenBrace
      /\ piece.nodes # End => nodes.good \in BOOLEAN
  <2>1. CASE piece.nodes = End
    <3>1. u = <<CloseBracket>>
      BY <1>4, <2>1
    <3> QED
      BY <1>5, <2>1, <3>1, MarkAlone
  <2>2. CASE piece.nodes # End
    <3>1. WellSaid(piece.nodes, nodes) /\ piece.nodes.what = "nodes" /\ u = nodes.tokens
      BY <1>2, <1>4, <2>2 DEF AllSaid
    <3> QED
      BY <2>2, <3>1 DEF WellSaid
  <2> QED
    BY <2>1, <2>2
<1>7. /\ s.tokens = Opened(OpenBracket, before, u)
      /\ piece.nodes = End => s.good = TRUE /\ s.value = <<>>
      /\ piece.nodes # End => s.good = nodes.good /\ s.value = nodes.value
  <2>1. CASE piece.nodes = End
    <3>1. s = Said(TRUE, Opened(OpenBracket, before, u), <<>>)
      BY <1>1, <1>4, <1>3, <2>1, SaysEach
    <3> QED
      BY <2>1, <3>1 DEF Said
  <2>2. CASE piece.nodes # End
    <3>1. s = Said(nodes.good, Opened(OpenBracket, before, u), nodes.value)
      BY <1>1, <1>2, <1>4, <1>3, <2>2, SaysEach
    <3> QED
      BY <2>2, <3>1 DEF Said
  <2> QED
    BY <2>1, <2>2
<1>8. WellSaid(piece, s)
  <2>1. u \in Seq(Tokens) /\ s.tokens = Opened(OpenBracket, before, u)
    BY <1>6, <1>7
  <2>2. s.tokens \in Seq(Tokens) /\ Len(s.tokens) > 0 /\ s.tokens[1] = OpenBracket
    BY <1>5, <1>3, <2>1, OpenedTokens
  <2>3. s.good \in BOOLEAN
    BY <1>6, <1>7
  <2> QED
    BY <2>2, <2>3 DEF WellSaid
<1>9. ASSUME NEW t, NEW p, Len(t) \in Nat, p \in Nat \ {0}, Stands(s.tokens, t, p)
      PROVE  Answered(Parser(t)["array"][p + 1], p + Len(s.tokens), s)
  <2>1. Stands(Opened(OpenBracket, before, u), t, p)
    BY <1>7, <1>9
  <2>2. u[1] # Space
    BY <1>6, TokensDiffer
  <2>3. PICK q \in Nat \ {0} : OpenedAt(t, p, OpenBracket, u, Opened(OpenBracket, before, u), q)
    BY <1>5, <1>6, <1>9, <1>3, <2>1, <2>2, OpenedStands
  <2>4. AfterSpace(t, p + 1) = q /\ Stands(u, t, q) /\ Peek(t, q) = u[1]
        /\ q + Len(u) = p + Len(s.tokens)
    BY <1>7, <2>3 DEF OpenedAt
  <2>5. PICK r : r = Parser(t)["nodes"][q]
    OBVIOUS
  <2>6. p + 1 \in Nat
    BY <1>9
  <2>7. Parser(t)["array"][p + 1] = ParseArray(t, p + 1, Parser(t))
    BY <1>9, <2>6, ParserIs DEF ParseAt, Kinds
  <2>8. Parser(t)["array"][p + 1]
          = IF u[1] = CloseBracket THEN Read(q + 1, <<>>)
            ELSE IF r.ok THEN Read(r.at + 1, r.value) ELSE Failure
    BY <2>4, <2>5, <2>7, Zenon DEF ParseArray
  <2>9. CASE piece.nodes = End
    <3>1. Len(u) = 1
      BY <1>4, <1>5, <2>9, MarkAlone
    <3>2. Parser(t)["array"][p + 1] = Read(q + 1, <<>>)
      BY <1>6, <2>8, <2>9
    <3> QED
      BY <1>7, <2>4, <2>9, <3>1, <3>2 DEF Answered
  <2>10. CASE piece.nodes # End
    <3>1. ReadsAs(piece.nodes, nodes) /\ piece.nodes.what = "nodes"
      BY <1>2, <2>10 DEF AllSaid
    <3>2. Answered(r, q + Len(u) - 1, nodes)
      BY <1>4, <1>9, <2>3, <2>4, <2>5, <2>10, <3>1 DEF ReadsAs
    <3>3. u[1] # CloseBracket
      BY <1>6, <2>10, TokensDiffer
    <3>4. CASE nodes.good
      <4>1. r = Read(q + Len(u) - 1, nodes.value)
        BY <3>2, <3>4 DEF Answered
      <4>2. r.ok /\ r.at = q + Len(u) - 1 /\ r.value = nodes.value
        BY <4>1 DEF Read
      <4>3. Len(u) \in Nat
        BY <1>6
      <4>4. r.at + 1 = p + Len(s.tokens)
        BY <2>3, <2>4, <4>2, <4>3
      <4>5. Parser(t)["array"][p + 1] = Read(p + Len(s.tokens), nodes.value)
        BY <2>8, <3>3, <4>2, <4>4
      <4> QED
        BY <1>7, <2>10, <3>4, <4>5 DEF Answered
    <3>5. CASE ~nodes.good
      <4>1. r = Failure
        BY <3>2, <3>5 DEF Answered
      <4>2. Parser(t)["array"][p + 1] = Failure
        BY <2>8, <3>3, <4>1 DEF Failure
      <4> QED
        BY <1>7, <2>10, <3>5, <4>2 DEF Answered
    <3> QED
      BY <3>4, <3>5
  <2> QED
    BY <2>9, <2>10
<1>10. ReadsAs(piece, s)
  BY <1>9 DEF ReadsAs
<1> QED
  BY <1>1, <1>8, <1>10

\* An object
LEMMA ObjectReads ==
  ASSUME NEW said, AllSaid(said), NEW piece, piece.what = "object", piece.before \in Gaps,
         piece.fields = End \/ (piece.fields \in DOMAIN said /\ piece.fields.what = "fields")
  PROVE  WellSaid(piece, Says(piece, said)) /\ ReadsAs(piece, Says(piece, said))
<1>1. PICK s : s = Says(piece, said)
  OBVIOUS
<1>2. PICK fields : fields = said[piece.fields]
  OBVIOUS
<1>3. PICK before \in Gaps : before = piece.before
  OBVIOUS
<1>4. PICK u : u = IF piece.fields = End THEN <<CloseBrace>> ELSE fields.tokens
  OBVIOUS
<1>5. OpenBrace \in Tokens /\ CloseBrace \in Tokens
  BY StringsAndMarks
<1>6. /\ u \in Seq(Tokens) /\ Len(u) > 0
      /\ IF piece.fields = End THEN u[1] = CloseBrace ELSE IsString(u[1])
      /\ piece.fields # End => fields.good \in BOOLEAN
  <2>1. CASE piece.fields = End
    <3>1. u = <<CloseBrace>>
      BY <1>4, <2>1
    <3> QED
      BY <1>5, <2>1, <3>1, MarkAlone
  <2>2. CASE piece.fields # End
    <3>1. WellSaid(piece.fields, fields) /\ piece.fields.what = "fields" /\ u = fields.tokens
      BY <1>2, <1>4, <2>2 DEF AllSaid
    <3> QED
      BY <2>2, <3>1 DEF WellSaid
  <2> QED
    BY <2>1, <2>2
<1>7. /\ s.tokens = Opened(OpenBrace, before, u)
      /\ piece.fields = End => s.good = FALSE
      /\ piece.fields # End => s.good = (fields.good /\ fields.value.id \notin {"", NoId})
                               /\ s.value = fields.value
  <2>1. CASE piece.fields = End
    <3>1. s = Said(FALSE, Opened(OpenBrace, before, u), NoNode)
      BY <1>1, <1>4, <1>3, <2>1, SaysEach
    <3> QED
      BY <2>1, <3>1 DEF Said
  <2>2. CASE piece.fields # End
    <3>1. s = Said(fields.good /\ fields.value.id \notin {"", NoId},
                   Opened(OpenBrace, before, u), fields.value)
      BY <1>1, <1>2, <1>4, <1>3, <2>2, SaysEach
    <3> QED
      BY <2>2, <3>1 DEF Said
  <2> QED
    BY <2>1, <2>2
<1>8. WellSaid(piece, s)
  <2>1. u \in Seq(Tokens) /\ s.tokens = Opened(OpenBrace, before, u)
    BY <1>6, <1>7
  <2>2. s.tokens \in Seq(Tokens) /\ Len(s.tokens) > 0 /\ s.tokens[1] = OpenBrace
    BY <1>5, <1>3, <2>1, OpenedTokens
  <2>3. s.good \in BOOLEAN
    BY <1>6, <1>7
  <2> QED
    BY <2>2, <2>3 DEF WellSaid
<1>9. ASSUME NEW t, NEW p, Len(t) \in Nat, p \in Nat \ {0}, Stands(s.tokens, t, p)
      PROVE  Answered(Parser(t)["object"][p], p + Len(s.tokens), s)
  <2>1. Stands(Opened(OpenBrace, before, u), t, p)
    BY <1>7, <1>9
  <2>2. u[1] # Space
    BY <1>6, TokensDiffer, StringsAndMarks DEF Reserved
  <2>3. PICK q \in Nat \ {0} : OpenedAt(t, p, OpenBrace, u, Opened(OpenBrace, before, u), q)
    BY <1>5, <1>6, <1>9, <1>3, <2>1, <2>2, OpenedStands
  <2>4. AfterSpace(t, p + 1) = q /\ Stands(u, t, q) /\ Peek(t, q) = u[1]
        /\ q + Len(u) = p + Len(s.tokens) /\ Peek(t, p) = OpenBrace
    BY <1>7, <2>3 DEF OpenedAt
  <2>5. PICK r : r = Parser(t)["fields"][q]
    OBVIOUS
  <2>6. p \in Nat
    BY <1>9
  <2>7. Parser(t)["object"][p] = ParseObject(t, p, Parser(t))
    BY <1>9, <2>6, ParserIs DEF ParseAt, Kinds
  <2>8. Parser(t)["object"][p] = IF r.ok /\ r.value.id \notin {"", NoId} THEN r ELSE Failure
    BY <2>4, <2>5, <2>7, Zenon DEF ParseObject
  <2>9. CASE piece.fields = End
    <3>1. Peek(t, q) = CloseBrace /\ q \in Nat
      BY <1>6, <2>4, <2>9
    <3>2. r = ParseFields(t, q, Parser(t))
      BY <1>9, <2>5, <3>1, ParserIs DEF ParseAt, Kinds
    <3>3. ParseField(t, q, Parser(t)) = Failure
      BY <3>1, StringsAndMarks DEF ParseField, Reserved
    <3>4. ~Failure.ok
      BY DEF Failure
    <3>5. r = Failure
      BY <3>2, <3>3, <3>4, FieldsCases
    <3> QED
      BY <1>7, <2>8, <2>9, <3>4, <3>5 DEF Answered
  <2>10. CASE piece.fields # End
    <3>1. ReadsAs(piece.fields, fields) /\ piece.fields.what = "fields"
      BY <1>2, <2>10 DEF AllSaid
    <3>2. Answered(r, q + Len(u), fields)
      BY <1>4, <1>9, <2>3, <2>4, <2>5, <2>10, <3>1 DEF ReadsAs
    <3>3. CASE fields.good
      <4>1. r = Read(p + Len(s.tokens), fields.value)
        BY <2>4, <3>2, <3>3 DEF Answered
      <4>2. r.ok /\ r.value = fields.value
        BY <4>1 DEF Read
      <4> QED
        BY <1>7, <2>8, <2>10, <3>3, <4>1, <4>2 DEF Answered
    <3>4. CASE ~fields.good
      <4>1. ~r.ok
        BY <3>2, <3>4 DEF Answered, Failure
      <4> QED
        BY <1>7, <2>8, <2>10, <3>4, <4>1 DEF Answered
    <3> QED
      BY <3>3, <3>4
  <2> QED
    BY <2>9, <2>10
<1>10. ReadsAs(piece, s)
  BY <1>9 DEF ReadsAs
<1> QED
  BY <1>1, <1>8, <1>10

\* A comma may be taken with what comes before it or with what comes after it.
LEMMA CommaOpened ==
  ASSUME NEW u \in Seq(Tokens), NEW before \in Gaps, NEW v \in Seq(Tokens)
  PROVE  u \o <<Comma>> \o before \o v = u \o Opened(Comma, before, v)
<1>1. PICK a : a = <<Comma>>
  OBVIOUS
<1>2. a \in Seq(Tokens) /\ before \in Seq(Tokens)
  BY <1>1, MarkAlone, StringsAndMarks, GapsAre
<1>3. a \o before \in Seq(Tokens)
  BY <1>2, JoinedTokens
<1>4. (u \o a) \o before = u \o (a \o before)
  BY <1>2, ConcatAssociative, SMTT(30)
<1>5. (u \o (a \o before)) \o v = u \o ((a \o before) \o v)
  BY <1>3, ConcatAssociative, SMTT(30)
<1> QED
  BY <1>1, <1>4, <1>5 DEF Opened

\* What the end of a list or another of its items follows
Followed(u, piece, s, mark) ==
  IF piece.rest = End THEN u \o <<mark>> ELSE u \o <<Comma>> \o piece.before \o s.tokens

\* The mark that follows stands at m; behind a comma the rest stands at q.
FollowedAt(t, p, u, piece, s, mark) ==
  LET m == p + Len(u)
  IN  IF piece.rest = End
      THEN Peek(t, m) = mark /\ m + 1 = p + Len(Followed(u, piece, s, mark))
      ELSE \E q \in Nat \ {0} :
             /\ Peek(t, m) = Comma /\ AfterSpace(t, m + 1) = q /\ Stands(s.tokens, t, q)
             /\ q + Len(s.tokens) = p + Len(Followed(u, piece, s, mark))

\* What follows stands there.
LEMMA FollowedStands ==
  ASSUME NEW u \in Seq(Tokens), Len(u) > 0, NEW piece, piece.before \in Gaps, NEW mark \in Tokens,
         NEW s, piece.rest # End => s.tokens \in Seq(Tokens) /\ Len(s.tokens) > 0 /\ s.tokens[1] # Space
  PROVE  /\ Followed(u, piece, s, mark) \in Seq(Tokens) /\ Len(Followed(u, piece, s, mark)) > 0
         /\ Followed(u, piece, s, mark)[1] = u[1]
         /\ \A t, p : Len(t) \in Nat /\ p \in Nat \ {0} /\ Stands(Followed(u, piece, s, mark), t, p) =>
              Stands(u, t, p) /\ FollowedAt(t, p, u, piece, s, mark)
<1>1. PICK before \in Gaps : before = piece.before
  OBVIOUS
<1>2. PICK whole : whole = Followed(u, piece, s, mark)
  OBVIOUS
<1>3. PICK v : v = IF piece.rest = End THEN <<mark>> ELSE Opened(Comma, before, s.tokens)
  OBVIOUS
<1>4. Comma \in Tokens
  BY StringsAndMarks
<1>5. v \in Seq(Tokens) /\ Len(v) > 0 /\ (piece.rest = End => Len(v) = 1 /\ v[1] = mark)
  <2>1. CASE piece.rest = End
    BY <1>3, <2>1, MarkAlone
  <2>2. CASE piece.rest # End
    BY <1>1, <1>3, <1>4, <2>2, OpenedTokens
  <2> QED
    BY <2>1, <2>2
<1>6. whole = u \o v
  <2>1. CASE piece.rest = End
    BY <1>2, <1>3, <2>1 DEF Followed
  <2>2. CASE piece.rest # End
    <3>1. u \o <<Comma>> \o before \o s.tokens = u \o Opened(Comma, before, s.tokens)
      BY <1>1, <2>2, CommaOpened
    <3> QED
      BY <1>1, <1>2, <1>3, <2>2, <3>1 DEF Followed
  <2> QED
    BY <2>1, <2>2
<1>7. whole \in Seq(Tokens) /\ Len(whole) = Len(u) + Len(v) /\ whole[1] = u[1]
      /\ Len(u) \in Nat /\ Len(v) \in Nat
  BY <1>5, <1>6, JoinedTokens
<1>8. Len(whole) > 0
  BY <1>5, <1>7
<1>9. ASSUME NEW t, NEW p, Len(t) \in Nat, p \in Nat \ {0}, Stands(whole, t, p)
      PROVE  Stands(u, t, p) /\ FollowedAt(t, p, u, piece, s, mark)
  <2>1. Stands(u, t, p) /\ Stands(v, t, p + Len(u))
    BY <1>5, <1>6, <1>9, StandsBoth
  <2>2. PICK m \in Nat \ {0} : m = p + Len(u)
    BY <1>7, <1>9
  <2>3. Stands(v, t, m)
    BY <2>1, <2>2
  <2>4. m + Len(v) = p + Len(whole)
    BY <1>7, <1>9, <2>2
  <2>5. CASE piece.rest = End
    <3>1. Peek(t, m) = mark
      BY <1>5, <1>9, <2>2, <2>3, <2>5, StandsFirst
    <3>2. m + 1 = p + Len(whole)
      BY <1>5, <2>4, <2>5
    <3> QED
      BY <1>2, <2>1, <2>2, <2>5, <3>1, <3>2 DEF FollowedAt
  <2>6. CASE piece.rest # End
    <3>1. Stands(Opened(Comma, before, s.tokens), t, m) /\ v = Opened(Comma, before, s.tokens)
      BY <1>3, <2>3, <2>6
    <3>2. s.tokens \in Seq(Tokens) /\ Len(s.tokens) > 0 /\ s.tokens[1] # Space
      BY <2>6
    <3>3. PICK q \in Nat \ {0} :
            OpenedAt(t, m, Comma, s.tokens, Opened(Comma, before, s.tokens), q)
      BY <1>1, <1>4, <1>9, <2>2, <3>1, <3>2, OpenedStands
    <3>4. /\ Peek(t, m) = Comma /\ AfterSpace(t, m + 1) = q /\ Stands(s.tokens, t, q)
          /\ q + Len(s.tokens) = p + Len(whole)
      BY <2>4, <3>1, <3>3 DEF OpenedAt
    <3> QED
      BY <1>2, <2>1, <2>2, <2>6, <3>3, <3>4 DEF FollowedAt
  <2> QED
    BY <2>5, <2>6
<1> QED
  BY <1>2, <1>7, <1>8, <1>9

\* A node and those after it
LEMMA NodesReads ==
  ASSUME NEW said, AllSaid(said), NEW piece, piece.what = "nodes", piece.before \in Gaps,
         piece.after \in Gaps, piece.node \in DOMAIN said, piece.node.what = "object",
         piece.rest = End \/ (piece.rest \in DOMAIN said /\ piece.rest.what = "nodes")
  PROVE  WellSaid(piece, Says(piece, said)) /\ ReadsAs(piece, Says(piece, said))
<1>1. PICK whole : whole = Says(piece, said)
  OBVIOUS
<1>2. PICK node : node = said[piece.node]
  OBVIOUS
<1>3. PICK s : s = said[piece.rest]
  OBVIOUS
<1>4. PICK after \in Gaps : after = piece.after
  OBVIOUS
<1>5. WellSaid(piece.node, node) /\ ReadsAs(piece.node, node)
  BY <1>2 DEF AllSaid
<1>6. /\ node.good \in BOOLEAN /\ node.tokens \in Seq(Tokens) /\ Len(node.tokens) > 0
      /\ node.tokens[1] = OpenBrace
  BY <1>5 DEF WellSaid
<1>7. piece.rest # End => /\ WellSaid(piece.rest, s) /\ ReadsAs(piece.rest, s)
                          /\ piece.rest.what = "nodes"
  BY <1>3 DEF AllSaid
<1>8. piece.rest # End => /\ s.good \in BOOLEAN /\ s.tokens \in Seq(Tokens) /\ Len(s.tokens) > 0
                          /\ s.tokens[1] = OpenBrace /\ s.tokens[1] # Space
  BY <1>7, TokensDiffer DEF WellSaid
<1>9. PICK u : u = node.tokens \o after
  OBVIOUS
<1>10. after \in Seq(Tokens) /\ Len(after) \in {0, 1}
  BY GapsAre
<1>11. u \in Seq(Tokens) /\ Len(u) = Len(node.tokens) + Len(after) /\ Len(u) > 0 /\ u[1] = OpenBrace
       /\ Len(node.tokens) \in Nat
  BY <1>6, <1>9, <1>10, JoinedTokens
<1>12. CloseBracket \in Tokens
  BY StringsAndMarks
<1>13. /\ whole.tokens = Followed(u, piece, s, CloseBracket)
       /\ piece.rest = End => whole.good = node.good /\ whole.value = <<node.value>>
       /\ piece.rest # End => /\ whole.good = (node.good /\ s.good)
                              /\ whole.value = <<node.value>> \o s.value
  <2>1. whole = IF piece.rest = End
                THEN Said(node.good, u \o <<CloseBracket>>, <<node.value>>)
                ELSE Said(node.good /\ s.good, u \o <<Comma>> \o piece.before \o s.tokens,
                          <<node.value>> \o s.value)
    BY <1>1, <1>2, <1>3, <1>4, <1>9, SaysNodes
  <2> QED
    BY <2>1 DEF Said, Followed
<1>14. /\ whole.tokens \in Seq(Tokens) /\ Len(whole.tokens) > 0 /\ whole.tokens[1] = OpenBrace
       /\ \A t, p : Len(t) \in Nat /\ p \in Nat \ {0} /\ Stands(whole.tokens, t, p) =>
            Stands(u, t, p) /\ FollowedAt(t, p, u, piece, s, CloseBracket)
  <2>1. PICK w : w = Followed(u, piece, s, CloseBracket)
    OBVIOUS
  <2>2. piece.rest # End => s.tokens \in Seq(Tokens) /\ Len(s.tokens) > 0 /\ s.tokens[1] # Space
    BY <1>8
  <2>3. /\ w \in Seq(Tokens) /\ Len(w) > 0 /\ w[1] = u[1]
        /\ \A t, p : Len(t) \in Nat /\ p \in Nat \ {0} /\ Stands(w, t, p) =>
             Stands(u, t, p) /\ FollowedAt(t, p, u, piece, s, CloseBracket)
    BY <1>11, <1>12, <2>1, <2>2, FollowedStands
  <2> QED
    BY <1>11, <1>13, <2>1, <2>3
<1>15. WellSaid(piece, whole)
  <2>1. whole.good \in BOOLEAN
    BY <1>6, <1>8, <1>13
  <2> QED
    BY <1>14, <2>1 DEF WellSaid
<1>16. ASSUME NEW t, NEW p, Len(t) \in Nat, p \in Nat \ {0}, Stands(whole.tokens, t, p)
       PROVE  Answered(Parser(t)["nodes"][p], p + Len(whole.tokens) - 1, whole)
  <2>1. Stands(u, t, p) /\ FollowedAt(t, p, u, piece, s, CloseBracket)
    BY <1>14, <1>16
  <2>2. PICK m \in Nat \ {0} : m = p + Len(u)
    BY <1>11, <1>16
  <2>3. Stands(node.tokens, t, p) /\ Stands(after, t, p + Len(node.tokens))
    BY <1>6, <1>9, <1>10, <1>16, <2>1, StandsBoth
  <2>4. PICK e \in Nat \ {0} : e = p + Len(node.tokens)
    BY <1>11, <1>16
  <2>5. m = e + Len(after)
    BY <1>10, <1>11, <1>16, <2>2, <2>4
  <2>6. Peek(t, m) = IF piece.rest = End THEN CloseBracket ELSE Comma
    BY <2>1, <2>2 DEF FollowedAt
  <2>7. AfterSpace(t, e) = m
    <3>1. Peek(t, e + Len(after)) # Space
      BY <2>5, <2>6, TokensDiffer
    <3> QED
      BY <1>16, <2>3, <2>4, <2>5, <3>1, GapSkipped
  <2>8. PICK f : f = Parser(t)
    OBVIOUS
  <2>9. PICK r : r = f["object"][p]
    OBVIOUS
  <2>10. Answered(r, e, node)
    BY <1>5, <1>16, <2>3, <2>4, <2>8, <2>9 DEF ReadsAs
  <2>11. p \in Nat
    BY <1>16
  <2>12. f["nodes"][p] = ParseNodes(t, p, f)
    BY <1>16, <2>8, <2>11, ParserIs DEF ParseAt, Kinds
  <2>13. ~Failure.ok
    BY DEF Failure
  <2>14. CASE ~node.good
    <3>1. r = Failure
      BY <2>10, <2>14 DEF Answered
    <3>2. ~whole.good
      BY <1>6, <1>8, <1>13, <2>14
    <3>3. ~r.ok
      BY <2>13, <3>1
    <3>4. ParseNodes(t, p, f) = Failure
      BY <2>9, <3>3, NodesCases
    <3> QED
      BY <2>8, <2>12, <3>2, <3>4 DEF Answered
  <2>15. CASE node.good
    <3>1. r.ok /\ r.at = e /\ r.value = node.value
      BY <2>10, <2>15 DEF Answered, Read
    <3>2. m = AfterSpace(t, r.at)
      BY <2>7, <3>1
    <3>3. CASE piece.rest = End
      <4>1. Peek(t, m) = CloseBracket /\ m + 1 = p + Len(whole.tokens)
        BY <1>13, <2>1, <2>2, <3>3 DEF FollowedAt
      <4>2. ParseNodes(t, p, f) = Read(m, <<node.value>>)
        BY <2>9, <3>1, <3>2, <4>1, NodesCases
      <4>3. Len(whole.tokens) \in Nat
        BY <1>14
      <4>4. m = p + Len(whole.tokens) - 1
        BY <1>16, <2>2, <4>1, <4>3
      <4>5. whole.good = node.good /\ whole.value = <<node.value>>
        BY <1>13, <3>3
      <4> QED
        BY <2>8, <2>12, <2>15, <4>2, <4>4, <4>5 DEF Answered
    <3>4. CASE piece.rest # End
      <4>1. PICK q \in Nat \ {0} :
              /\ Peek(t, m) = Comma /\ AfterSpace(t, m + 1) = q /\ Stands(s.tokens, t, q)
              /\ q + Len(s.tokens) = p + Len(whole.tokens)
        BY <1>13, <2>1, <2>2, <3>4 DEF FollowedAt
      <4>2. PICK g : g = f["nodes"][q]
        OBVIOUS
      <4>3. g = f["nodes"][AfterSpace(t, m + 1)]
        BY <4>1, <4>2
      <4>4. Answered(g, q + Len(s.tokens) - 1, s)
        BY <1>7, <1>16, <2>8, <3>4, <4>1, <4>2 DEF ReadsAs
      <4>5. whole.good = (node.good /\ s.good) /\ whole.value = <<node.value>> \o s.value
        BY <1>13, <3>4
      <4>6. CASE s.good
        <5>1. q + Len(s.tokens) - 1 = p + Len(whole.tokens) - 1
          <6>1. Len(s.tokens) \in Nat /\ Len(whole.tokens) \in Nat
            BY <1>8, <1>14, <3>4
          <6> QED
            BY <1>16, <4>1, <6>1
        <5>2. g = Read(q + Len(s.tokens) - 1, s.value)
          BY <4>4, <4>6 DEF Answered
        <5>3. g = Read(p + Len(whole.tokens) - 1, s.value)
          BY <5>1, <5>2
        <5>4. g.ok /\ g.at = p + Len(whole.tokens) - 1 /\ g.value = s.value
          BY <5>3 DEF Read
        <5>5. ParseNodes(t, p, f) = Read(g.at, <<r.value>> \o g.value)
          BY <2>9, <3>1, <3>2, <4>1, <4>3, <5>4, NodesCases
        <5> QED
          BY <2>8, <2>12, <2>15, <3>1, <4>5, <4>6, <5>4, <5>5 DEF Answered
      <4>7. CASE ~s.good
        <5>1. ~g.ok
          BY <2>13, <4>4, <4>7 DEF Answered
        <5>2. ParseNodes(t, p, f) = Failure
          BY <2>9, <3>1, <3>2, <4>1, <4>3, <5>1, NodesCases
        <5> QED
          BY <2>8, <2>12, <4>5, <4>7, <5>2 DEF Answered
      <4> QED
        BY <4>6, <4>7
    <3> QED
      BY <3>3, <3>4
  <2> QED
    BY <2>14, <2>15
<1>17. ReadsAs(piece, whole)
  BY <1>16 DEF ReadsAs
<1> QED
  BY <1>1, <1>15, <1>17

\* A field begins with its key.
LEMMA FieldSaid ==
  ASSUME NEW piece, NEW s, piece.key \in Strings, piece.colon \in Gaps, piece.space \in Gaps,
         piece.after \in Gaps, s.tokens \in Seq(Tokens), Len(s.tokens) > 0, s.good \in BOOLEAN
  PROVE  /\ SaysField(piece, s).good \in BOOLEAN
         /\ SaysField(piece, s).tokens \in Seq(Tokens) /\ Len(SaysField(piece, s).tokens) > 0
         /\ SaysField(piece, s).tokens[1] = piece.key
<1>1. PICK field : field = SaysField(piece, s)
  OBVIOUS
<1>2. /\ field.good = (s.good /\ (piece.key = "effect" => piece.value.what = "string")
                              /\ (piece.key = "children" => piece.value.what = "array"))
      /\ field.tokens = <<piece.key>> \o piece.colon \o <<Colon>> \o piece.space \o s.tokens \o piece.after
  BY <1>1, Zenon DEF SaysField, Said
<1>3. PICK a : a = <<piece.key>>
  OBVIOUS
<1>4. PICK b : b = a \o piece.colon
  OBVIOUS
<1>5. PICK c : c = b \o <<Colon>>
  OBVIOUS
<1>6. PICK d : d = c \o piece.space
  OBVIOUS
<1>7. PICK e : e = d \o s.tokens
  OBVIOUS
<1>8. /\ piece.colon \in Seq(Tokens) /\ Len(piece.colon) >= 0
      /\ piece.space \in Seq(Tokens) /\ Len(piece.space) >= 0
      /\ piece.after \in Seq(Tokens) /\ Len(piece.after) >= 0
      /\ <<Colon>> \in Seq(Tokens) /\ Len(<<Colon>>) >= 0
  BY GapsAre, MarkAlone, StringsAndMarks
<1>9. a \in Seq(Tokens) /\ Len(a) > 0 /\ a[1] = piece.key
  BY <1>3, StringsAndMarks, MarkAlone
<1>10. ASSUME NEW v \in Seq(Tokens), NEW w \in Seq(Tokens), Len(v) > 0
       PROVE  v \o w \in Seq(Tokens) /\ Len(v \o w) > 0 /\ (v \o w)[1] = v[1]
  <2>1. PICK x : x = v \o w
    OBVIOUS
  <2>2. x \in Seq(Tokens) /\ Len(x) = Len(v) + Len(w) /\ Len(v) \in Nat /\ Len(w) \in Nat /\ x[1] = v[1]
    BY <1>10, <2>1, JoinedTokens
  <2>3. Len(x) > 0
    BY <1>10, <2>2
  <2> QED
    BY <2>1, <2>2, <2>3
<1>11. b \in Seq(Tokens) /\ Len(b) > 0 /\ b[1] = piece.key
  BY <1>4, <1>8, <1>9, <1>10
<1>12. c \in Seq(Tokens) /\ Len(c) > 0 /\ c[1] = piece.key
  BY <1>5, <1>8, <1>10, <1>11
<1>13. d \in Seq(Tokens) /\ Len(d) > 0 /\ d[1] = piece.key
  BY <1>6, <1>8, <1>10, <1>12
<1>14. e \in Seq(Tokens) /\ Len(e) > 0 /\ e[1] = piece.key
  BY <1>7, <1>10, <1>13
<1>15. field.tokens = e \o piece.after
  BY <1>2, <1>3, <1>4, <1>5, <1>6, <1>7
<1>16. field.tokens \in Seq(Tokens) /\ Len(field.tokens) > 0 /\ field.tokens[1] = piece.key
  BY <1>8, <1>10, <1>14, <1>15
<1>17. field.good \in BOOLEAN
  BY <1>2
<1> QED
  BY <1>1, <1>16, <1>17

\* A field and those after it
LEMMA FieldsReads ==
  ASSUME NEW said, AllSaid(said), NEW piece, piece.what = "fields", piece.before \in Gaps,
         piece.after \in Gaps, piece.colon \in Gaps, piece.space \in Gaps, piece.key \in Strings,
         piece.value \in DOMAIN said,
         piece.value.what \in {"string", "bare", "array", "object"},
         piece.rest = End \/ (piece.rest \in DOMAIN said /\ piece.rest.what = "fields")
  PROVE  WellSaid(piece, Says(piece, said)) /\ ReadsAs(piece, Says(piece, said))
<1>1. PICK whole : whole = Says(piece, said)
  OBVIOUS
<1>2. PICK v : v = said[piece.value]
  OBVIOUS
<1>3. PICK s : s = said[piece.rest]
  OBVIOUS
<1>4. PICK field : field = SaysField(piece, v)
  OBVIOUS
<1>5. WellSaid(piece.value, v) /\ ReadsAs(piece.value, v)
  BY <1>2 DEF AllSaid
<1>6. v.good \in BOOLEAN /\ v.tokens \in Seq(Tokens) /\ Len(v.tokens) > 0
  BY <1>5 DEF WellSaid
<1>7. piece.rest # End => /\ WellSaid(piece.rest, s) /\ ReadsAs(piece.rest, s)
                          /\ piece.rest.what = "fields"
  BY <1>3 DEF AllSaid
<1>8. piece.rest # End => /\ s.good \in BOOLEAN /\ s.tokens \in Seq(Tokens) /\ Len(s.tokens) > 0
                          /\ IsString(s.tokens[1]) /\ s.tokens[1] # Space
  BY <1>7, StringsAndMarks DEF WellSaid, Reserved
<1>9. PICK u : u = field.tokens
  OBVIOUS
<1>10. field.good \in BOOLEAN /\ u \in Seq(Tokens) /\ Len(u) > 0 /\ u[1] = piece.key
  BY <1>4, <1>6, <1>9, FieldSaid
<1>11. IsString(u[1])
  BY <1>10, StringsAndMarks
<1>12. CloseBrace \in Tokens
  BY StringsAndMarks
<1>13. /\ whole.tokens = Followed(u, piece, s, CloseBrace)
       /\ piece.rest = End => whole.good = field.good /\ whole.value = field.value
       /\ piece.rest # End => /\ whole.good = (field.good /\ s.good)
                              /\ whole.value = Joined(field.value, s.value)
  <2>1. whole = IF piece.rest = End
                THEN Said(field.good, u \o <<CloseBrace>>, field.value)
                ELSE Said(field.good /\ s.good, u \o <<Comma>> \o piece.before \o s.tokens,
                          Joined(field.value, s.value))
    BY <1>1, <1>2, <1>3, <1>4, <1>9, SaysFields
  <2> QED
    BY <2>1 DEF Said, Followed
<1>14. /\ whole.tokens \in Seq(Tokens) /\ Len(whole.tokens) > 0 /\ whole.tokens[1] = u[1]
       /\ \A t, p : Len(t) \in Nat /\ p \in Nat \ {0} /\ Stands(whole.tokens, t, p) =>
            Stands(u, t, p) /\ FollowedAt(t, p, u, piece, s, CloseBrace)
  <2>1. PICK w : w = Followed(u, piece, s, CloseBrace)
    OBVIOUS
  <2>2. piece.rest # End => s.tokens \in Seq(Tokens) /\ Len(s.tokens) > 0 /\ s.tokens[1] # Space
    BY <1>8
  <2>3. /\ w \in Seq(Tokens) /\ Len(w) > 0 /\ w[1] = u[1]
        /\ \A t, p : Len(t) \in Nat /\ p \in Nat \ {0} /\ Stands(w, t, p) =>
             Stands(u, t, p) /\ FollowedAt(t, p, u, piece, s, CloseBrace)
    BY <1>10, <1>12, <2>1, <2>2, FollowedStands
  <2> QED
    BY <1>13, <2>1, <2>3
<1>15. WellSaid(piece, whole)
  <2>1. whole.good \in BOOLEAN
    BY <1>8, <1>10, <1>13
  <2> QED
    BY <1>11, <1>14, <2>1 DEF WellSaid
<1>16. ASSUME NEW t, NEW p, Len(t) \in Nat, p \in Nat \ {0}, Stands(whole.tokens, t, p)
       PROVE  Answered(Parser(t)["fields"][p], p + Len(whole.tokens), whole)
  <2>1. Stands(u, t, p) /\ FollowedAt(t, p, u, piece, s, CloseBrace)
    BY <1>14, <1>16
  <2>2. PICK m \in Nat \ {0} : m = p + Len(u)
    BY <1>10, <1>16
  <2>3. Peek(t, m) = IF piece.rest = End THEN CloseBrace ELSE Comma
    BY <2>1, <2>2 DEF FollowedAt
  <2>4. PICK f : f = Parser(t)
    OBVIOUS
  <2>5. PICK r : r = ParseField(t, p, f)
    OBVIOUS
  <2>6. /\ field.good => r.ok /\ AfterSpace(t, r.at) = m /\ r.value = field.value
        /\ ~field.good => ~r.ok
    <3>1. m = p + Len(field.tokens) /\ Peek(t, m) \in {Comma, CloseBrace} /\ Stands(field.tokens, t, p)
      BY <1>9, <2>1, <2>2, <2>3
    <3>2. r = ParseField(t, p, Parser(t))
      BY <2>4, <2>5
    <3> QED
      BY <1>4, <1>5, <1>16, <3>1, <3>2, FieldReads
  <2>7. p \in Nat
    BY <1>16
  <2>8. f["fields"][p] = ParseFields(t, p, f)
    BY <1>16, <2>4, <2>7, ParserIs DEF ParseAt, Kinds
  <2>9. ~Failure.ok
    BY DEF Failure
  <2>10. CASE ~field.good
    <3>1. ~whole.good
      BY <1>8, <1>10, <1>13, <2>10
    <3>2. ~r.ok
      BY <2>6, <2>10
    <3>3. ParseFields(t, p, f) = Failure
      BY <2>5, <3>2, FieldsCases
    <3> QED
      BY <2>4, <2>8, <3>1, <3>3 DEF Answered
  <2>11. CASE field.good
    <3>1. r.ok /\ r.value = field.value /\ m = AfterSpace(t, r.at)
      BY <2>6, <2>11
    <3>2. CASE piece.rest = End
      <4>1. Peek(t, m) = CloseBrace /\ m + 1 = p + Len(whole.tokens)
        BY <1>13, <2>1, <2>2, <3>2 DEF FollowedAt
      <4>2. ParseFields(t, p, f) = Read(m + 1, r.value)
        BY <2>5, <3>1, <4>1, FieldsCases
      <4>3. whole.good = field.good /\ whole.value = field.value
        BY <1>13, <3>2
      <4> QED
        BY <2>4, <2>8, <2>11, <3>1, <4>1, <4>2, <4>3 DEF Answered
    <3>3. CASE piece.rest # End
      <4>1. PICK q \in Nat \ {0} :
              /\ Peek(t, m) = Comma /\ AfterSpace(t, m + 1) = q /\ Stands(s.tokens, t, q)
              /\ q + Len(s.tokens) = p + Len(whole.tokens)
        BY <1>13, <2>1, <2>2, <3>3 DEF FollowedAt
      <4>2. PICK g : g = f["fields"][q]
        OBVIOUS
      <4>3. g = f["fields"][AfterSpace(t, m + 1)]
        BY <4>1, <4>2
      <4>4. Answered(g, q + Len(s.tokens), s)
        BY <1>7, <1>16, <2>4, <3>3, <4>1, <4>2 DEF ReadsAs
      <4>5. whole.good = (field.good /\ s.good) /\ whole.value = Joined(field.value, s.value)
        BY <1>13, <3>3
      <4>6. CASE s.good
        <5>1. g = Read(p + Len(whole.tokens), s.value)
          BY <4>1, <4>4, <4>6 DEF Answered
        <5>2. g.ok /\ g.at = p + Len(whole.tokens) /\ g.value = s.value
          BY <5>1 DEF Read
        <5>3. ParseFields(t, p, f) = Read(g.at, Joined(r.value, g.value))
          BY <2>5, <3>1, <4>1, <4>3, <5>2, FieldsCases
        <5> QED
          BY <2>4, <2>8, <2>11, <3>1, <4>5, <4>6, <5>2, <5>3 DEF Answered
      <4>7. CASE ~s.good
        <5>1. ~g.ok
          BY <2>9, <4>4, <4>7 DEF Answered
        <5>2. ParseFields(t, p, f) = Failure
          BY <2>5, <3>1, <4>1, <4>3, <5>1, FieldsCases
        <5> QED
          BY <2>4, <2>8, <4>5, <4>7, <5>2 DEF Answered
      <4> QED
        BY <4>6, <4>7
    <3> QED
      BY <3>2, <3>3
  <2> QED
    BY <2>10, <2>11
<1>17. ReadsAs(piece, whole)
  BY <1>16 DEF ReadsAs
<1> QED
  BY <1>1, <1>15, <1>17

\* Whatever its parts, a piece is read as what it says.
LEMMA PieceReads ==
  ASSUME NEW said, AllSaid(said), NEW piece \in Pieces(DOMAIN said)
  PROVE  WellSaid(piece, Says(piece, said)) /\ ReadsAs(piece, Says(piece, said))
<1>1. PICK s : s = Says(piece, said)
  OBVIOUS
<1>2. CASE piece.what = "string" /\ piece.string \in Strings
  <2>1. s = Said(TRUE, <<piece.string>>, <<>>)
    BY <1>1, <1>2, SaysEach
  <2>2. s.good = TRUE /\ s.tokens = <<piece.string>>
    BY <2>1 DEF Said
  <2>3. s.tokens \in Seq(Tokens) /\ Len(s.tokens) > 0
    BY <1>2, <2>2, StringsAndMarks, MarkAlone
  <2> QED
    BY <1>1, <1>2, <2>1, <2>2, <2>3 DEF WellSaid, ReadsAs
<1>3. CASE piece.what = "bare" /\ piece.run \in Runs
  <2>1. s = Said(TRUE, piece.run, <<>>)
    BY <1>1, <1>3, SaysEach
  <2>2. s.good = TRUE /\ s.tokens = piece.run
    BY <2>1 DEF Said
  <2>3. piece.run \in Seq({Bare, Colon, Space}) /\ Len(piece.run) > 0
    BY <1>3 DEF Runs
  <2>4. {Bare, Colon, Space} \subseteq Tokens
    BY StringsAndMarks
  <2>5. s.tokens \in Seq(Tokens) /\ Len(s.tokens) > 0
    BY <2>2, <2>3, <2>4
  <2> QED
    BY <1>1, <1>3, <2>1, <2>2, <2>5 DEF WellSaid, ReadsAs
<1>4. CASE piece.what = "array"
  BY <1>4, PieceCases, ArrayReads
<1>5. CASE piece.what = "object"
  BY <1>5, PieceCases, ObjectReads
<1>6. CASE piece.what = "nodes"
  BY <1>6, PieceCases, NodesReads
<1>7. CASE piece.what = "fields"
  BY <1>7, PieceCases, FieldsReads
<1> QED
  BY <1>2, <1>3, <1>4, <1>5, <1>6, <1>7, PieceCases

-------------------------------------------------------------------------------
(* The documents of so many levels *)

\* What the documents of one level more say
DocumentLevel(k, below) ==
  IF k = 0 THEN <<>> ELSE [piece \in Pieces(DOMAIN below) |-> Says(piece, below)]

\* The function that Documents is defined by
DocumentLevels(f, depth) == f = [d \in 0..depth |-> DocumentLevel(d, f[d - 1])]

\* There is one: by induction over the levels.
LEMMA DocumentLevelsExist ==
  ASSUME NEW n \in Nat
  PROVE  \E f : DocumentLevels(f, n)
<1>1. PICK T : T = {k \in Nat : \E f : DocumentLevels(f, k)}
  OBVIOUS
<1>2. ASSUME NEW b, NEW c PROVE DocumentLevel(0, b) = DocumentLevel(0, c)
  BY DEF DocumentLevel
<1>3. 0 \in T
  <2>1. PICK f : f = [d \in 0..0 |-> DocumentLevel(0, <<>>)]
    OBVIOUS
  <2>2. ASSUME NEW d \in 0..0 PROVE f[d] = DocumentLevel(d, f[d - 1])
    <3>1. d = 0
      OBVIOUS
    <3>2. f[0] = DocumentLevel(0, <<>>)
      BY <2>1, 0 \in 0..0
    <3>3. f[0] = DocumentLevel(0, f[0 - 1])
      BY <1>2, <3>2, Zenon
    <3> QED
      BY <3>1, <3>3, Zenon
  <2>3. f = [d \in 0..0 |-> DocumentLevel(d, f[d - 1])]
    BY <2>1, <2>2
  <2>4. DocumentLevels(f, 0)
    BY <2>3, Zenon DEF DocumentLevels
  <2> QED
    BY <1>1, <2>4
<1>4. ASSUME NEW k \in Nat, k \in T PROVE k + 1 \in T
  <2>1. PICK f : DocumentLevels(f, k)
    BY <1>1, <1>4
  <2>2. \A d \in 0..k : f[d] = DocumentLevel(d, f[d - 1])
    BY <2>1, Zenon DEF DocumentLevels
  <2>3. PICK deepest : deepest = DocumentLevel(k + 1, f[k])
    OBVIOUS
  <2>4. PICK g : g = [d \in 0..(k + 1) |-> IF d = k + 1 THEN deepest ELSE f[d]]
    OBVIOUS
  <2>5. ASSUME NEW d \in 0..(k + 1) PROVE g[d] = DocumentLevel(d, g[d - 1])
    <3>1. CASE d = k + 1
      <4>1. d - 1 = k /\ k \in 0..(k + 1) /\ k # k + 1
        BY <3>1
      <4>2. g[d - 1] = f[k] /\ g[d] = deepest
        BY <2>4, <3>1, <4>1
      <4> QED
        BY <2>3, <3>1, <4>2, Zenon
    <3>2. CASE d = 0
      <4>1. g[0] = f[0] /\ 0 \in 0..k
        BY <2>4
      <4>2. g[0] = DocumentLevel(0, f[0 - 1])
        BY <2>2, <4>1, Zenon
      <4>3. g[0] = DocumentLevel(0, g[0 - 1])
        BY <1>2, <4>2, Zenon
      <4> QED
        BY <3>2, <4>3, Zenon
    <3>3. CASE d # 0 /\ d # k + 1
      <4>1. d \in 0..k /\ g[d] = f[d] /\ d - 1 \in 0..(k + 1) /\ d - 1 # k + 1
        BY <2>4, <3>3
      <4>2. g[d - 1] = f[d - 1]
        BY <2>4, <4>1
      <4> QED
        BY <2>2, <4>1, <4>2, Zenon
    <3> QED
      BY <3>1, <3>2, <3>3
  <2>6. g = [d \in 0..(k + 1) |-> DocumentLevel(d, g[d - 1])]
    BY <2>4, <2>5
  <2>7. DocumentLevels(g, k + 1)
    BY <2>6, Zenon DEF DocumentLevels
  <2> QED
    BY <1>1, <2>7
<1>5. Nat \subseteq T
  BY <1>3, <1>4, Induct
<1> QED
  BY <1>1, <1>5

\* Every document, however deep, is read as what it says.
LEMMA DocumentsRead ==
  ASSUME NEW levels \in Nat
  PROVE  AllSaid(Documents(levels))
<1>1. PICK f : f = CHOOSE h : DocumentLevels(h, levels)
  OBVIOUS
<1>2. DocumentLevels(f, levels)
  BY <1>1, DocumentLevelsExist
<1>3. Documents(levels) = f[levels]
  <2>1. \A h : DocumentLevels(h, levels)
               <=> h = [k \in 0..levels |->
                          IF k = 0 THEN <<>>
                          ELSE [piece \in Pieces(DOMAIN h[k - 1]) |-> Says(piece, h[k - 1])]]
    BY Zenon DEF DocumentLevels, DocumentLevel
  <2>2. (CHOOSE h : DocumentLevels(h, levels))
        = CHOOSE h : h = [k \in 0..levels |->
                            IF k = 0 THEN <<>>
                            ELSE [piece \in Pieces(DOMAIN h[k - 1]) |-> Says(piece, h[k - 1])]]
    BY <2>1, Zenon
  <2> QED
    BY <1>1, <2>2, Zenon DEF Documents
<1>4. \A k \in 0..levels : f[k] = DocumentLevel(k, f[k - 1])
  BY <1>2, Zenon DEF DocumentLevels
<1>5. PICK T : T = {k \in Nat : k <= levels => AllSaid(f[k])}
  OBVIOUS
<1>6. 0 \in T
  <2>1. 0 \in 0..levels
    OBVIOUS
  <2>2. f[0] = <<>>
    BY <1>4, <2>1 DEF DocumentLevel
  <2>3. AllSaid(f[0])
    BY <2>2 DEF AllSaid
  <2> QED
    BY <1>5, <2>3
<1>7. ASSUME NEW k \in Nat, k \in T PROVE k + 1 \in T
  <2>1. SUFFICES ASSUME k + 1 <= levels PROVE AllSaid(f[k + 1])
    BY <1>5
  <2>2. PICK below : below = f[k]
    OBVIOUS
  <2>3. AllSaid(below)
    BY <1>5, <1>7, <2>1, <2>2
  <2>4. k + 1 \in 0..levels /\ k + 1 # 0 /\ (k + 1) - 1 = k
    BY <2>1
  <2>5. f[k + 1] = DocumentLevel(k + 1, below)
    BY <1>4, <2>2, <2>4
  <2>6. f[k + 1] = [piece \in Pieces(DOMAIN below) |-> Says(piece, below)]
    BY <2>4, <2>5 DEF DocumentLevel
  <2>7. DOMAIN f[k + 1] = Pieces(DOMAIN below)
        /\ \A d \in Pieces(DOMAIN below) : f[k + 1][d] = Says(d, below)
    BY <2>6
  <2> QED
    BY <2>3, <2>7, PieceReads DEF AllSaid
<1>8. Nat \subseteq T
  BY <1>6, <1>7, Induct
<1>9. AllSaid(f[levels])
  BY <1>5, <1>8
<1> QED
  BY <1>3, <1>9

-------------------------------------------------------------------------------
(* Whole texts and damaged ones *)

\* parse either succeeds or leaves nothing.
LEMMA ParsesOrFails ==
  ASSUME NEW t
  PROVE  Parse(t).ok \/ Parse(t) = Failure
BY DEF Parse

\* What a text that begins with a document begins with for the parser
LEMMA StartAnswered ==
  ASSUME NEW d, NEW s, WellSaid(d, s), ReadsAs(d, s), d.what \in {"array", "object"},
         NEW t, Len(t) \in Nat, NEW p \in Nat \ {0}, AfterSpace(t, 1) = p, Stands(s.tokens, t, p)
  PROVE  ParseStart(t) = IF s.good THEN Read(p + Len(s.tokens), Tree(d, s)) ELSE Failure
<1>1. Peek(t, p) = s.tokens[1]
  BY StandsFirst DEF WellSaid
<1>2. ~Failure.ok
  BY DEF Failure
<1>3. CASE d.what = "array"
  <2>1. Peek(t, p) = OpenBracket
    BY <1>1, <1>3 DEF WellSaid
  <2>2. ParseStart(t) = Parser(t)["array"][p + 1]
    BY <2>1 DEF ParseStart
  <2>3. Answered(Parser(t)["array"][p + 1], p + Len(s.tokens), s)
    BY <1>3 DEF ReadsAs
  <2>4. s.good => Tree(d, s) = s.value
    BY <1>3 DEF Tree
  <2> QED
    BY <2>2, <2>3, <2>4 DEF Answered
<1>4. CASE d.what = "object"
  <2>1. Peek(t, p) # OpenBracket
    BY <1>1, <1>4, TokensDiffer DEF WellSaid
  <2>2. PICK node : node = Parser(t)["object"][p]
    OBVIOUS
  <2>3. ParseStart(t) = IF node.ok THEN Read(node.at, <<node.value>>) ELSE Failure
    BY <2>1, <2>2 DEF ParseStart
  <2>4. Answered(node, p + Len(s.tokens), s)
    BY <1>4, <2>2 DEF ReadsAs
  <2>5. s.good => Tree(d, s) = <<s.value>>
    BY <1>4 DEF Tree
  <2>6. CASE s.good
    <3>1. node = Read(p + Len(s.tokens), s.value)
      BY <2>4, <2>6 DEF Answered
    <3>2. node.ok /\ node.at = p + Len(s.tokens) /\ node.value = s.value
      BY <3>1 DEF Read
    <3> QED
      BY <2>3, <2>5, <2>6, <3>2
  <2>7. CASE ~s.good
    BY <1>2, <2>3, <2>4, <2>7 DEF Answered
  <2> QED
    BY <2>6, <2>7
<1> QED
  BY <1>3, <1>4

\* A document is read as what it says, whatever white space is around it.
LEMMA WholeIsRead ==
  ASSUME NEW d, NEW s, WellSaid(d, s), ReadsAs(d, s), d.what \in {"array", "object"},
         NEW t \in Whole(s.tokens)
  PROVE  Parse(t).value = Tree(d, s)
<1>1. PICK before \in Gaps, after \in Gaps : t = before \o s.tokens \o after
  BY DEF Whole
<1>2. PICK u : u = s.tokens
  OBVIOUS
<1>3. u \in Seq(Tokens) /\ Len(u) > 0 /\ u[1] \in {OpenBrace, OpenBracket} /\ s.good \in BOOLEAN
  BY <1>2 DEF WellSaid
<1>4. /\ before \in Seq(Tokens) /\ Len(before) \in {0, 1}
      /\ after \in Seq(Tokens) /\ Len(after) \in {0, 1} /\ (Len(after) = 1 => after[1] = Space)
  BY GapsAre
<1>5. PICK v : v = before \o u
  OBVIOUS
<1>6. v \in Seq(Tokens) /\ Len(v) = Len(before) + Len(u) /\ Len(u) \in Nat
  BY <1>3, <1>4, <1>5, JoinedTokens
<1>7. t = v \o after
  BY <1>1, <1>2, <1>5
<1>8. t \in Seq(Tokens) /\ Len(t) = Len(v) + Len(after) /\ Len(t) \in Nat
  BY <1>4, <1>6, <1>7, JoinedTokens
<1>9. Stands(t, t, 1)
  BY <1>8 DEF Stands
<1>10. 1 \in Nat \ {0}
  OBVIOUS
<1>11. Stands(v, t, 1) /\ Stands(after, t, 1 + Len(v))
  BY <1>4, <1>6, <1>7, <1>8, <1>9, <1>10, StandsBoth
<1>12. Stands(before, t, 1) /\ Stands(u, t, 1 + Len(before))
  BY <1>3, <1>4, <1>5, <1>8, <1>10, <1>11, StandsBoth
<1>13. PICK p \in Nat \ {0} : p = 1 + Len(before)
  BY <1>4
<1>14. Peek(t, p) # Space
  BY <1>3, <1>8, <1>12, <1>13, StandsFirst, TokensDiffer
<1>15. AfterSpace(t, 1) = p
  BY <1>8, <1>10, <1>12, <1>13, <1>14, GapSkipped
<1>16. ParseStart(t) = IF s.good THEN Read(p + Len(u), Tree(d, s)) ELSE Failure
  BY <1>2, <1>8, <1>12, <1>13, <1>15, StartAnswered
<1>17. PICK e \in Nat \ {0} : e = p + Len(u)
  BY <1>6, <1>13
<1>18. e + Len(after) = Len(t) + 1 /\ e = 1 + Len(v)
  BY <1>4, <1>6, <1>8, <1>13, <1>17
<1>19. AfterSpace(t, e) > Len(t)
  <2>1. CASE Len(after) = 1
    <3>1. Peek(t, e) = Space
      BY <1>4, <1>8, <1>11, <1>17, <1>18, <2>1, StandsFirst
    <3> QED
      BY <1>8, <1>17, <1>18, <2>1, <3>1 DEF AfterSpace
  <2>2. CASE Len(after) = 0
    <3>1. e = Len(t) + 1
      BY <1>17, <1>18, <2>2
    <3> QED
      BY <1>8, <1>17, <3>1, SpaceSkipped
  <2> QED
    BY <1>4, <2>1, <2>2
<1>20. CASE s.good
  <2>1. ParseStart(t) = Read(e, Tree(d, s))
    BY <1>16, <1>17, <1>20
  <2>2. ParseStart(t).ok /\ ParseStart(t).at = e /\ ParseStart(t).value = Tree(d, s)
    BY <2>1 DEF Read
  <2>3. Parse(t) = ParseStart(t)
    BY <1>19, <2>2 DEF Parse
  <2> QED
    BY <2>2, <2>3
<1>21. CASE ~s.good
  <2>1. ParseStart(t) = Failure
    BY <1>16, <1>21
  <2>2. Parse(t) = Failure
    BY <2>1 DEF Parse, Failure
  <2>3. Tree(d, s) = <<>>
    <3>1. s.good = FALSE
      BY <1>3, <1>21
    <3> QED
      BY <1>21, <3>1 DEF Tree
  <2> QED
    BY <2>2, <2>3 DEF Failure
<1> QED
  BY <1>20, <1>21

\* It ends with a brace or a bracket.
LEMMA StartSound ==
  ASSUME NEW t, Len(t) \in Nat, ParseStart(t).ok
  PROVE  /\ ParseStart(t).at \in Nat /\ 1 < ParseStart(t).at /\ ParseStart(t).at <= Len(t) + 1
         /\ Peek(t, ParseStart(t).at - 1) \in {CloseBrace, CloseBracket}
<1>1. PICK p \in Nat : p = AfterSpace(t, 1) /\ 1 <= p /\ (1 <= Len(t) + 1 => p <= Len(t) + 1)
  BY SpaceSkipped, 1 \in Nat
<1>2. p <= Len(t) + 1
  BY <1>1
<1>3. ~Failure.ok
  BY DEF Failure
<1>4. CASE Peek(t, p) = OpenBracket
  <2>1. p <= Len(t)
    BY <1>1, <1>4, SeenIsInside, TokensDiffer
  <2>2. PICK q \in Nat : q = p + 1 /\ q <= Len(t) + 1 /\ 1 < q
    BY <1>1, <2>1
  <2>3. ParseStart(t) = Parser(t)["array"][q]
    BY <1>1, <1>4, <2>2 DEF ParseStart
  <2>4. SoundAnswer(t, "array", q, ParseStart(t))
    BY <2>2, <2>3, ParserIsSound DEF Kinds
  <2> QED
    BY <2>2, <2>4 DEF SoundAnswer
<1>5. CASE Peek(t, p) # OpenBracket
  <2>1. PICK node : node = Parser(t)["object"][p]
    OBVIOUS
  <2>2. ParseStart(t) = IF node.ok THEN Read(node.at, <<node.value>>) ELSE Failure
    BY <1>1, <1>5, <2>1 DEF ParseStart
  <2>3. node.ok /\ ParseStart(t).at = node.at
    BY <1>3, <2>2 DEF Read
  <2>4. SoundAnswer(t, "object", p, node)
    BY <1>1, <1>2, <2>1, ParserIsSound DEF Kinds
  <2> QED
    BY <1>1, <2>3, <2>4 DEF SoundAnswer
<1> QED
  BY <1>4, <1>5

\* A text that ends in anything but the bracket or brace that ends the list is rejected.
LEMMA WrongEnd ==
  ASSUME NEW t, Len(t) \in Nat \ {0}, t[Len(t)] \notin {CloseBrace, CloseBracket, Space}
  PROVE  Parse(t) = Failure
<1>1. PICK l \in Nat \ {0} : l = Len(t)
  OBVIOUS
<1>2. Peek(t, l) = t[l]
  BY <1>1 DEF Peek
<1>3. ASSUME ParseStart(t).ok, AfterSpace(t, ParseStart(t).at) > Len(t) PROVE FALSE
  <2>1. PICK at \in Nat : /\ at = ParseStart(t).at /\ 1 < at /\ at <= l + 1
                          /\ Peek(t, at - 1) \in {CloseBrace, CloseBracket}
    BY <1>1, <1>3, StartSound
  <2>2. at # l + 1
    <3>1. SUFFICES ASSUME at = l + 1 PROVE FALSE
      OBVIOUS
    <3>2. at - 1 = l
      BY <1>1, <3>1
    <3> QED
      BY <1>1, <1>2, <2>1, <3>2
  <2>3. AfterSpace(t, at) > l
    BY <1>1, <1>3, <2>1
  <2>4. AfterSpace(t, at) \in Nat /\ AfterSpace(t, at) <= at + 1
    BY <1>1, <2>1, SpaceSkipped
  <2>5. at = l
    BY <1>1, <2>1, <2>2, <2>3, <2>4
  <2>6. AfterSpace(t, at) = at
    BY <1>1, <1>2, <2>5 DEF AfterSpace
  <2> QED
    BY <1>1, <2>3, <2>5, <2>6
<1> QED
  BY <1>3 DEF Parse

\* A document that is cut off is rejected.
LEMMA CutIsRejected ==
  ASSUME NEW d, NEW s, WellSaid(d, s), ReadsAs(d, s), d.what \in {"array", "object"},
         NEW k \in 0..(Len(s.tokens) - 1)
  PROVE  Parse(SubSeq(s.tokens, 1, k)) = Failure
<1>1. PICK u : u = s.tokens
  OBVIOUS
<1>2. PICK c : c = SubSeq(u, 1, k)
  OBVIOUS
<1>3. u \in Seq(Tokens) /\ Len(u) \in Nat \ {0} /\ s.good \in BOOLEAN
  BY <1>1 DEF WellSaid
<1>4. k \in Nat /\ k < Len(u)
  BY <1>1, <1>3
<1>5. Len(c) = k /\ \A i \in 1..k : c[i] = u[i]
  BY <1>2, <1>3, <1>4, SMT
<1>6. Begins(c, u)
  BY <1>3, <1>4, <1>5 DEF Begins
<1>7. ~Failure.ok
  BY DEF Failure
<1>8. Stands(u, u, 1) /\ Peek(u, 1) = u[1]
  BY <1>3 DEF Stands, Peek
<1>9. Len(c) \in Nat /\ 1 \in Nat \ {0} /\ 2 \in Nat \ {0}
  BY <1>4, <1>5
<1>10. CASE k = 0
  <2>1. Peek(c, 1) = TheEnd
    BY <1>5, <1>10 DEF Peek
  <2>2. AfterSpace(c, 1) = 1 /\ Peek(c, 1) # OpenBracket
    BY <2>1, TokensDiffer DEF AfterSpace
  <2>3. Parser(c)["object"][1] = Failure
    <3>1. Parser(c)["object"][1] = ParseObject(c, 1, Parser(c))
      BY <1>9, ParserIs DEF ParseAt, Kinds
    <3> QED
      BY <2>1, <3>1, TokensDiffer DEF ParseObject
  <2>4. ParseStart(c) = Failure
    BY <1>7, <2>2, <2>3 DEF ParseStart
  <2> QED
    BY <1>1, <1>2, <1>7, <2>4 DEF Parse
<1>11. CASE k # 0
  <2>1. k >= 1 /\ Peek(c, 1) = u[1]
    BY <1>4, <1>5, <1>11 DEF Peek
  <2>2. CASE d.what = "array"
    <3>1. Peek(c, 1) = OpenBracket
      BY <1>1, <2>1, <2>2 DEF WellSaid
    <3>2. AfterSpace(c, 1) = 1
      BY <3>1, TokensDiffer DEF AfterSpace
    <3>3. PICK r : r = Parser(c)["array"][2]
      OBVIOUS
    <3>4. ParseStart(c) = r
      BY <3>1, <3>2, <3>3 DEF ParseStart
    <3>5. Answered(Parser(u)["array"][2], 1 + Len(u), s)
      BY <1>1, <1>3, <1>8, <1>9, <2>2 DEF ReadsAs
    <3>6. 2 <= Len(c) + 1
      BY <1>4, <1>5, <2>1
    <3>7. SoundAnswer(c, "array", 2, r) /\ ReadAgain(c, "array", r, Parser(u)["array"][2])
      BY <1>6, <1>9, <3>3, <3>6, ParserIsSound, ReadOnceMore DEF Kinds
    <3>8. ~r.ok
      <4>1. SUFFICES ASSUME r.ok PROVE FALSE
        OBVIOUS
      <4>2. Parser(u)["array"][2] = r
        BY <3>7, <4>1 DEF ReadAgain, Settled
      <4>3. r.at = 1 + Len(u)
        BY <1>7, <3>5, <4>1, <4>2 DEF Answered, Read
      <4>4. r.at \in Nat /\ r.at <= k + 1
        BY <1>5, <3>7, <4>1 DEF SoundAnswer
      <4> QED
        BY <1>3, <1>4, <4>3, <4>4
    <3> QED
      BY <1>1, <1>2, <3>4, <3>8 DEF Parse
  <2>3. CASE d.what = "object"
    <3>1. Peek(c, 1) = OpenBrace
      BY <1>1, <2>1, <2>3 DEF WellSaid
    <3>2. AfterSpace(c, 1) = 1 /\ Peek(c, 1) # OpenBracket
      BY <3>1, TokensDiffer DEF AfterSpace
    <3>3. PICK r : r = Parser(c)["object"][1]
      OBVIOUS
    <3>4. ParseStart(c) = IF r.ok THEN Read(r.at, <<r.value>>) ELSE Failure
      BY <3>2, <3>3 DEF ParseStart
    <3>5. Answered(Parser(u)["object"][1], 1 + Len(u), s)
      BY <1>1, <1>3, <1>8, <1>9, <2>3 DEF ReadsAs
    <3>6. 1 <= Len(c) + 1
      BY <1>4, <1>5, <2>1
    <3>7. SoundAnswer(c, "object", 1, r) /\ ReadAgain(c, "object", r, Parser(u)["object"][1])
      BY <1>6, <1>9, <3>3, <3>6, ParserIsSound, ReadOnceMore DEF Kinds
    <3>8. ~r.ok
      <4>1. SUFFICES ASSUME r.ok PROVE FALSE
        OBVIOUS
      <4>2. Parser(u)["object"][1] = r
        BY <3>7, <4>1 DEF ReadAgain, Settled
      <4>3. r.at = 1 + Len(u)
        BY <1>7, <3>5, <4>1, <4>2 DEF Answered, Read
      <4>4. r.at \in Nat /\ r.at <= k + 1
        BY <1>5, <3>7, <4>1 DEF SoundAnswer
      <4> QED
        BY <1>3, <1>4, <4>3, <4>4
    <3> QED
      BY <1>1, <1>2, <1>7, <3>4, <3>8 DEF Parse
  <2> QED
    BY <2>2, <2>3
<1> QED
  BY <1>10, <1>11

\* So is one with a token too many.
LEMMA MoreIsRejected ==
  ASSUME NEW d, NEW s, WellSaid(d, s), ReadsAs(d, s), d.what \in {"array", "object"},
         NEW m \in Tokens, m # Space
  PROVE  Parse(Append(s.tokens, m)) = Failure
<1>1. PICK u : u = s.tokens
  OBVIOUS
<1>2. PICK t : t = Append(u, m)
  OBVIOUS
<1>3. u \in Seq(Tokens) /\ Len(u) \in Nat \ {0} /\ u[1] \in {OpenBrace, OpenBracket}
      /\ s.good \in BOOLEAN
  BY <1>1 DEF WellSaid
<1>4. PICK l \in Nat \ {0} : l = Len(u)
  BY <1>3
<1>5. Len(t) = l + 1 /\ t[l + 1] = m /\ \A i \in 1..l : t[i] = u[i]
  BY <1>2, <1>3, <1>4
<1>6. Stands(u, t, 1)
  BY <1>3, <1>4, <1>5 DEF Stands
<1>7. Len(t) \in Nat /\ 1 \in Nat \ {0}
  BY <1>4, <1>5
<1>8. Peek(t, 1) # Space
  BY <1>3, <1>6, <1>7, StandsFirst, TokensDiffer
<1>9. AfterSpace(t, 1) = 1
  BY <1>8 DEF AfterSpace
<1>10. ParseStart(t) = IF s.good THEN Read(1 + Len(u), Tree(d, s)) ELSE Failure
  BY <1>1, <1>6, <1>7, <1>9, StartAnswered
<1>11. CASE ~s.good
  BY <1>1, <1>2, <1>10, <1>11 DEF Parse, Failure
<1>12. CASE s.good
  <2>1. ParseStart(t).at = 1 + Len(u)
    BY <1>10, <1>12 DEF Read
  <2>2. ParseStart(t).at = l + 1
    BY <1>4, <2>1
  <2>3. Peek(t, l + 1) = m
    BY <1>4, <1>5 DEF Peek
  <2>4. AfterSpace(t, l + 1) = l + 1
    BY <2>3 DEF AfterSpace
  <2>5. ~(AfterSpace(t, ParseStart(t).at) > Len(t))
    BY <1>4, <1>5, <2>2, <2>4
  <2> QED
    BY <1>1, <1>2, <2>5 DEF Parse
<1> QED
  BY <1>11, <1>12

\* However it was damaged, nothing is left.
LEMMA DamagedIsRejected ==
  ASSUME NEW d, NEW s, WellSaid(d, s), ReadsAs(d, s), d.what \in {"array", "object"},
         NEW t \in Damaged(s.tokens)
  PROVE  Parse(t) = Failure
<1>1. \/ \E k \in 0..(Len(s.tokens) - 1) : t = SubSeq(s.tokens, 1, k)
      \/ \E k \in 0..(Len(s.tokens) - 1) : t = Append(SubSeq(s.tokens, 1, k), Broken)
      \/ \E m \in (Marks \ {Space}) \cup {Bare, Broken} : t = Append(s.tokens, m)
  BY DEF Damaged
<1>2. ASSUME NEW k \in 0..(Len(s.tokens) - 1), t = Append(SubSeq(s.tokens, 1, k), Broken)
      PROVE  Parse(t) = Failure
  <2>1. PICK c : c = SubSeq(s.tokens, 1, k)
    OBVIOUS
  <2>2. s.tokens \in Seq(Tokens) /\ Len(s.tokens) \in Nat
    BY DEF WellSaid
  <2>3. c \in Seq(Tokens)
    BY <2>1, <2>2
  <2>4. Len(t) = Len(c) + 1 /\ t[Len(c) + 1] = Broken /\ Len(c) \in Nat
    BY <1>2, <2>1, <2>3
  <2>5. Len(t) \in Nat \ {0} /\ t[Len(t)] = Broken
    BY <2>4
  <2> QED
    BY <2>5, WrongEnd, TokensDiffer
<1>3. \A m \in (Marks \ {Space}) \cup {Bare, Broken} : m \in Tokens /\ m # Space
  BY StringsAndMarks, TokensDiffer DEF Marks
<1> QED
  BY <1>1, <1>2, <1>3, CutIsRejected, MoreIsRejected

\* Every text is parsed as the tree that it goes with.
LEMMA TextsAreRead ==
  ASSUME NEW levels \in Nat, NEW text \in AllTexts(levels)
  PROVE  Parse(text.tokens).value = text.tree
<1>1. PICK documents : documents = {d \in DOMAIN Documents(levels) : d.what \in {"array", "object"}}
  OBVIOUS
<1>2. text \in TextsOf(documents, levels)
  BY <1>1 DEF AllTexts
<1>3. PICK d \in documents :
        \/ \E t \in Whole(Documents(levels)[d].tokens) :
             text = [tokens |-> t, tree |-> Tree(d, Documents(levels)[d])]
        \/ \E t \in Damaged(Documents(levels)[d].tokens) : text = [tokens |-> t, tree |-> <<>>]
  BY <1>2 DEF TextsOf
<1>4. PICK s : s = Documents(levels)[d]
  OBVIOUS
<1>5. WellSaid(d, s) /\ ReadsAs(d, s) /\ d.what \in {"array", "object"}
  BY <1>1, <1>3, <1>4, DocumentsRead DEF AllSaid
<1>6. ASSUME NEW t \in Whole(s.tokens), text = [tokens |-> t, tree |-> Tree(d, s)]
      PROVE  Parse(text.tokens).value = text.tree
  BY <1>5, <1>6, WholeIsRead
<1>7. ASSUME NEW t \in Damaged(s.tokens), text = [tokens |-> t, tree |-> <<>>]
      PROVE  Parse(text.tokens).value = text.tree
  BY <1>5, <1>7, DamagedIsRejected DEF Failure
<1> QED
  BY <1>3, <1>4, <1>6, <1>7

\* What a list keeps of a text is the tree it was written from, and nothing of one that was cut off
\* or goes on: for every set of texts, however deep their documents and whatever their keys,
\* strings and white space.
THEOREM TextsAreUnderstood ==
  ASSUME NEW levels \in Nat, Texts \subseteq AllTexts(levels)
  PROVE  EffectListSpec => []TextIsUnderstood
<1>1. EffectListInit => TextIsUnderstood
  BY DEF EffectListInit, TextIsUnderstood
<1>2. ASSUME TextIsUnderstood, [EffectListNext]_effectListVars PROVE TextIsUnderstood'
  <2>1. ASSUME NEW f, SetFactory(f) PROVE TextIsUnderstood'
    BY <1>2, <2>1 DEF TextIsUnderstood, SetFactory
  <2>2. ASSUME NEW ctx, Initialise(ctx) PROVE TextIsUnderstood'
    BY <1>2, <2>2 DEF TextIsUnderstood, Initialise
  <2>3. ASSUME NEW text \in Texts, SetConfig(text) PROVE TextIsUnderstood'
    <3>1. PICK parsed : parsed = Parse(text.tokens)
      OBVIOUS
    <3>2. parsed.value = text.tree
      BY <3>1, TextsAreRead
    <3>3. parsed.ok \/ parsed.value = <<>>
      BY <3>1, ParsesOrFails DEF Failure
    <3>4. tree' = parsed.value
      BY <2>3, <3>1, <3>3 DEF SetConfig
    <3>5. intended' = text.tree
      BY <2>3 DEF SetConfig
    <3> QED
      BY <3>2, <3>4, <3>5 DEF TextIsUnderstood
  <2>4. CASE UNCHANGED effectListVars
    BY <1>2, <2>4 DEF TextIsUnderstood, effectListVars
  <2> QED
    BY <1>2, <2>1, <2>2, <2>3, <2>4 DEF EffectListNext
<1> QED
  BY <1>1, <1>2, PTL DEF EffectListSpec

===============================================================================
