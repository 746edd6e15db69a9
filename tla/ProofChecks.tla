----------------------------- MODULE ProofChecks ----------------------------
(***************************************************************************)
(* The checks a client makes of what an indexer serves with a proof, each  *)
(* as the step from what is checked to what the check makes of it, with    *)
(* those of ServedChecks: the texts of stored documents, a query's answer, *)
(* schemas, and what a write signs.                                        *)
(***************************************************************************)
EXTENDS QuerySelection, ServedChecks

CONSTANTS
  Strings, PrivateTokens, Literals, BadTokens, Space, MaxNesting,  \* JsonText
  StringTokens, Decoded, IllFormed, U32Tokens, AtomTokens, Blank, FieldTypes,
  NamesInOrder, Absent, Deepest,                                   \* SchemaText
  Alphabet, Width, MaxSafe, DidUnits, MaxDid, MaxId, DigestLength, \* SignedWrites
  Sentences,     \* the texts that are JSON, each with what it says
  Alphabetical   \* the strings of the documents, in order

ASSUME ChecksAssumption ==
  /\ PrivateTokens \subseteq Strings
  /\ MaxNesting \in Nat

Text == INSTANCE JsonText
Writes == INSTANCE SignedWrites

-----------------------------------------------------------------------------
(* The checks *)

CheckText ==
  /\ Checks("text")
  /\ verdict' = [of |-> "text", result |-> Text!ParseText(input.text)]

\* A body, and the entries its answer's proof reveals.
CheckQuery ==
  /\ Checks("query")
  /\ verdict' = [of |-> "query",
                 result |-> VerifyQuerySelection(input.body, input.irreproducible, input.entries, input.answer)]

CheckSchema ==
  /\ Checks("schema")
  /\ verdict' = [of |-> "schema", taken |-> Writes!CheckStorageSchema(input.text)]

CheckDefinition ==
  /\ Checks("definition")
  /\ verdict' = [of |-> "definition",
                 text |-> IF Writes!Serializes(input.definition) THEN Writes!SerializeSchema(input.definition)
                          ELSE <<>>]

SignWrites ==
  /\ Checks("writes")
  /\ verdict' = [of |-> "writes", first |-> Writes!SignTransaction(input.first),
                 second |-> Writes!SignTransaction(input.second)]

Next ==
  \/ CheckSchema \/ CheckDefinition \/ SignWrites
  \/ CheckText \/ CheckQuery
  \/ CheckServed

-----------------------------------------------------------------------------
(* Numbers *)

\* A double's value in units of 10^-Unit, the doubles going on past the largest.
RealDouble(double) ==
  LET n == IF double.q = -1 THEN 2^(Precision + MaxPower - MinPower)
           ELSE double.q * 2^(double.power - MinPower)
  IN  (IF double.neg THEN -n ELSE n) * (10^Unit \div 2^(-MinPower))

Gap(m, n) == IF m > n THEN m - n ELSE n - m

IsEven(double) == double.q = -1 \/ double.q % 2 = 0

\* A number is read as the double nearest to it, however long its text, and the
\* one with the even significand of two as near (parseF64; Rust's parse).
ReadsTheNearestDouble ==
  verdict.of = "numbers" =>
    \A d \in Doubles \cup {Infinity, [neg |-> FALSE, q |-> 0, power |-> MinPower]} :
      LET other == Signed(d, input.first.neg)
          value == RealValue(input.first)
          gap == Gap(RealDouble(other), value)
      IN  other # verdict.double =>
            \/ gap > Gap(RealDouble(verdict.double), value)
            \/ gap = Gap(RealDouble(verdict.double), value) /\ IsEven(verdict.double)

-----------------------------------------------------------------------------
(* Texts *)

NoSpace(text) == SelectSeq(text, LAMBDA token : token # Space)

\* A document is read just when it is JSON without an object the node may read
\* as something else, not nested too deep, and then as what it says; one with
\* such an object is reported and not passed over (parseNodeJsonText).
ReadsAsWritten ==
  verdict.of = "text" =>
    LET readings == {s \in Sentences : s.text = NoSpace(input.text)}
        read == verdict.result
    IN  /\ read.is = "read" <=> \E s \in readings : s.depth <= MaxNesting /\ ~s.private
        /\ read.is = "read" => \E s \in readings : s.value = read.value
        /\ (\E s \in readings : s.depth <= MaxNesting /\ s.private) => read.is = "irreproducible"

-----------------------------------------------------------------------------
(* Queries *)

Reading(text) == RealDouble(ParseF64(text))

PlaceIn(sequence, x) == CHOOSE i \in DOMAIN sequence : sequence[i] = x

\* A value's place in a sort, as two numbers: its kind, and its place in it.
SortPlace(value) ==
  <<Rank[value.t],
    CASE value.t = "bool" -> IF value.b THEN 1 ELSE 0
      [] value.t = "num" -> IF ParseF64(value.n).q = -1 THEN -2^30 ELSE Reading(value.n)
      [] value.t = "str" -> PlaceIn(Alphabetical, value.s)
      [] OTHER -> 0>>

Before(p, q) == p[1] < q[1] \/ (p[1] = q[1] /\ p[2] < q[2])

\* A number in JavaScript has the value of the text it is written as.
RECURSIVE SameValue(_, _)
SameValue(js, value) ==
  /\ js.t = value.t
  /\ CASE js.t = "num" ->
            /\ js.d.q # -1
            /\ RealValue(value.n) =
                 IF js.d.q = 0 THEN 0
                 ELSE LET w == Written(Signed(js.d, FALSE))
                          n == w.n * 10^(Unit + w.exp)
                      IN  IF js.d.neg THEN -n ELSE n
       [] js.t = "arr" -> /\ Len(js.items) = Len(value.items)
                          /\ \A i \in DOMAIN js.items : SameValue(js.items[i], value.items[i])
       [] js.t = "obj" -> /\ DOMAIN js.members = DOMAIN value.members
                          /\ \A k \in DOMAIN js.members : SameValue(js.members[k], value.members[k])
       [] OTHER -> js = value

\* Whether values are the same, number for number.
RECURSIVE SameNodeValue(_, _)
SameNodeValue(a, b) ==
  /\ a.t = b.t
  /\ CASE a.t = "num" -> RealValue(a.n) = RealValue(b.n)
       [] a.t = "arr" -> /\ Len(a.items) = Len(b.items)
                         /\ \A i \in DOMAIN a.items : SameNodeValue(a.items[i], b.items[i])
       [] a.t = "obj" -> /\ DOMAIN a.members = DOMAIN b.members
                         /\ \A k \in DOMAIN a.members : SameNodeValue(a.members[k], b.members[k])
       [] OTHER -> a = b

\* The places of the entries a body selects.
SelectedBy(entries, body) ==
  LET filters == Member(body, "filters")
  IN  {i \in DOMAIN entries :
         /\ entries[i].is = "doc"
         /\ Given(filters) => \A f \in DOMAIN filters.members :
              SameNodeValue(FieldValue(entries[i].doc, f), filters.members[f])}

\* How many of them go before the i-th.
RankOf(entries, body, i) ==
  LET sort == Member(body, "sort")
      PlaceOf(j) == SortPlace(FieldValue(entries[j].doc, sort.members["field"].s))
      Precedes(j) ==
        IF ~Given(sort) \/ PlaceOf(i) = PlaceOf(j) THEN j < i
        ELSE IF sort.members["order"].s = "desc" THEN Before(PlaceOf(i), PlaceOf(j))
        ELSE Before(PlaceOf(j), PlaceOf(i))
  IN  Cardinality({j \in SelectedBy(entries, body) \ {i} : Precedes(j)})

\* Whether an answer is the documents of the page a body asks for, in order, and
\* how many there are in all.
IsTheSelection(entries, body, answer) ==
  LET offset == Count(Member(body, "offset"), 0)
      limit == Count(Member(body, "limit"), DefaultLimit)
      selected == SelectedBy(entries, body)
      page == {i \in selected : RankOf(entries, body, i) \in offset .. offset + limit - 1}
  IN  /\ answer.total = Cardinality(selected)
      /\ answer.offset = offset /\ answer.limit = limit
      /\ Len(answer.documents) = Cardinality(page)
      /\ \A i \in page :
           SameValue(answer.documents[RankOf(entries, body, i) - offset + 1], entries[i].doc)

\* An answer that is accepted is the whole page the body asks for, in the order
\* it asks for, and no number in it has another value in JavaScript
\* (verifyQuerySelection).
AcceptedIsTheSelection ==
  verdict.of = "query" /\ verdict.result = "accepted" =>
    IsTheSelection(input.entries, input.body, input.answer)

RECURSIVE HasMinusZero(_)
HasMinusZero(js) ==
  CASE js.t = "num" -> js.d.q = 0 /\ js.d.neg
    [] js.t = "arr" -> \E i \in DOMAIN js.items : HasMinusZero(js.items[i])
    [] js.t = "obj" -> \E k \in DOMAIN js.members : HasMinusZero(js.members[k])
    [] OTHER -> FALSE

\* The answer the API gives is accepted, unless an entry may be read otherwise
\* or the page holds a number that JavaScript has not, or has as -0.
HonestAnswersPass ==
  /\ verdict.of = "query"
  /\ verdict.result \notin {"not_sent", "query_not_verifiable"}
  /\ IsTheSelection(input.entries, input.body, input.answer)
  /\ \A i \in DOMAIN input.entries : input.entries[i].is \notin {"undecodable", "irreproducible"}
  /\ \A i \in DOMAIN input.answer.documents : ~HasMinusZero(input.answer.documents[i])
  => verdict.result = "accepted"

-----------------------------------------------------------------------------
(* Schemas and signed writes *)

\* The text of a schema, its objects as sequences of keys with values.
RECURSIVE SchemaTextOf(_)
SchemaTextOf(value) ==
  CASE value.t = "atom" -> <<value.v>>
    [] value.t = "arr" ->
         <<"[">> \o Writes!WithCommas([i \in DOMAIN value.v |-> SchemaTextOf(value.v[i])]) \o <<"]">>
    [] value.t = "obj" ->
         <<"{">> \o Writes!WithCommas([i \in DOMAIN value.v |->
                      <<value.v[i][1], ":">> \o SchemaTextOf(value.v[i][2])]) \o <<"}">>

IsAtomOf(value, tokens) == value.t = "atom" /\ value.v \in tokens

\* The chain's parse of one part of its SchemaDefinition.
ChainReadsPart(key, value) ==
  CASE key = "version" -> IsAtomOf(value, U32Tokens)
    [] key = "indexes" -> value.t = "arr" /\ value.v = <<>>
    [] key = "required_fields" ->
         value.t = "arr" /\ \A i \in DOMAIN value.v : IsAtomOf(value.v[i], StringTokens \ IllFormed)
    [] key = "fields" ->
         /\ value.t = "obj"
         /\ \A i \in DOMAIN value.v :
              LET type == value.v[i][2]
              IN  /\ Decoded[value.v[i][1]] \notin IllFormed
                  /\ \/ IsAtomOf(type, FieldTypes)
                     \/ /\ type.t = "obj" /\ Len(type.v) = 1
                        /\ type.v[1][1] \in FieldTypes /\ IsAtomOf(type.v[1][2], {"null"})
    [] OTHER -> TRUE

\* And of a schema: an object without a key of its own twice, or its parts in a list.
ChainReadsSchema(schema) ==
  \/ /\ schema.t = "obj"
     /\ \A i \in DOMAIN schema.v :
          LET key == Decoded[schema.v[i][1]]
          IN  /\ key \notin IllFormed /\ ChainReadsPart(key, schema.v[i][2])
              /\ \A j \in 1 .. i - 1 :
                   Decoded[schema.v[j][1]] = key => key \notin Range(Writes!SchemaKeys)
  \/ /\ schema.t = "arr" /\ Len(schema.v) <= Len(Writes!SchemaKeys)
     /\ \A i \in DOMAIN schema.v : ChainReadsPart(Writes!SchemaKeys[i], schema.v[i])

\* A schema is taken just when the chain parses its text and it declares no
\* index, and one that is written out is taken, and says what its definition
\* does (checkStorageSchema, serializeSchema).
SchemaIsTheChains ==
  /\ verdict.of = "schema" => (verdict.taken <=> input.isJson /\ ChainReadsSchema(input.schema))
  /\ verdict.of = "definition" /\ verdict.text # <<>> =>
       LET d == input.definition
           said == Writes!Js!ParseText(verdict.text).value.v
           required == said["required_fields"].v
       IN  /\ Writes!CheckStorageSchema(verdict.text)
           /\ said["version"] = Text!Atom(IF d.version = Absent THEN "1" ELSE d.version)
           /\ said["fields"].v = [f \in DOMAIN d.fields |-> Text!Atom(d.fields[f].type)]
           /\ {required[i].v : i \in DOMAIN required}
                = Range(d.required) \cup {f \in DOMAIN d.fields : d.fields[f].required}
           /\ Len(required) = Cardinality(Range(required))

\* What the SDK leaves to its caller: that these fields are DIDs.
GivesDids(tx) ==
  /\ tx.kind = "Transfer" => Writes!IsWillowDid(tx.fromDid) /\ Writes!IsWillowDid(tx.toDid)
  /\ tx.kind = "DeregisterSubgrove" => Writes!IsWillowDid(tx.ownerDid)

\* A signature is good for one write: two writes signed over the same message
\* send the same body, whatever lines, lengths or quotes their texts hold, and
\* every integer that is sent is the one that was meant (createSignMessage,
\* registerSubgroveBincode, canonicalizeAnchorBody, uint).
SignedIsOneWrite ==
  verdict.of = "writes" /\ verdict.first.signed /\ verdict.second.signed =>
    /\ \A f \in Writes!Integers \cap DOMAIN input.first :
         f # "nonce" => Writes!Held(input.first[f]) = input.first[f].meant
    /\ GivesDids(input.first) /\ GivesDids(input.second) /\ verdict.first.message = verdict.second.message =>
         verdict.first.body = verdict.second.body
=============================================================================
