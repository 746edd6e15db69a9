--------------------------- MODULE QuerySelection ---------------------------
(***************************************************************************)
(* Checking that a query's answer is the whole of what the query selects   *)
(* (proof/query-selection.ts): which bodies are sent, the selection run    *)
(* over the entries a proof reveals, and the comparison with the answer;   *)
(* and how one document binds to a proven value (proof/binding.ts).        *)
(*                                                                         *)
(* A JSON value is a record of its kind t.  A string is the sequence of    *)
(* its UTF-16 units; a number keeps its text (JsonNumbers); in JavaScript  *)
(* it is the double the text reads as.  A body is a function of the keys   *)
(* it has.  An entry is [is |-> "doc", doc |-> value], or why there is no  *)
(* document in it.                                                         *)
(***************************************************************************)
EXTENDS JsonNumbers, FiniteSets

CONSTANTS
  Dot,              \* the unit that parts a field's path
  High, Low,        \* surrogates
  MaxUnit,
  Logical,          \* the logical operators' names
  MaxFilterFields, MaxFieldLength, MaxFilterValueLength,
  MaxCount,         \* the largest limit and offset
  DefaultLimit

ASSUME SelectionAssumption ==
  /\ High \cap Low = {} /\ High \cup Low \subseteq 0 .. MaxUnit
  /\ {MaxFilterFields, MaxFieldLength, MaxFilterValueLength, MaxCount, DefaultLimit} \subseteq Nat

Null == [t |-> "null"]
Bool(b) == [t |-> "bool", b |-> b]
Num(text) == [t |-> "num", n |-> text]
Str(s) == [t |-> "str", s |-> s]
Arr(items) == [t |-> "arr", items |-> items]
Obj(members) == [t |-> "obj", members |-> members]
Missing == [t |-> "missing"]

-----------------------------------------------------------------------------
(* What the API refuses *)

\* The member of a body or object, or Missing.
Member(members, k) == IF k \in DOMAIN members THEN members[k] ELSE Missing

Given(value) == value.t \notin {"missing", "null"}

Sum(lengths) == FoldLeft(LAMBDA a, b : a + b, 0, lengths)

\* nodeJsonTextLength, of a value on its own: a unit is a byte, quotes and marks
\* one each.
RECURSIVE TextLength(_)
TextLength(value) ==
  CASE value.t = "null" -> 4
    [] value.t = "bool" -> IF value.b THEN 4 ELSE 5
    [] value.t = "num" -> Len(value.n.int) + Len(value.n.frac)
    [] value.t = "str" -> Len(value.s) + 2
    [] value.t = "arr" ->
         1 + AtLeast(Len(value.items), 1) + Sum([i \in DOMAIN value.items |-> TextLength(value.items[i])])
    [] value.t = "obj" ->
         LET keys == SetToSeq(DOMAIN value.members)
         IN  1 + AtLeast(Len(keys), 1)
               + Sum([i \in DOMAIN keys |-> Len(keys[i]) + 3 + TextLength(value.members[keys[i]])])

TakesFilter(field, value) ==
  /\ field \notin Logical
  /\ Len(field) <= MaxFieldLength
  /\ TextLength(value) <= MaxFilterValueLength
  /\ value.t # "obj"

TakesFilters(filters) ==
  Given(filters) =>
    /\ filters.t = "obj"
    /\ Cardinality(DOMAIN filters.members) <= MaxFilterFields
    /\ \A field \in DOMAIN filters.members : TakesFilter(field, filters.members[field])

Orders == {"asc", "desc"}

\* A sort is given by its members `field' and `order', and no others.
TakesSort(sort) ==
  Given(sort) =>
    /\ sort.t = "obj" /\ DOMAIN sort.members = {"field", "order"}
    /\ sort.members["field"].t = "str" /\ sort.members["order"].t = "str"
    /\ Len(sort.members["field"].s) <= MaxFieldLength
    /\ sort.members["order"].s \in Orders

\* isU32: a number written in digits alone, and not too large.
IsCount(value) ==
  Given(value) =>
    /\ value.t = "num"
    /\ ~value.n.neg /\ value.n.frac = <<>> /\ value.n.exp = NoExp
    /\ DigitsValue(value.n.int) <= MaxCount

QueryKeys == {"filters", "search", "sort", "limit", "offset", "include_proof", "includes"}

\* queryRefusal: the API takes the body.
Takes(body) ==
  /\ DOMAIN body \subseteq QueryKeys
  /\ TakesFilters(Member(body, "filters"))
  /\ ~Given(Member(body, "search"))
  /\ Member(body, "includes") \in {Missing, Arr(<<>>)}
  /\ TakesSort(Member(body, "sort"))
  /\ IsCount(Member(body, "limit")) /\ IsCount(Member(body, "offset"))
  /\ Given(Member(body, "include_proof")) => Member(body, "include_proof").t = "bool"

Count(value, fallback) == IF Given(value) THEN DigitsValue(value.n.int) ELSE fallback

\* querySelection of a body the API takes.
Selection(body) ==
  LET filters == Member(body, "filters")
      sort == Member(body, "sort")
  IN  [filters |-> IF Given(filters) THEN filters.members ELSE <<>>,
       sorted |-> Given(sort),
       by |-> IF Given(sort) THEN sort.members["field"].s ELSE <<>>,
       descending |-> Given(sort) /\ sort.members["order"].s = "desc",
       offset |-> Count(Member(body, "offset"), 0),
       limit |-> Count(Member(body, "limit"), DefaultLimit)]

-----------------------------------------------------------------------------
(* Fields, equality and order *)

\* field.split('.').
Parts(field) ==
  FoldLeft(LAMBDA parts, u : IF u = Dot THEN Append(parts, <<>>)
                             ELSE [parts EXCEPT ![Len(parts)] = Append(@, u)],
           << <<>> >>, field)

FieldValue(doc, field) ==
  FoldLeft(LAMBDA value, part : IF value.t = "obj" THEN Member(value.members, part) ELSE Missing,
           doc, Parts(field))

RECURSIVE NodeJsonEqual(_, _)
NodeJsonEqual(a, b) ==
  /\ a.t = b.t
  /\ CASE a.t = "num" -> NodeNumbersEqual(a.n, b.n)
       [] a.t = "arr" -> /\ Len(a.items) = Len(b.items)
                         /\ \A i \in DOMAIN a.items : NodeJsonEqual(a.items[i], b.items[i])
       [] a.t = "obj" -> /\ DOMAIN a.members = DOMAIN b.members
                         /\ \A k \in DOMAIN a.members : NodeJsonEqual(a.members[k], b.members[k])
       [] OTHER -> a = b

Order(x, y) == IF x < y THEN -1 ELSE IF x > y THEN 1 ELSE 0

IsPair(s, i) == i < Len(s) /\ s[i] \in High /\ s[i + 1] \in Low

CodePointAt(s, i) == IF IsPair(s, i) THEN (MaxUnit + 1) * s[i] + s[i + 1] ELSE s[i]

RECURSIVE CompareCodePoints(_, _)
CompareCodePoints(a, b) ==
  IF a = <<>> \/ b = <<>> THEN Order(Len(a), Len(b))
  ELSE IF CodePointAt(a, 1) # CodePointAt(b, 1) THEN Order(CodePointAt(a, 1), CodePointAt(b, 1))
  ELSE LET width == IF IsPair(a, 1) THEN 2 ELSE 1
       IN  CompareCodePoints(SubSeq(a, width + 1, Len(a)), SubSeq(b, width + 1, Len(b)))

\* A double's place among the doubles: the larger power is the larger double.
CompareDoubles(x, y) ==
  LET Place(d) == (d.power - MinPower) * 2^Precision + d.q
      Side(d) == IF d.neg THEN -Place(d) ELSE Place(d)
  IN  Order(Side(x), Side(y))

\* A number without a double comes before those with one.
CompareNumbers(x, y) ==
  IF x = Infinity \/ y = Infinity THEN Order(IF x = Infinity THEN 0 ELSE 1, IF y = Infinity THEN 0 ELSE 1)
  ELSE CompareDoubles(x, y)

Rank == [missing |-> 0, null |-> 1, bool |-> 2, num |-> 3, str |-> 4, arr |-> 5, obj |-> 6]

\* compareKeys, of the values at the sort's field.
CompareKeys(a, b) ==
  IF a.t # b.t THEN Order(Rank[a.t], Rank[b.t])
  ELSE CASE a.t = "bool" -> Order(IF a.b THEN 1 ELSE 0, IF b.b THEN 1 ELSE 0)
         [] a.t = "num" -> CompareNumbers(SortNumber(a.n), SortNumber(b.n))
         [] a.t = "str" -> CompareCodePoints(a.s, b.s)
         [] OTHER -> 0

-----------------------------------------------------------------------------
(* The selection *)

OrderBy(a, b, by) == CompareKeys(FieldValue(a, by), FieldValue(b, by))

\* (With the bug of reversing ties with the rest when the sort descends.)
GoesBeforeReversed(order, i, j, descending) ==
  IF order = 0 THEN (IF descending THEN i > j ELSE i < j)
  ELSE IF descending THEN order > 0 ELSE order < 0

\* Whether the i-th document goes before the j-th, given the order of their
\* keys: ties keep key order, whatever the direction.
GoesBefore(order, i, j, descending) ==
  IF order = 0 THEN i < j ELSE IF descending THEN order > 0 ELSE order < 0

\* sortDocuments, as an insertion sort of the places.
SortDocuments(docs, by, descending) ==
  LET Goes(i, j) == GoesBefore(OrderBy(docs[i], docs[j], by), i, j, descending)
      Insert(sorted, j) == InsertAt(sorted, 1 + Len(SelectSeq(sorted, LAMBDA i : Goes(i, j))), j)
      places == FoldLeft(Insert, <<>>, [i \in DOMAIN docs |-> i])
  IN  [i \in DOMAIN docs |-> docs[places[i]]]

Matches(doc, filters) ==
  \A field \in DOMAIN filters :
    /\ FieldValue(doc, field) # Missing
    /\ NodeJsonEqual(FieldValue(doc, field), filters[field])

\* What stops the selection: an element that does not decode, or an item the
\* node may read differently.
NotReproducible(entries) ==
  \E i \in DOMAIN entries : entries[i].is \in {"undecodable", "irreproducible"}

\* selectDocuments, before offset and limit: references, other elements and
\* items that are not JSON are passed over.
Ordered(entries, selection) ==
  LET docs == SelectSeq(entries, LAMBDA e : e.is = "doc")
      matching == SelectSeq([i \in DOMAIN docs |-> docs[i].doc], LAMBDA d : Matches(d, selection.filters))
  IN  IF selection.sorted THEN SortDocuments(matching, selection.by, selection.descending) ELSE matching

Page(docs, offset, limit) ==
  SubSeq(docs, offset + 1, IF offset + limit < Len(docs) THEN offset + limit ELSE Len(docs))

-----------------------------------------------------------------------------
(* Values in JavaScript *)

\* nodeJsonToJs.
RECURSIVE ToJs(_)
ToJs(value) ==
  CASE value.t = "num" -> [t |-> "num", d |-> ParseF64(value.n)]
    [] value.t = "arr" -> Arr([i \in DOMAIN value.items |-> ToJs(value.items[i])])
    [] value.t = "obj" -> Obj([k \in DOMAIN value.members |-> ToJs(value.members[k])])
    [] OTHER -> value

\* isFidelitySafeNumber.
IsFidelitySafe(double) == double.q # -1 /\ (double.q = 0 => ~double.neg)

RECURSIVE JsonDeepEqual(_, _)
JsonDeepEqual(a, b) ==
  /\ a.t = b.t
  /\ CASE a.t = "num" -> a.d = b.d /\ IsFidelitySafe(a.d)
       [] a.t = "arr" -> /\ Len(a.items) = Len(b.items)
                         /\ \A i \in DOMAIN a.items : JsonDeepEqual(a.items[i], b.items[i])
       [] a.t = "obj" -> /\ DOMAIN a.members = DOMAIN b.members
                         /\ \A k \in DOMAIN a.members : JsonDeepEqual(a.members[k], b.members[k])
       [] OTHER -> a = b

\* inexactNumber, firstInexactNumber: whether there is none.
RECURSIVE AllExact(_)
AllExact(value) ==
  CASE value.t = "num" -> IsExactJsonNumber(value.n)
    [] value.t = "arr" -> \A i \in DOMAIN value.items : AllExact(value.items[i])
    [] value.t = "obj" -> \A k \in DOMAIN value.members : AllExact(value.members[k])
    [] OTHER -> TRUE

\* documentBindsTo, and requireValueBinds of one value.
BindsTo(proven, document) == AllExact(proven) /\ JsonDeepEqual(ToJs(proven), document)

\* bindDocumentsToProof: each of the documents is a proven value.
AllBind(proven, documents) ==
  \A i \in DOMAIN documents : \E j \in DOMAIN proven : BindsTo(proven[j], documents[i])

\* (With the bug of not comparing the total.)
CheckPageOnly(entries, selection, answer) ==
  LET page == Page(Ordered(entries, selection), selection.offset, selection.limit)
  IN  IF NotReproducible(entries) THEN "not_verifiable"
      ELSE IF /\ answer.offset = selection.offset /\ answer.limit = selection.limit
              /\ Len(answer.documents) = Len(page)
              /\ \A i \in DOMAIN page : BindsTo(page[i], answer.documents[i])
      THEN "accepted"
      ELSE "refused"

\* checkQueryResult.
CheckQueryResult(entries, selection, answer) ==
  LET ordered == Ordered(entries, selection)
      page == Page(ordered, selection.offset, selection.limit)
  IN  IF NotReproducible(entries) THEN "not_verifiable"
      ELSE IF /\ answer.total = Len(ordered)
              /\ answer.offset = selection.offset /\ answer.limit = selection.limit
              /\ Len(answer.documents) = Len(page)
              /\ \A i \in DOMAIN page : BindsTo(page[i], answer.documents[i])
      THEN "accepted"
      ELSE "refused"

\* verifyQuerySelection. Nothing is sent for a body that is irreproducible, in
\* which an object's first key is a private token (readBody): the node reads that
\* object as something else.
VerifyQuerySelection(body, irreproducible, entries, answer) ==
  IF irreproducible THEN "query_not_verifiable"
  ELSE IF ~Takes(body) THEN "not_sent"
  ELSE CheckQueryResult(entries, Selection(body), answer)
=============================================================================
