----------------------------- MODULE SchemaText -----------------------------
(***************************************************************************)
(* The schema of a data or file subgrove, as JSON text: serializeSchema    *)
(* writes it, and checkStorageSchema reads it as the chain does, in one    *)
(* pass over its tokens, before a registration is signed                   *)
(* (consensus/schema.ts). A string token may write its string with         *)
(* escapes: Decoded is what it stands for.                                 *)
(*                                                                         *)
(* A reader gives the place after what it read, or Fail.                   *)
(***************************************************************************)
EXTENDS Naturals, Sequences, FiniteSets, SequencesExt

CONSTANTS
  StringTokens,  \* string tokens, however written
  Decoded,       \* the string each of them stands for
  IllFormed,     \* strings with a lone surrogate
  U32Tokens,     \* number tokens that are integers in u32, written as such
  AtomTokens,    \* other numbers, true, false and null
  Blank,         \* white space
  FieldTypes,    \* the chain's field types
  NamesInOrder,  \* field names in the order of their code points
  Absent,        \* an optional value left out
  Deepest        \* bound: nesting of a text that is read as JSON

SchemaKeys == <<"version", "fields", "indexes", "required_fields">>

\* JSON.parse.
Js == INSTANCE JsonText WITH
  Strings <- StringTokens, PrivateTokens <- {}, Literals <- U32Tokens \cup AtomTokens,
  BadTokens <- {}, Space <- Blank, MaxNesting <- Deepest

Fail == 0

\* The place of the next token, and it.
Next1(text, i) == Js!SkipSpace(text, i)
Peek(text, i) == Js!TokenAt(text, Next1(text, i))

Eat(text, i, token) == IF i # Fail /\ Peek(text, i) = token THEN Next1(text, i) + 1 ELSE Fail

IsString(token) == token \in StringTokens

EatString(text, i, strings) ==
  IF IsString(Peek(text, i)) /\ Decoded[Peek(text, i)] \in strings THEN Next1(text, i) + 1 ELSE Fail

AnyString == {Decoded[t] : t \in StringTokens}
WellFormedStrings == AnyString \ IllFormed

-----------------------------------------------------------------------------
(* Reading *)

RECURSIVE SkipFrom(_, _, _)
SkipFrom(text, i, depth) ==
  LET token == Peek(text, i)
      deeper == IF token \in {"{", "["} THEN depth + 1
                ELSE IF token \in {"}", "]"} THEN depth - 1 ELSE depth
  IN  IF token = Js!NoToken THEN Fail
      ELSE IF deeper = 0 THEN Next1(text, i) + 1
      ELSE SkipFrom(text, Next1(text, i) + 1, deeper)

Skip(text, i) == SkipFrom(text, i, 0)

ReadVersion(text, i) == IF Peek(text, i) \in U32Tokens THEN Next1(text, i) + 1 ELSE Fail

\* A type's name, or an object of that one key with null.
ReadFieldType(text, i) ==
  IF Peek(text, i) # "{" THEN EatString(text, i, FieldTypes)
  ELSE LET variant == EatString(text, Next1(text, i) + 1, FieldTypes)
           value == Eat(text, Eat(text, variant, ":"), "null")
       IN  IF variant = Fail THEN Fail ELSE Eat(text, value, "}")

RECURSIVE ReadFieldsFrom(_, _)
ReadFieldsFrom(text, i) ==
  LET field == EatString(text, i, WellFormedStrings)
      type == ReadFieldType(text, Eat(text, field, ":"))
  IN  IF field = Fail \/ type = Fail THEN Fail
      ELSE IF Peek(text, type) = "," THEN ReadFieldsFrom(text, Next1(text, type) + 1)
      ELSE Eat(text, type, "}")

ReadFields(text, i) ==
  LET inside == Eat(text, i, "{")
  IN  IF inside = Fail THEN Fail
      ELSE IF Peek(text, inside) = "}" THEN Eat(text, inside, "}")
      ELSE ReadFieldsFrom(text, inside)

RECURSIVE ReadNamesFrom(_, _)
ReadNamesFrom(text, i) ==
  LET name == EatString(text, i, WellFormedStrings)
  IN  IF name = Fail THEN Fail
      ELSE IF Peek(text, name) = "," THEN ReadNamesFrom(text, Next1(text, name) + 1)
      ELSE Eat(text, name, "]")

ReadRequiredFields(text, i) ==
  LET inside == Eat(text, i, "[")
  IN  IF inside = Fail THEN Fail
      ELSE IF Peek(text, inside) = "]" THEN Eat(text, inside, "]")
      ELSE ReadNamesFrom(text, inside)

\* Only an empty list: an index is not supported.
ReadIndexes(text, i) == Eat(text, Eat(text, i, "["), "]")

ReadSchemaPart(text, i, key) ==
  CASE key = "version" -> ReadVersion(text, i)
    [] key = "fields" -> ReadFields(text, i)
    [] key = "indexes" -> ReadIndexes(text, i)
    [] key = "required_fields" -> ReadRequiredFields(text, i)

\* (With the bug of comparing keys as they are written.)
NamesWritten(token) == token

\* What a key is compared as.
Names(token) == Decoded[token]

RECURSIVE ReadKeys(_, _, _)
ReadKeys(text, i, seen) ==
  LET key == Names(Peek(text, i))
      value == Next1(text, Next1(text, i) + 1) + 1
      known == key \in Range(SchemaKeys)
      after == IF known THEN ReadSchemaPart(text, value, key) ELSE Skip(text, value)
  IN  /\ key \notin IllFormed /\ key \notin seen
      /\ after # Fail
      /\ Peek(text, after) = "," =>
           ReadKeys(text, Next1(text, after) + 1, seen \cup {k \in {key} : known})

RECURSIVE ReadPlaces(_, _, _)
ReadPlaces(text, i, place) ==
  /\ place <= Len(SchemaKeys)
  /\ LET after == ReadSchemaPart(text, i, SchemaKeys[place])
     IN  /\ after # Fail
         /\ Peek(text, after) = "," => ReadPlaces(text, Next1(text, after) + 1, place + 1)

\* checkStorageSchema, with what JSON.parse takes.
CheckStorageSchema(text) ==
  /\ Js!ParseText(text).is = "read"
  /\ LET inside == Next1(text, 1) + 1
     IN  CASE Peek(text, 1) = "{" -> Peek(text, inside) = "}" \/ ReadKeys(text, inside, {})
           [] Peek(text, 1) = "[" -> Peek(text, inside) = "]" \/ ReadPlaces(text, inside, 1)
           [] OTHER -> FALSE

-----------------------------------------------------------------------------
(* Writing *)

Or(value, default) == IF value = Absent THEN default ELSE value

\* A field of a definition: [type, indexed, required], the flags of one given
\* as its type alone being FALSE.
Serializes(definition) ==
  /\ Or(definition.version, "1") \in U32Tokens
  /\ definition.indexes = <<>>
  /\ Range(definition.required) \cup DOMAIN definition.fields \subseteq WellFormedStrings
  /\ \A f \in DOMAIN definition.fields :
       definition.fields[f].type \in FieldTypes /\ ~definition.fields[f].indexed

\* The required fields: those listed, then those marked and not listed.
RequiredFields(definition) ==
  definition.required
    \o SelectSeq(NamesInOrder, LAMBDA f : /\ f \in DOMAIN definition.fields
                                          /\ definition.fields[f].required
                                          /\ f \notin Range(definition.required))

WithCommas(parts) ==
  FlattenSeq([i \in DOMAIN parts |-> IF i = 1 THEN parts[i] ELSE <<",">> \o parts[i]])

\* serializeSchema.
SerializeSchema(definition) ==
  LET ordered == SelectSeq(NamesInOrder, LAMBDA f : f \in DOMAIN definition.fields)
      fields == [i \in DOMAIN ordered |-> <<ordered[i], ":", definition.fields[ordered[i]].type>>]
      required == [i \in DOMAIN RequiredFields(definition) |-> <<RequiredFields(definition)[i]>>]
  IN  <<"{", "version", ":", Or(definition.version, "1"), ",", "fields", ":", "{">> \o WithCommas(fields)
        \o <<"}", ",", "indexes", ":", "[", "]", ",", "required_fields", ":", "[">>
        \o WithCommas(required) \o <<"]", "}">>
=============================================================================
