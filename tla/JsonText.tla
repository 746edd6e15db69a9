------------------------------ MODULE JsonText ------------------------------
(***************************************************************************)
(* Reading a document's JSON as the node reads it: Parser of               *)
(* proof/node-json.ts, over a text of tokens.  A string or a number is one *)
(* token: one in BadTokens is refused (a lone surrogate, a leading zero, a *)
(* byte that is not UTF-8), and an object whose first key is in            *)
(* PrivateTokens cannot be read as the node reads it.                      *)
(*                                                                         *)
(* A value is a record of its kind: [t |-> "atom", v |-> token],           *)
(* [t |-> "arr", v |-> values] or [t |-> "obj", v |-> function of keys].   *)
(***************************************************************************)
EXTENDS Naturals, Sequences, FiniteSets

CONSTANTS
  Strings,        \* string tokens
  PrivateTokens,  \* those that are serde_json's private tokens
  Literals,       \* null, true, false and number tokens
  BadTokens,      \* strings and numbers that are not well formed
  Space,          \* white space
  MaxNesting      \* arrays and objects within one another

Marks == {"[", "]", "{", "}", ":", ","}

Tokens == Marks \cup Strings \cup Literals \cup BadTokens \cup {Space}

\* What reading from a place gives: a value and the place after it, or why not.
Refused == [is |-> "refused"]
Irreproducible == [is |-> "irreproducible"]
ReadTo(value, at) == [is |-> "read", value |-> value, at |-> at]

Atom(token) == [t |-> "atom", v |-> token]
Arr(items) == [t |-> "arr", v |-> items]
Obj(members) == [t |-> "obj", v |-> members]

NoToken == "end"

TokenAt(text, i) == IF i <= Len(text) THEN text[i] ELSE NoToken

RECURSIVE SkipSpace(_, _)
SkipSpace(text, i) == IF TokenAt(text, i) = Space THEN SkipSpace(text, i + 1) ELSE i

\* Duplicate keys keep the last value.
WithMember(members, key, value) ==
  [k \in DOMAIN members \cup {key} |-> IF k = key THEN value ELSE members[k]]

RECURSIVE Value(_, _, _)
RECURSIVE Items(_, _, _, _)
RECURSIVE Members(_, _, _, _)

\* Parser.value.
Value(text, from, nesting) ==
  LET i == SkipSpace(text, from)
      token == TokenAt(text, i)
      inside == SkipSpace(text, i + 1)
  IN  IF token \in Strings \cup Literals THEN ReadTo(Atom(token), i + 1)
      ELSE IF token \notin {"[", "{"} \/ nesting + 1 > MaxNesting THEN Refused
      ELSE IF token = "["
           THEN IF TokenAt(text, inside) = "]" THEN ReadTo(Arr(<<>>), inside + 1)
                ELSE Items(text, inside, nesting + 1, <<>>)
      ELSE IF TokenAt(text, inside) = "}" THEN ReadTo(Obj(<<>>), inside + 1)
           ELSE Members(text, inside, nesting + 1, <<>>)

\* Parser.array, from an item on.
Items(text, from, nesting, before) ==
  LET item == Value(text, from, nesting)
      next == SkipSpace(text, item.at)
  IN  IF item.is # "read" THEN item
      ELSE IF TokenAt(text, next) = "]" THEN ReadTo(Arr(Append(before, item.value)), next + 1)
      ELSE IF TokenAt(text, next) = "," THEN Items(text, next + 1, nesting, Append(before, item.value))
      ELSE Refused

\* (With the bug of looking for a private token among all keys but the first.)
IsPrivateLater(key, before) == key \in PrivateTokens /\ before # <<>>

\* serde_json reads only an object's first key as its token.
IsPrivate(key, before) == key \in PrivateTokens /\ before = <<>>

\* Parser.object, from a member on.
Members(text, from, nesting, before) ==
  LET i == SkipSpace(text, from)
      key == TokenAt(text, i)
      colon == SkipSpace(text, i + 1)
      member == Value(text, colon + 1, nesting)
      next == SkipSpace(text, member.at)
      members == WithMember(before, key, member.value)
  IN  IF key \notin Strings THEN Refused
      ELSE IF IsPrivate(key, before) THEN Irreproducible
      ELSE IF TokenAt(text, colon) # ":" THEN Refused
      ELSE IF member.is # "read" THEN member
      ELSE IF TokenAt(text, next) = "}" THEN ReadTo(Obj(members), next + 1)
      ELSE IF TokenAt(text, next) = "," THEN Members(text, next + 1, nesting, members)
      ELSE Refused

\* parseNodeJsonText: nothing but white space may follow the value.
ParseText(text) ==
  LET read == Value(text, 1, 0)
  IN  IF read.is # "read" THEN read
      ELSE IF SkipSpace(text, read.at) = Len(text) + 1 THEN read
      ELSE Refused
=============================================================================
