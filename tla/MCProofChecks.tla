---------------------------- MODULE MCProofChecks ---------------------------
(***************************************************************************)
(* Small inputs of every kind for ProofChecks. Doubles have three bits and *)
(* go from 1/8 to 14.                                                      *)
(***************************************************************************)
EXTENDS MCSignedWrites

CONSTANTS Root0, Root1, Root2, ValueV, ValueW, ShortValue

-----------------------------------------------------------------------------
(* Numbers *)

MCMinPower == -3
MCIntMin == -40
MCUnder == -2

NumberOf(sign, whole, fraction, power) == [neg |-> sign, int |-> whole, frac |-> fraction, exp |-> power]

MCNumbers ==
  [neg : BOOLEAN,
   int : {<<0>>, <<1>>, <<9>>, <<1, 0>>, <<1, 4>>},
   frac : {<<>>, <<0>>, <<5>>, <<2, 5>>, <<1, 2, 5>>, <<4, 9, 9>>, <<3, 1, 2, 5, 1>>, <<0, 6, 2, 5>>},
   exp : {NoExp, -1, 1}]

InitNumbers ==
  \E s, t \in MCNumbers : input = [kind |-> "numbers", first |-> s, second |-> t]

-----------------------------------------------------------------------------
(* Texts *)

S(text, value, depth, private) == [text |-> text, value |-> value, depth |-> depth, private |-> private]

Atoms == {S(<<a>>, Text!Atom(a), 0, FALSE) : a \in Strings \cup Literals}

Deeper(m, n) == 1 + IF m > n THEN m ELSE n

\* Arrays and objects of at most two of some values.
ArraysOf(values, others) ==
  {S(<<"[", "]">>, Text!Arr(<<>>), 1, FALSE)}
  \cup {S(<<"[">> \o x.text \o <<"]">>, Text!Arr(<<x.value>>), Deeper(x.depth, 0), x.private) : x \in values}
  \cup {S(<<"[">> \o x.text \o <<",">> \o y.text \o <<"]">>, Text!Arr(<<x.value, y.value>>),
          Deeper(x.depth, y.depth), x.private \/ y.private) : x \in values, y \in others}

ObjectsOf(values, others) ==
  {S(<<"{", "}">>, Text!Obj(<<>>), 1, FALSE)}
  \cup {S(<<"{", k, ":">> \o x.text \o <<"}">>, Text!Obj([j \in {k} |-> x.value]),
          Deeper(x.depth, 0), x.private \/ k \in PrivateTokens) : x \in values, k \in Strings}
  \cup {S(<<"{", k, ":">> \o x.text \o <<",", l, ":">> \o y.text \o <<"}">>,
          Text!Obj([j \in {k, l} |-> IF j = l THEN y.value ELSE x.value]),
          Deeper(x.depth, y.depth), x.private \/ y.private \/ k \in PrivateTokens) :
            x \in values, y \in others, k, l \in Strings}

Once == Atoms \cup ArraysOf(Atoms, Atoms) \cup ObjectsOf(Atoms, Atoms)
Twice == Once \cup ArraysOf(Once, Atoms) \cup ObjectsOf(Once, Atoms)

MCSentences == Twice \cup ArraysOf(Twice, {})

\* A text with one token more, less or another.
Edited(text) ==
  {RemoveAt(text, i) : i \in DOMAIN text}
  \cup {ReplaceAt(text, i, token) : i \in DOMAIN text, token \in Text!Tokens}
  \cup {InsertAt(text, i, token) : i \in 1 .. Len(text) + 1, token \in Text!Tokens}

InitText ==
  \E s \in MCSentences : \E text \in {s.text} \cup IF s.depth < 2 THEN Edited(s.text) ELSE {} :
    input = [kind |-> "text", text |-> text]

-----------------------------------------------------------------------------
(* Queries: units 1, a low surrogate 5 after a high one 4, and 6, which is a   *)
(* unit after both and a code point before their pair; 0 is the dot            *)

LowString == <<1>>
HighString == <<6>>
PairString == <<4, 5>>

MCAlphabetical == << <<>>, LowString, HighString, PairString >>

One == NumberOf(FALSE, <<1>>, <<>>, NoExp)
OneTenth == NumberOf(FALSE, <<1, 0>>, <<>>, -1)
MinusZero == NumberOf(TRUE, <<0>>, <<0>>, NoExp)
Nine == NumberOf(FALSE, <<9>>, <<>>, NoExp)
Huge == NumberOf(FALSE, <<1, 4>>, <<>>, 1)

FieldA == <<1>>
FieldAB == <<1, 0, 2>>

WithA(value) == Obj([k \in {FieldA} |-> value])

Docs ==
  {WithA(Num(n)) : n \in {One, OneTenth, MinusZero, Nine, Huge}}
  \cup {WithA(Str(s)) : s \in {HighString, PairString}}
  \cup {WithA(Null), WithA(Bool(TRUE)), Obj(<<>>), Null,
        WithA(Obj([k \in {<<2>>} |-> Num(One)]))}

FewDocs == {WithA(Num(OneTenth)), WithA(Num(Nine)), WithA(Num(One)), WithA(Str(PairString)), Obj(<<>>)}

Entries == {[is |-> "doc", doc |-> d] : d \in Docs}
FewEntries == {[is |-> "doc", doc |-> d] : d \in FewDocs}
AnyEntries == FewEntries \cup {[is |-> w] : w \in {"reference", "undecodable", "irreproducible"}}

EntryLists ==
  {<<>>} \cup {<<e>> : e \in Entries} \cup {<<e, f>> : e, f \in Entries}
  \cup {<<e, f>> : e, f \in AnyEntries} \cup {<<e, f, g>> : e, f \in FewEntries, g \in AnyEntries}

SortBy(order) == Obj([k \in {"field", "order"} |-> IF k = "field" THEN Str(FieldA) ELSE Str(order)])

CountOf(n) == Num(NumberOf(FALSE, <<n>>, <<>>, NoExp))

\* A body with some members.
Body(filters, sort, offset, limit) ==
  [k \in {"include_proof"} \cup {j \in {"filters", "sort", "offset", "limit"} :
            (CASE j = "filters" -> filters [] j = "sort" -> sort
               [] j = "offset" -> offset [] j = "limit" -> limit) # Missing} |->
     CASE k = "filters" -> filters [] k = "sort" -> sort [] k = "offset" -> offset
       [] k = "limit" -> limit [] OTHER -> Bool(TRUE)]

Filter(field, value) == Obj([k \in {field} |-> value])

Bodies ==
  {Body(Missing, sort, offset, limit) :
     sort \in {Missing, SortBy("asc"), SortBy("desc")}, offset \in {Missing, CountOf(1)},
     limit \in {Null, CountOf(1)}}
  \cup {Body(Filter(field, Num(One)), Missing, CountOf(1), Missing) : field \in {FieldA, FieldAB}}
  \cup {Body(Filter(FieldA, Obj(<<>>)), Missing, Missing, Missing),
        Body(Missing, SortBy("up"), Missing, Missing),
        Body(Missing, Missing, Missing, Num(OneTenth)),
        [k \in {"skip"} |-> CountOf(1)]}

\* The API's answer, or none when it reads a page otherwise.
Answer(entries, body) ==
  LET selection == Selection(body)
      ordered == Ordered(entries, selection)
      page == Page(ordered, selection.offset, selection.limit)
  IN  [total |-> Len(ordered), offset |-> selection.offset, limit |-> selection.limit,
       documents |-> [i \in DOMAIN page |-> ToJs(page[i])]]

\* That answer, and those that differ from it a little.
Answers(answer) ==
  {[answer EXCEPT !.documents = documents] :
     documents \in {answer.documents, Reverse(answer.documents)}
       \cup {RemoveAt(answer.documents, i) : i \in DOMAIN answer.documents}
       \cup {ReplaceAt(answer.documents, 1, ToJs(d)) : d \in IF answer.documents = <<>> THEN {} ELSE FewDocs}
       \cup {Append(answer.documents, ToJs(d)) : d \in FewDocs}}
  \cup {[answer EXCEPT !.total = @ + 1], [answer EXCEPT !.offset = @ + 1], [answer EXCEPT !.limit = @ + 1]}

NoAnswer == [total |-> 0, offset |-> 0, limit |-> 0, documents |-> <<>>]

InitQuery ==
  \E entries \in EntryLists, body \in Bodies :
    \E answer \in IF Takes(body) THEN Answers(Answer(entries, body)) ELSE {NoAnswer} :
      input = [kind |-> "query", entries |-> entries, body |-> body, answer |-> answer,
               irreproducible |-> FALSE]

\* A filter that is an object of a private token.
InitIrreproducible ==
  \E e \in Entries :
    input = [kind |-> "query", entries |-> <<e>>,
             body |-> Body(Filter(FieldA, Obj([k \in {<<2>>} |-> Num(One)])), Missing, Missing, Missing),
             answer |-> NoAnswer, irreproducible |-> TRUE]

-----------------------------------------------------------------------------
(* Layers *)

TreeT == [k \in {1, 3} |-> Item(IF k = 1 THEN "x" ELSE "y")]
TreeU == [k \in {2} |-> Item("x")]
TreeS ==
  [k \in 1 .. 3 |-> IF k = 1 THEN Subtree(TreeT) ELSE IF k = 2 THEN Subtree(TreeU) ELSE EmptySubtree]
MCState == [k \in 1 .. 2 |-> IF k = 1 THEN Subtree(TreeS) ELSE Item("x")]

\* Layers of a tree, each the root layer of an envelope that holds others by name.
LayersOf(tree) == [tree : {tree}, shown : [DOMAIN tree -> {"value", "digest", "hidden"}]]

Holding(layer, lower) ==
  [q \in {<<>>} \cup UNION {{<<name>> \o p : p \in DOMAIN lower[name]} : name \in DOMAIN lower} |->
     IF q = <<>> THEN layer ELSE lower[q[1]][Tail(q)]]

Alone(tree) == {Holding(layer, <<>>) : layer \in LayersOf(tree)}

EnvelopesOf(tree, lowers) == {Holding(layer, lower) : layer \in LayersOf(tree), lower \in lowers}

OneOf(names, envelopes) == {<<>>} \cup UNION {[{name} -> envelopes] : name \in names}

\* Lower layers under the names of the keys or others'.
Middle ==
  EnvelopesOf(TreeS,
    OneOf(1 .. 3, Alone(TreeT) \cup Alone(TreeU))
      \cup {[k \in {1, 2} |-> IF k = 1 THEN e ELSE f] : e \in Alone(TreeT), f \in Alone(TreeU)})

Envelopes == EnvelopesOf(MCState, OneOf(1 .. 2, Middle))

Claims ==
  [path : {<<1>>, <<1, 1>>, <<1, 2>>, <<1, 3>>, <<1, 4>>}, key : 1 .. 3, value : {"x", "y"}]

InitLayers ==
  \E envelope \in Envelopes :
    input = [kind |-> "layers", state |-> MCState, claims |-> Claims,
             proof |-> [envelope |-> envelope, options |-> "default"]]

-----------------------------------------------------------------------------
(* Logs *)

MCDomainTag == <<9, 9>>

LogPool ==
  [address : {<<0>>, <<1>>}, topics : {<<>>, << <<0>> >>}, data : {<<>>, <<0>>, <<0, 0>>}]

LogLists == {<<>>} \cup {<<m>> : m \in LogPool} \cup {<<m, n>> : m, n \in LogPool}

BadLog == [address |-> <<>>, topics |-> <<>>, data |-> <<>>]

InitEvents ==
  \/ \E matched, logs \in LogLists :
       input = [kind |-> "events", block |-> 1, matched |-> matched,
                validator |-> [is |-> "commitment", hash |-> EventSetHash(1, matched)],
                indexer |-> [is |-> "logs", logs |-> logs]]
  \/ \E validator \in {"commitment", "no_commitment", "empty", "failed"},
        indexer \in {"logs", "404", "409", "failed"}, logs \in {<<>>, <<BadLog>>} :
       input = [kind |-> "events", block |-> 1, matched |-> <<>>,
                validator |-> [is |-> validator, hash |-> EventSetHash(1, <<>>)],
                indexer |-> [is |-> indexer, logs |-> logs]]

-----------------------------------------------------------------------------
(* Ethereum *)

Values == {ValueV, ValueW, ShortValue}

Keys2 == {<<m, n>> : m, n \in Nibbles}

Maps(keys, values) == UNION {[K -> values] : K \in SUBSET keys \ {{}}}

\* The nodes to some key, the ways to two keys put together, or some of them.
ProofsIn(entries) ==
  LET ways == {WayTo(Trie(entries), k) : k \in Keys2}
  IN  {Tail(w) : w \in ways}
        \cup UNION {{SubSeq(w, 1, n) : n \in 0 .. Len(w)} : w \in ways}
        \cup UNION {{SubSeq(w, 1, n) \o SubSeq(x, n + 1, Len(x)) : n \in 1 .. Len(w) - 1} : w, x \in ways}

InitTrie ==
  \E entries \in Maps(Keys2, Values) :
    \E key \in Keys2, value \in Values \cup {EmptyBytes}, nodes \in ProofsIn(entries) :
      input = [kind |-> "trie", entries |-> entries, root |-> Trie(entries), key |-> key,
               value |-> value, nodes |-> nodes]

\* Accounts at two addresses; a slot's key is as long as an address.
Storages == Maps({<<0, 0>>, <<0, 1>>}, {1, 2}) \cup {<<>>}

AccountOf(balance, storage) == [balance |-> balance, storage |-> SlotsRoot(storage)]

StateOf(storage, other) ==
  [k \in {<<0, 0>>, <<1, 0>>} |->
     LET s == IF k = <<0, 0>> THEN storage ELSE other
     IN  [account |-> AccountOf(k[1], s), storage |-> s]]

\* The slots of either account with their proofs, claimed to be of a value.
SlotClaims(accounts) ==
  {<<>>} \cup UNION
    {{<<[slot |-> slot, value |-> value, nodes |-> WayTo(SlotsRoot(accounts[k].storage), at)]>> :
        slot, at \in {<<0, 0>>, <<0, 1>>}, value \in 0 .. 2} :
     k \in DOMAIN accounts}

InitState ==
  \E s, o \in Storages :
    LET accounts == StateOf(s, o)
    IN  \E address, k, at \in DOMAIN accounts, slots \in SlotClaims(accounts), mode \in StateVerifyModes :
          /\ mode = "Strict" \/ slots = <<>>
          /\ input = [kind |-> "state", accounts |-> accounts, mode |-> mode,
                      proof |-> [root |-> StateRoot(accounts), address |-> address,
                                 account |-> accounts[k].account,
                                 nodes |-> WayTo(StateRoot(accounts), at), slots |-> slots]]

-----------------------------------------------------------------------------
(* Transformations *)

MCApplied ==
  {[start |-> Root0, output |-> Root1, blocks |-> 1, config |-> "config"],
   [start |-> Root1, output |-> Root2, blocks |-> 2, config |-> "config"],
   [start |-> Root0, output |-> Root2, blocks |-> 3, config |-> "config"]}

ChunkOf(a, output, config, hash) ==
  [start |-> a.start, output |-> output, blocks |-> a.blocks, config |-> config, hash |-> hash,
   proves |-> [inputs |-> a, circuit |-> "circuit"]]

Chunks ==
  {ChunkOf(a, output, "config", hash) :
     a \in MCApplied, output \in {Root1, Root2}, hash \in {"circuit", "other"}}
  \cup {ChunkOf(a, a.output, "other", "circuit") : a \in MCApplied}

ChunkLists == {<<>>} \cup {<<c>> : c \in Chunks} \cup {<<c, d>> : c, d \in Chunks}

InitRpc ==
  \/ \E root \in {Root1, Root2}, proofRoot \in {Root1, Root2, NoRoot}, age \in {1, 2},
       chunks \in ChunkLists, served \in {"circuit", "forged"}, strict \in BOOLEAN :
       input = [kind |-> "rpc",
                answer |-> [root |-> root, proofRoot |-> proofRoot, age |-> age, chunks |-> chunks],
                artifacts |-> [hash \in {"circuit"} |-> [circuit |-> served, vk |-> "circuit"]],
                options |-> [strict |-> strict, maxAge |-> 1, anchorStateRoot |-> FALSE, verifier |-> TRUE]]
  \/ \E chunks \in {<<>>} \cup {<<c>> : c \in Chunks}, strict \in BOOLEAN :
       input = [kind |-> "rpc",
                answer |-> [root |-> Root1, proofRoot |-> Root1, age |-> 0, chunks |-> chunks],
                artifacts |-> [hash \in {"circuit"} |-> [circuit |-> "circuit", vk |-> "circuit"]],
                options |-> [strict |-> strict, maxAge |-> 1, anchorStateRoot |-> FALSE, verifier |-> FALSE]]
  \/ input = [kind |-> "rpc",
              answer |-> [root |-> Root1, proofRoot |-> Root1, age |-> 0, chunks |-> <<>>],
              artifacts |-> <<>>,
              options |-> [strict |-> TRUE, maxAge |-> 1, anchorStateRoot |-> TRUE, verifier |-> TRUE]]

Init ==
  /\ verdict = NotChecked
  /\ \/ InitNumbers \/ InitText \/ InitQuery \/ InitIrreproducible \/ InitLayers
     \/ InitEvents \/ InitTrie \/ InitState \/ InitRpc
     \/ InitSchema \/ InitDefinition \/ InitWrites

Spec == Init /\ [][Next]_vars
=============================================================================
