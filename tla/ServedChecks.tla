---------------------------- MODULE ServedChecks ----------------------------
(***************************************************************************)
(* Checks a client makes of what an indexer serves, each as the step from  *)
(* what is checked to what the check makes of it: a block's logs, Ethereum *)
(* state, an answer with transformation proofs, a proof of several layers, *)
(* and the numbers of stored documents.                                    *)
(***************************************************************************)
EXTENDS EventSet, EthTrie, VerifiableRpc, GroveLayers, JsonNumbers

CONSTANT Unit  \* bound: the smallest power of ten of a number's digits, as 10^-Unit

ASSUME ServedAssumption ==
  /\ {MaxByte, AddressLen, TopicLen} \subseteq Nat
  /\ DomainTag \in Seq(Nat)
  /\ Unit \in Nat

VARIABLES input, verdict

vars == <<input, verdict>>

NotChecked == [of |-> "nothing"]

Checks(kind) == input.kind = kind /\ verdict = NotChecked /\ UNCHANGED input

-----------------------------------------------------------------------------
(* The checks *)

CheckEvents ==
  /\ Checks("events")
  /\ verdict' \in [of : {"events"}, result : BlockCompleteness(input.block, input.validator, input.indexer)]

CheckTrie ==
  /\ Checks("trie")
  /\ verdict' = [of |-> "trie", ok |-> VerifyMptProof(input.root, input.key, input.value, input.nodes)]

CheckState ==
  /\ Checks("state")
  /\ verdict' = [of |-> "state", ok |-> GetState(input.proof, input.mode), mode |-> input.mode]

CheckRpc ==
  /\ Checks("rpc")
  /\ verdict' = [of |-> "rpc", result |-> Verify(input.answer, input.artifacts, input.options)]

\* What a client may take a proof to show at some paths: presence, absence, all
\* there is; and whether quickVerify accepts it.
CheckLayers ==
  /\ Checks("layers")
  /\ verdict' = [of |-> "layers",
       present |-> {c \in input.claims : ProvesItem(input.proof, c.path, c.key, c.value)},
       absent |-> {c \in input.claims : ProvesAbsent(input.proof, c.path, c.key)},
       whole |-> {c \in input.claims : RevealsWhole(input.proof, c.path)},
       root |-> QuickVerifies(input.proof.envelope)]

\* The numbers of two texts, to the node and to JavaScript.
CheckNumbers ==
  /\ Checks("numbers")
  /\ verdict' = [of |-> "numbers",
                 equal |-> NodeNumbersEqual(CanonicalNumber(input.first), CanonicalNumber(input.second)),
                 double |-> ParseF64(input.first),
                 exact |-> IsExactJsonNumber(input.first) /\ IsExactJsonNumber(input.second),
                 same |-> ParseF64(input.first) = ParseF64(input.second)]

CheckServed ==
  \/ CheckEvents \/ CheckTrie \/ CheckState \/ CheckRpc
  \/ CheckLayers \/ CheckNumbers

-----------------------------------------------------------------------------
(* What the chain is to what is checked: a block's commitment is that of the *)
(* logs it matched, a root that of the trie of some entries, and an account's *)
(* storage the trie of its slots.                                             *)

IsList(s) == s \in Seq(Range(s))

\* Keys that a trie can have.
AreKeys(keys) ==
  /\ keys \subseteq Seq(Nibbles)
  /\ \A j, k \in keys : Len(j) = Len(k)

SlotsRoot(storage) == Trie([k \in DOMAIN storage |-> Rlp(storage[k])])

StateRoot(accounts) == Trie([k \in DOMAIN accounts |-> RlpAccount(accounts[k].account)])

CommittedLogs ==
  input.kind = "events" =>
    /\ input.block \in Nat /\ input.matched \in Seq(Log)
    /\ \A i \in DOMAIN input.matched : WellFormed(input.matched[i])
    /\ input.validator.is = "commitment" =>
         input.validator.hash = EventSetHash(input.block, input.matched)
    /\ input.indexer.is = "logs" => input.indexer.logs \in Seq(Log)

CommittedEntries ==
  input.kind = "trie" =>
    /\ AreKeys(DOMAIN input.entries) /\ input.key \in Seq(Nibbles)
    /\ input.root = Trie(input.entries) /\ IsList(input.nodes)

CommittedState ==
  input.kind = "state" =>
    /\ AreKeys(DOMAIN input.accounts)
    /\ \A k \in DOMAIN input.accounts :
         LET storage == input.accounts[k].storage
         IN  /\ AreKeys(DOMAIN storage)
             /\ input.accounts[k].account.storage = SlotsRoot(storage)
    /\ input.proof.root = StateRoot(input.accounts)
    /\ input.proof.address \in Seq(Nibbles) /\ IsList(input.proof.nodes)
    /\ \A i \in DOMAIN input.proof.slots :
         input.proof.slots[i].slot \in Seq(Nibbles) /\ IsList(input.proof.slots[i].nodes)

AttachedChunks == input.kind = "rpc" => IsList(input.answer.chunks)

\* What is decoded as an envelope: a layer is held by the one above it.
DecodedLayers ==
  input.kind = "layers" =>
    LET paths == DOMAIN input.proof.envelope
    IN  /\ <<>> \in paths
        /\ \A q \in paths : IsList(q) /\ (q # <<>> => Front(q) \in paths)
        /\ \A c \in input.claims : IsList(c.path)

\* What is read as a number, its last digit's place within Unit.
IsNumberText(text) ==
  /\ text \in [neg : BOOLEAN, int : Seq(0 .. 9), frac : Seq(0 .. 9), exp : Int \cup {NoExp}]
  /\ Unit + Exponent(text) - Len(text.frac) >= 0

ReadNumbers == input.kind = "numbers" => IsNumberText(input.first) /\ IsNumberText(input.second)

Committed ==
  /\ CommittedLogs /\ CommittedEntries /\ CommittedState /\ AttachedChunks
  /\ DecodedLayers /\ ReadNumbers

ServedSpec == verdict = NotChecked /\ Committed /\ [][CheckServed]_vars

-----------------------------------------------------------------------------
(* Properties *)

\* Logs are complete just when they are the ones the chain matched, in order:
\* no log can pass for part of another. A check that is not made says so
\* (verifyBlockCompleteness: "not verifiable, not incomplete").
CompleteIsAll ==
  verdict.of = "events" =>
    /\ verdict.result \in {"complete", "incomplete"} =>
         input.validator.is = "commitment" /\ input.indexer.is = "logs"
    /\ input.validator.is = "commitment" /\ input.indexer.is = "logs"
         /\ (\A i \in DOMAIN input.indexer.logs : WellFormed(input.indexer.logs[i])) =>
       (verdict.result = "complete" <=> input.indexer.logs = input.matched)

\* A value that is proven is the one the trie has at the key, and the nodes on
\* the way to a key prove its value, unless a node holds the one below it
\* (verifyMptProof). An account and slots that verify are those of the state the
\* root is of, each slot that account's own, when the mode they are reported with is
\* Strict; a slot that is 0 never verifies (verifyStateProof, getState).
ProvenIsInTheTrie ==
  /\ verdict.of = "trie" =>
       /\ verdict.ok /\ input.value # EmptyBytes =>
            input.key \in DOMAIN input.entries /\ input.entries[input.key] = input.value
       /\ LET way == WayTo(input.root, input.key)
          IN  /\ input.nodes = way /\ ~HasInline(way)
              /\ input.key \in DOMAIN input.entries /\ input.entries[input.key] = input.value
              => verdict.ok
  /\ verdict.of = "state" /\ verdict.ok /\ verdict.mode = "Strict" =>
       /\ input.proof.address \in DOMAIN input.accounts
       /\ input.accounts[input.proof.address].account = input.proof.account
       /\ \A i \in DOMAIN input.proof.slots :
            LET slot == input.proof.slots[i]
                storage == input.accounts[input.proof.address].storage
            IN  slot.slot \in DOMAIN storage /\ storage[slot.slot] = slot.value

\* The roots that n transformations lead to from a root.
Reached(root, n) ==
  LET After[m \in 0 .. n] ==
        IF m = 0 THEN {root} ELSE {a.output : a \in {b \in Applied : b.start \in After[m - 1]}}
  IN  After[n]

\* A root reported as transformed is one that the attached chunks lead to, each
\* from where the one before it ends (verifyTransformationProofs).
TransformedIsReached ==
  verdict.of = "rpc" /\ verdict.result.code = "ok" /\ verdict.result.transformation = "true" =>
    /\ input.answer.chunks # <<>>
    /\ verdict.result.root \in Reached(input.answer.chunks[1].start, Len(input.answer.chunks))

\* The trees of the state down a path, the empty one where it leads nowhere.
TreeUnder(tree, k) ==
  IF k \in DOMAIN tree /\ IsTree(tree[k]) THEN tree[k].root ELSE <<>>

TreesOn(state, path) ==
  LET At[n \in 0 .. Len(path)] == IF n = 0 THEN state ELSE TreeUnder(At[n - 1], path[n])
  IN  At

TreeAt(state, path) == TreesOn(state, path)[Len(path)]

\* A proof whose layers are those of the state down a path, shown whole, as far as
\* an empty subtree or the path's end.
LeadsTo(proof, state, path) ==
  LET trees == TreesOn(state, path)
  IN  /\ proof.options = "default"
      /\ \E depth \in 0 .. Len(path) :
           /\ DOMAIN proof.envelope = {SubSeq(path, 1, n) : n \in 0 .. depth}
           /\ \A n \in 0 .. depth :
                LET layer == proof.envelope[SubSeq(path, 1, n)]
                IN  /\ layer.tree = trees[n]
                    /\ n > 0 => trees[n] # <<>>
                    /\ \A k \in DOMAIN layer.tree : layer.shown[k] = "value"
           /\ depth < Len(path) =>
                path[depth + 1] \in DOMAIN trees[depth] /\ trees[depth][path[depth + 1]] = EmptySubtree

\* What a proof with the state's root proves at a path is so in the state's tree
\* there, whatever its layers are called and left out: an item is there, a key
\* is not, and the entries of a whole layer are all. And a prover that goes down
\* the path and shows all of the trees on it is believed, of every key there is
\* and is not, and of the whole when no entry is a subtree with entries
\* (verifySubgroveItem, verifyKeyAbsence, verifyCompleteLayer, quickVerify).
ProvenIsSo ==
  verdict.of = "layers" =>
    /\ RootHash(input.proof.envelope[<<>>]) = input.state =>
         /\ \A c \in verdict.present :
              LET tree == TreeAt(input.state, c.path)
              IN  c.key \in DOMAIN tree /\ tree[c.key] = Item(c.value)
         /\ \A c \in verdict.absent : c.key \notin DOMAIN TreeAt(input.state, c.path)
         /\ \A c \in verdict.whole : WholeEntries(input.proof, c.path) = TreeAt(input.state, c.path)
    /\ \A c \in input.claims :
         LET tree == TreeAt(input.state, c.path)
         IN  LeadsTo(input.proof, input.state, c.path) =>
               /\ c.key \in DOMAIN tree /\ tree[c.key] = Item(c.value) => c \in verdict.present
               /\ c.key \notin DOMAIN tree => c \in verdict.absent
               /\ (\A k \in DOMAIN tree : ~HasRootKey(tree[k])) => c \in verdict.whole
               /\ verdict.root

TenTo[n \in Nat] == IF n = 0 THEN 1 ELSE 10 * TenTo[n - 1]

\* The value a text writes, in units of 10^-Unit.
RealValue(text) ==
  LET n == DigitsValue(text.int \o text.frac) * TenTo[Unit + Exponent(text) - Len(text.frac)]
  IN  IF text.neg THEN -n ELSE n

\* A text whose exponent, and the powers of ten of its first and last digits, fit.
Fits(text) ==
  /\ FitsExp(Exponent(text))
  /\ FitsExp(Exponent(text) + Len(text.int) - 1)
  /\ FitsExp(Exponent(text) - Len(text.frac))

\* Two numbers that are equal to a filter have one value, and two of one value
\* are equal, in whatever form they are written, unless a power of ten in one is
\* past what the node computes in; and of the numbers taken to be exact no two of
\* different values are one number in JavaScript (nodeNumbersEqual: `1', `1.0'
\* and `1e0' are equal; isExactJsonNumber: "no two values that pass parse to the
\* same double").
EqualByValue ==
  verdict.of = "numbers" =>
    LET same == RealValue(input.first) = RealValue(input.second)
    IN  /\ verdict.equal => same
        /\ same /\ Fits(input.first) /\ Fits(input.second) => verdict.equal
        /\ verdict.exact /\ verdict.same => same
=============================================================================
