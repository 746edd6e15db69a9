----------------------------- MODULE GroveLayers ----------------------------
(***************************************************************************)
(* Proofs of several layers (grovedb/verifier.ts): the layers an envelope  *)
(* holds under one another, how each is bound to the one above it, and     *)
(* what a proof at a path shows to be there, absent or complete.           *)
(*                                                                         *)
(* A tree is a function of its keys; an element is an item or a reference, *)
(* with what it holds, an empty subtree, or a subtree, with its tree.  A   *)
(* root hash is the tree it commits to.  What one layer's merk proof shows *)
(* is MerkProof's matter: here it is `shown', how each key of its tree is  *)
(* revealed, by its value, by its key alone or not at all, and what it     *)
(* reveals is what its root commits to.                                    *)
(*                                                                         *)
(* An envelope is a function of the paths at which it has layers: <<>> is  *)
(* the root layer's, and q with a name after it is that of the layer which *)
(* q's layer holds under the name.  No hash binds the names.               *)
(***************************************************************************)
EXTENDS Integers, Sequences, SequencesExt

Item(v) == [type |-> "item", holds |-> v]
Reference(v) == [type |-> "reference", holds |-> v]
EmptySubtree == [type |-> "tree", root |-> <<>>]
Subtree(tree) == [type |-> "tree", root |-> tree]

IsTree(element) == element.type = "tree"
HasRootKey(element) == IsTree(element) /\ element.root # <<>>

\* The root a layer's proof hashes to.
RootHash(layer) == layer.tree

\* executeMerkProofWithQuery: the keys revealed by value.
ByValue(layer) == {k \in DOMAIN layer.tree : layer.shown[k] = "value"}

-----------------------------------------------------------------------------
(* The layers *)

\* The layer that holds the one at q, and the element it has under that one's name.
Holder(envelope, q) == envelope[Front(q)]
Named(envelope, q) == Holder(envelope, q).tree[Last(q)]

\* (With the bug of not comparing the lower layer's root with the subtree's.)
BoundBelowUnchecked(element, layer) == TRUE

\* The lower layer's root and the element's bytes make the hash the layer above
\* commits to.
BoundBelow(element, layer) == RootHash(layer) = element.root

\* verifyLayerProof, of all layers: a lower layer is under a key its holder
\* proves with a value, the key's element is a subtree with a root, and binds it.
LayersVerify(envelope) ==
  \A q \in DOMAIN envelope \ {<<>>} :
    /\ Last(q) \in ByValue(Holder(envelope, q))
    /\ HasRootKey(Named(envelope, q))
    /\ BoundBelow(Named(envelope, q), envelope[q])

\* What it surfaces of the layer at q: the keys without a lower layer. A subtree
\* with a root comes without its bytes.
Leaves(envelope, q) == {k \in ByValue(envelope[q]) : Append(q, k) \notin DOMAIN envelope}

Leaf(element) == IF HasRootKey(element) THEN [type |-> "unbound"] ELSE element

-----------------------------------------------------------------------------
(* A proof at a path *)

\* envelopeDepth: no layer is off the path or below it, and how many segments of
\* the path the layers go down.
IsOnPath(envelope, path) == DOMAIN envelope \subseteq Prefixes(path)

EnvelopeDepth(envelope, path) ==
  CHOOSE n \in 0 .. Len(path) :
    /\ SubSeq(path, 1, n) \in DOMAIN envelope
    /\ n < Len(path) => SubSeq(path, 1, n + 1) \notin DOMAIN envelope

Descends(proof, path) == EnvelopeDepth(proof.envelope, path) = Len(path)

\* A proof that stops on the path must prove the subtree it stops at empty.
EndsWell(envelope, path) ==
  LET depth == EnvelopeDepth(envelope, path)
      last == SubSeq(path, 1, depth)
  IN  depth < Len(path) =>
        /\ path[depth + 1] \in Leaves(envelope, last)
        /\ envelope[last].tree[path[depth + 1]] = EmptySubtree

\* verifyProof at a path.
VerifiesAt(proof, path) ==
  /\ proof.options = "default"
  /\ IsOnPath(proof.envelope, path)
  /\ LayersVerify(proof.envelope)
  /\ EndsWell(proof.envelope, path)

-----------------------------------------------------------------------------
(* Presence, absence, completeness *)

\* provenEntry, with verifySubgroveItem's rule that it be an item.
ProvesItem(proof, path, k, v) ==
  /\ VerifiesAt(proof, path)
  /\ path \in DOMAIN proof.envelope
  /\ k \in Leaves(proof.envelope, path)
  /\ Leaf(proof.envelope[path].tree[k]) = Item(v)

\* (With the bug of asking for a key on either side.)
MerkProvesAbsentBetween(layer, k) ==
  /\ k \notin DOMAIN layer.tree
  /\ \E i, j \in DOMAIN layer.tree :
       /\ i < k /\ k < j /\ {layer.shown[i], layer.shown[j]} \subseteq {"value", "digest"}
       /\ \A l \in DOMAIN layer.tree : l <= i \/ j <= l

\* merkProvesAbsent: nothing hidden between the keys on either side of k.
MerkProvesAbsent(layer, k) ==
  LET below == {j \in DOMAIN layer.tree : j < k}
      above == {j \in DOMAIN layer.tree : j > k}
  IN  /\ k \notin DOMAIN layer.tree
      /\ \A j \in below : (\A i \in below : i <= j) => layer.shown[j] # "hidden"
      /\ \A j \in above : (\A i \in above : j <= i) => layer.shown[j] # "hidden"

\* verifyKeyAbsence.
ProvesAbsent(proof, path, k) ==
  /\ VerifiesAt(proof, path)
  /\ Descends(proof, path) => MerkProvesAbsent(proof.envelope[path], k)

\* verifyCompleteLayer: whether it accepts, and the entries it returns.
RevealsWhole(proof, path) ==
  /\ VerifiesAt(proof, path)
  /\ Descends(proof, path) =>
       LET layer == proof.envelope[path]
       IN  \A k \in DOMAIN layer.tree : layer.shown[k] = "value" /\ ~HasRootKey(layer.tree[k])

WholeEntries(proof, path) ==
  IF Descends(proof, path) THEN proof.envelope[path].tree ELSE <<>>

-----------------------------------------------------------------------------
(* quickVerify *)

QuickVerifies(envelope) ==
  \A q \in DOMAIN envelope \ {<<>>} :
    /\ Last(q) \in ByValue(Holder(envelope, q))
    /\ IsTree(Named(envelope, q)) /\ BoundBelow(Named(envelope, q), envelope[q])
=============================================================================
