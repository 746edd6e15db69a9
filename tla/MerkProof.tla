----------------------------- MODULE MerkProof ------------------------------
(***************************************************************************)
(* The proof of one Merk layer: the stack machine that rebuilds the part   *)
(* of the tree a proof shows (grovedb/executor.ts, tree.ts), and what the  *)
(* verifier concludes from it of values, of an absent key and of a whole   *)
(* layer (grovedb/verifier.ts: bindLeafValue, merkProvesAbsent,            *)
(* verifyCompleteLayer).                                                   *)
(*                                                                         *)
(* A hash is a term, so that equal hashes are of equal contents.  The      *)
(* chain's tree is any AVL tree over some of the keys, and a proof is any  *)
(* sequence of operations on nodes that hash to parts of it (any other     *)
(* node gives another root), or one an honest prover makes.                *)
(***************************************************************************)
EXTENDS Naturals, Sequences, FiniteSets

CONSTANTS
  Keys,        \* the keys a layer may have, numbers in key order
  Entry,       \* the element stored at each key: its bytes, and if a reference's target's
  Items,       \* bytes of items
  Subtrees,    \* bytes of tree elements with a root key
  EmptyTrees,  \* bytes of tree elements without one
  Pointer,     \* the bytes of a reference
  NoKey, AnyProof,
  MaxNodes     \* bound: nodes of a proof that is not an honest one, and of its tree

Bytes == Items \cup Subtrees \cup EmptyTrees

ASSUME MerkAssumption ==
  /\ Keys \subseteq Nat /\ IsFiniteSet(Keys) /\ MaxNodes \in Nat
  /\ Items \cap (Subtrees \cup EmptyTrees) = {}
  /\ Entry \in [Keys -> [bytes : Bytes, reference : BOOLEAN]]

VARIABLES
  tree,    \* the chain's tree
  script,  \* what is left of an honest proof, or AnyProof
  stack,   \* the trees built so far
  last,    \* lastKey and lastKeyInverted
  pushed,  \* nodes pushed
  verdict

vars == <<tree, script, stack, last, pushed, verdict>>

-----------------------------------------------------------------------------
(* Hashes *)

ValueHash(b) == [value |-> b]
CombineHash(a, b) == [first |-> a, second |-> b]
KvHash(k, vh) == [key |-> k, valueHash |-> vh]
NodeHash(kv, l, r) == [kv |-> kv, left |-> l, right |-> r]

\* The hash of an empty tree, NULL_HASH, and the root of a subtree: of no contents here.
NullHash == [null |-> TRUE]
LowerRoot == [lower |-> TRUE]

\* The value hash stored with an element: a subtree's covers its root, a
\* reference's the element it refers to.
StoredHash(e) ==
  IF e.reference THEN CombineHash(ValueHash(Pointer), ValueHash(e.bytes))
  ELSE IF e.bytes \in Subtrees THEN CombineHash(ValueHash(e.bytes), LowerRoot)
  ELSE IF e.bytes \in EmptyTrees THEN CombineHash(ValueHash(e.bytes), NullHash)
  ELSE ValueHash(e.bytes)

-----------------------------------------------------------------------------
(* The nodes of a proof *)

HashNode(h) == [type |-> "Hash", hash |-> h]
KVHashNode(k) == [type |-> "KVHash", kvHash |-> KvHash(k, StoredHash(Entry[k]))]
KVDigestNode(k) == [type |-> "KVDigest", key |-> k, valueHash |-> StoredHash(Entry[k])]
KVValueHashNode(k, b) ==
  [type |-> "KVValueHash", key |-> k, value |-> b, valueHash |-> StoredHash(Entry[k])]

\* The node that proves the element at k with its value.
ValueNode(k) ==
  LET e == Entry[k]
  IN  IF e.reference
      THEN [type |-> "KVRefValueHash", key |-> k, value |-> e.bytes, valueHash |-> ValueHash(Pointer)]
      ELSE IF e.bytes \in Items THEN [type |-> "KV", key |-> k, value |-> e.bytes]
      ELSE KVValueHashNode(k, e.bytes)

\* getNodeKey, and the nodes that carry a value.
HasKey(n) == n.type \notin {"Hash", "KVHash"}
HasValue(n) == n.type \in {"KV", "KVValueHash", "KVRefValueHash"}

\* The nodes that show the element at k by its hash, its key or its value.
NodesAt(k) == {KVHashNode(k), KVDigestNode(k), ValueNode(k)}

\* Every way to show a part of the tree t that leaves its hash as it is. A
\* KVValueHash node does so whatever bytes it carries.
NodesOf(t) ==
  {HashNode(h) : h \in t.parts \cup {NullHash}}
    \cup {KVValueHashNode(k, b) : k \in t.keys, b \in Bytes}
    \cup UNION {NodesAt(k) : k \in t.keys}

\* computeKVHash.
KvHashOf(n) ==
  CASE n.type = "KVHash" -> n.kvHash
    [] n.type = "KV" -> KvHash(n.key, ValueHash(n.value))
    [] n.type \in {"KVValueHash", "KVDigest"} -> KvHash(n.key, n.valueHash)
    [] n.type = "KVRefValueHash" ->
         KvHash(n.key, CombineHash(n.valueHash, ValueHash(n.value)))

-----------------------------------------------------------------------------
(* The chain's tree, and the proofs an honest prover makes of it *)

Op(type) == [type |-> type]
PushOp(n, inverted) == [type |-> IF inverted THEN "PushInverted" ELSE "Push", node |-> n]
ParentOp(inverted) == Op(IF inverted THEN "ParentInverted" ELSE "Parent")
ChildOp(inverted) == Op(IF inverted THEN "ChildInverted" ELSE "Child")

NoTree ==
  [hash |-> NullHash, height |-> 0, keys |-> {}, parts |-> {}, proofs |-> [d \in BOOLEAN |-> {<<>>}]]

\* The proofs of a node over those of its children, in key order or from the
\* last key down. A node that is not asked for is hidden, or its key shown,
\* and a subtree that is not is its hash alone.
ProofsOf(k, l, r, h) ==
  [inverted \in BOOLEAN |->
    LET first == IF inverted THEN r ELSE l
        second == IF inverted THEN l ELSE r
    IN  {p \o <<PushOp(n, inverted)>>
           \o (IF first.keys = {} THEN <<>> ELSE <<ParentOp(inverted)>>)
           \o q \o (IF second.keys = {} THEN <<>> ELSE <<ChildOp(inverted)>>) :
            p \in first.proofs[inverted], q \in second.proofs[inverted],
            n \in NodesAt(k)}
          \cup {<<PushOp(HashNode(h), inverted)>>}]

Join(k, l, r) ==
  LET h == NodeHash(KvHash(k, StoredHash(Entry[k])), l.hash, r.hash)
  IN  [hash |-> h,
       height |-> 1 + IF l.height > r.height THEN l.height ELSE r.height,
       keys |-> l.keys \cup {k} \cup r.keys,
       parts |-> l.parts \cup {h} \cup r.parts,
       proofs |-> ProofsOf(k, l, r, h)]

Balanced(l, r) == l.height <= r.height + 1 /\ r.height <= l.height + 1

\* The AVL trees with k over one of `ls' and one of `rs'.
Joined(k, ls, rs) == {Join(k, p[1], p[2]) : p \in {p \in ls \X rs : Balanced(p[1], p[2])}}

Before(S, k) == {j \in S : j < k}
After(S, k) == {j \in S : j > k}

\* The AVL trees over a set of keys.
Trees[S \in SUBSET Keys] ==
  IF S = {} THEN {NoTree}
  ELSE UNION {Joined(k, Trees[Before(S, k)], Trees[After(S, k)]) : k \in S}

Init ==
  /\ \E t \in UNION {Trees[S] : S \in (SUBSET Keys) \ {{}}} :
       /\ tree = [hash |-> t.hash, keys |-> t.keys, parts |-> t.parts]
       /\ \/ script \in t.proofs[TRUE] \cup t.proofs[FALSE]
          \/ Cardinality(t.keys) <= MaxNodes /\ script = AnyProof
  /\ stack = <<>>
  /\ last = NoKey
  /\ pushed = 0
  /\ verdict = "open"

-----------------------------------------------------------------------------
(* The stack machine *)

\* No child in a place of a tree.
NoChild == [none |-> TRUE]

ChildHash(c) == IF c = NoChild THEN NullHash ELSE c

\* Tree.hash.
TreeHash(t) ==
  IF t.node.type = "Hash" THEN t.node.hash
  ELSE NodeHash(KvHashOf(t.node), ChildHash(t.left), ChildHash(t.right))

\* The proof takes the operation `op' next, and the rest stays.
Takes(op) ==
  /\ verdict = "open"
  /\ \/ script = AnyProof /\ UNCHANGED script
     \/ script # AnyProof /\ script # <<>> /\ Head(script) = op /\ script' = Tail(script)

\* Any error refuses the proof.
Refuse ==
  /\ verdict' = "refused" /\ stack' = <<>> /\ last' = NoKey /\ pushed' = 0
  /\ UNCHANGED tree

\* (With the bug of the two directions swapped.)
InOrderSwapped(k, inverted) ==
  last # NoKey /\ last.inverted = inverted =>
    IF inverted THEN k > last.key ELSE k < last.key

\* Keys ascend from push to push, and descend over inverted pushes.
InOrder(k, inverted) ==
  last # NoKey /\ last.inverted = inverted =>
    IF inverted THEN k < last.key ELSE k > last.key

Push(n, inverted) ==
  /\ Takes(PushOp(n, inverted))
  /\ script = AnyProof => pushed < MaxNodes
  /\ \/ /\ HasKey(n) => InOrder(n.key, inverted)
        /\ last' = IF HasKey(n) THEN [key |-> n.key, inverted |-> inverted] ELSE last
        /\ stack' = Append(stack, [node |-> n, left |-> NoChild, right |-> NoChild, shown |-> <<n>>])
        /\ pushed' = pushed + 1
        /\ UNCHANGED <<tree, verdict>>
     \/ HasKey(n) /\ ~InOrder(n.key, inverted) /\ Refuse

\* (With the bug of attaching below a pruned subtree.)
AttachedToHash(parent, child, left) ==
  IF left /\ parent.left = NoChild
  THEN {[parent EXCEPT !.left = TreeHash(child), !.shown = child.shown \o @]}
  ELSE IF ~left /\ parent.right = NoChild
  THEN {[parent EXCEPT !.right = TreeHash(child), !.shown = @ \o child.shown]}
  ELSE {}

\* Tree.attach: the parent with the child, or none: a pruned subtree's hash
\* covers no child, and no child takes the place of another. `shown' is the
\* nodes in key order.
Attached(parent, child, left) ==
  IF parent.node.type = "Hash" THEN {}
  ELSE IF left /\ parent.left = NoChild
  THEN {[parent EXCEPT !.left = TreeHash(child), !.shown = child.shown \o @]}
  ELSE IF ~left /\ parent.right = NoChild
  THEN {[parent EXCEPT !.right = TreeHash(child), !.shown = @ \o child.shown]}
  ELSE {}

\* The four tree operations: which of the two top trees is the parent, and
\* where the other goes.
TreeOps ==
  [Parent |-> [top |-> TRUE, left |-> TRUE], Child |-> [top |-> FALSE, left |-> FALSE],
   ParentInverted |-> [top |-> TRUE, left |-> FALSE], ChildInverted |-> [top |-> FALSE, left |-> TRUE]]

Combined(op) ==
  LET n == Len(stack)
      top == stack[n]
      below == stack[n - 1]
  IN  IF n < 2 THEN {}
      ELSE IF TreeOps[op].top THEN Attached(top, below, TreeOps[op].left)
      ELSE Attached(below, top, TreeOps[op].left)

Attach(op) ==
  /\ Takes(Op(op))
  /\ \/ /\ \E t \in Combined(op) : stack' = Append(SubSeq(stack, 1, Len(stack) - 2), t)
        /\ UNCHANGED <<tree, last, pushed, verdict>>
     \/ Combined(op) = {} /\ Refuse

-----------------------------------------------------------------------------
(* What the verifier concludes *)

\* (With the bug of believing the bytes beside a value hash.)
BindingUnchecked(n) ==
  IF n.type = "KVValueHash" /\ n.value \in Subtrees THEN "unboundTree" ELSE "bound"

\* bindLeafValue: how the bytes of a node with a value are bound to the root.
Binding(n) ==
  IF n.type # "KVValueHash" THEN "bound"
  ELSE IF n.value \in Subtrees THEN "unboundTree"
  ELSE IF n.value \in EmptyTrees
  THEN IF n.valueHash = CombineHash(ValueHash(n.value), NullHash) THEN "emptyTree" ELSE "refused"
  ELSE IF n.valueHash = ValueHash(n.value) THEN "bound" ELSE "refused"

Shown == stack[1].shown

ShownNodes == {Shown[i] : i \in DOMAIN Shown}

\* The proof comes to one tree, and every value in it is bound.
Valid == Len(stack) = 1 /\ \A n \in ShownNodes : HasValue(n) => Binding(n) # "refused"

End ==
  /\ verdict = "open" /\ script \in {<<>>, AnyProof}
  /\ UNCHANGED script
  /\ \/ Valid /\ verdict' = "accepted" /\ UNCHANGED <<tree, stack, last, pushed>>
     \/ ~Valid /\ Refuse

Next ==
  \/ \E n \in NodesOf(tree), inverted \in BOOLEAN : Push(n, inverted)
  \/ \E op \in DOMAIN TreeOps : Attach(op)
  \/ End

Spec == Init /\ [][Next]_vars

\* The proof is valid, and its root is the one the light client gives.
Verified == verdict = "accepted" /\ TreeHash(stack[1]) = tree.hash

Ordered(nodes) ==
  \A i, j \in DOMAIN nodes :
    i < j /\ HasKey(nodes[i]) /\ HasKey(nodes[j]) => nodes[i].key < nodes[j].key

\* merkProvesAbsent: k belongs right after the i-th node and right before the
\* next, and neither hides its key.
ProvesAbsent(nodes, k) ==
  /\ Ordered(nodes)
  /\ \E i \in 0 .. Len(nodes) :
       /\ i > 0 => HasKey(nodes[i]) /\ nodes[i].key < k
       /\ i < Len(nodes) => HasKey(nodes[i + 1]) /\ nodes[i + 1].key > k

\* (With the bug of taking a subtree's bytes for bound.)
RevealsWholeUnbound(nodes) ==
  /\ \A i \in DOMAIN nodes : HasValue(nodes[i])
  /\ Ordered(nodes)

\* verifyCompleteLayer: every node of the layer is shown with bytes bound to it.
RevealsWhole(nodes) ==
  /\ \A i \in DOMAIN nodes : HasValue(nodes[i]) /\ Binding(nodes[i]) \in {"bound", "emptyTree"}
  /\ Ordered(nodes)

-----------------------------------------------------------------------------
(* Properties *)

\* Type correctness: every node pushed is in one place of one tree.
MerkTypeOK ==
  /\ verdict \in {"open", "refused", "accepted"}
  /\ Cardinality(UNION {{i} \X DOMAIN stack[i].shown : i \in DOMAIN stack}) = pushed
  /\ last = NoKey \/ last \in [key : Keys, inverted : BOOLEAN]
  /\ \A i \in DOMAIN stack :
       /\ stack[i].node.type = "Hash" => stack[i].left = NoChild /\ stack[i].right = NoChild
       /\ \E j \in DOMAIN stack[i].shown : stack[i].shown[j] = stack[i].node

\* A value a verified proof gives is the one the chain has at its key; of a
\* subtree shown without bytes, and of a key shown without its value, it has
\* the key (verifyGroveDBProof: "each revealed entry is in the state"). One that
\* reveals a whole layer leaves out no entry of it and gives each its own bytes
\* (verifyCompleteLayer).
RevealedIsCommitted ==
  Verified =>
    /\ \A n \in ShownNodes : HasKey(n) =>
         /\ n.key \in tree.keys
         /\ HasValue(n) /\ Binding(n) # "unboundTree" =>
              /\ n.value = Entry[n.key].bytes
              /\ n.type = "KVRefValueHash" <=> Entry[n.key].reference
    /\ RevealsWhole(Shown) =>
         /\ {n.key : n \in ShownNodes} = tree.keys
         /\ Len(Shown) = Cardinality(tree.keys)
         /\ \A n \in ShownNodes : n.value = Entry[n.key].bytes

\* A key a verified proof proves absent is absent, whatever is pruned or
\* hidden in the proof and in whatever order it was built (verifyKeyAbsence).
AbsentIsAbsent ==
  Verified => \A k \in Keys : ProvesAbsent(Shown, k) => k \notin tree.keys

\* The keys of the tree next to k.
Neighbours(k) ==
  {j \in tree.keys : \A i \in tree.keys : (j < i /\ i < k) \/ (k < i /\ i < j) => FALSE}

\* An honest prover's proof is accepted, however much of the tree it prunes and
\* however unbalanced what it shows is, and proves a missing key absent if it
\* shows the keys next to it, and the whole layer if it shows all values.
HonestProofsPass ==
  script # AnyProof =>
    /\ verdict # "refused"
    /\ verdict = "accepted" =>
         /\ Verified
         /\ \A k \in Keys \ tree.keys :
              (\A j \in Neighbours(k) : \E n \in ShownNodes : HasKey(n) /\ n.key = j)
                => ProvesAbsent(Shown, k)
         /\ (\A n \in ShownNodes : HasValue(n) /\ (n.value \in Subtrees => Entry[n.key].reference))
              => RevealsWhole(Shown)
=============================================================================
