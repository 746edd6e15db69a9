------------------------------- MODULE EthTrie ------------------------------
(***************************************************************************)
(* Reading Ethereum state with Merkle Patricia proofs (eth-state/mpt.ts,   *)
(* verifyStateProof of eth-state/index.ts).                                *)
(*                                                                         *)
(* A key is the sequence of its nibbles, all keys of one length.  A hash   *)
(* is the node it is of.  A node refers to a child by hash, or holds one   *)
(* shorter than a hash in itself.                                          *)
(***************************************************************************)
EXTENDS Naturals, Sequences, SequencesExt

CONSTANTS
  Nibbles,
  Short  \* the values of leaves that are shorter than a hash

EmptyBytes == [bytes |-> <<>>]

NoRef == [is |-> "none"]
HashRef(node) == [is |-> "hash", node |-> node]
Inline(node) == [is |-> "inline", node |-> node]

EmptyNode == [type |-> "empty"]
LeafNode(path, value) == [type |-> "leaf", path |-> path, value |-> value]
Extension(path, ref) == [type |-> "extension", path |-> path, ref |-> ref]
Branch(refs, value) == [type |-> "branch", refs |-> refs, value |-> value]

\* What is left of a key after its first n nibbles.
From(key, n) == SubSeq(key, n + 1, Len(key))

-----------------------------------------------------------------------------
(* The chain's trie (external: Ethereum) *)

\* How a parent refers to a node.
RefTo(node) ==
  IF node.type = "leaf" /\ Len(node.path) = 0 /\ node.value \in Short THEN Inline(node) ELSE HashRef(node)

KeysUnder(keys, prefix) == {k \in keys : IsPrefix(prefix, k)}

\* The nibbles that the keys under a prefix have in common after it.
Shared(keys, prefix) == From(LongestCommonPrefix(KeysUnder(keys, prefix)), Len(prefix))

Places(keys) == UNION {Prefixes(k) : k \in keys}

\* The nodes of the trie of some entries, each at the prefix of the keys it is for.
Tries(entries) ==
  LET keys == DOMAIN entries
      At[p \in Places(keys)] ==
        LET path == Shared(keys, p)
        IN  IF \E k \in keys : KeysUnder(keys, p) = {k} THEN LeafNode(path, entries[p \o path])
            ELSE IF path # <<>> THEN Extension(path, RefTo(At[p \o path]))
            ELSE Branch([n \in Nibbles |->
                           IF Append(p, n) \in Places(keys) THEN RefTo(At[Append(p, n)]) ELSE NoRef],
                        EmptyBytes)
  IN  At

\* The root node.
Trie(entries) == IF DOMAIN entries = {} THEN EmptyNode ELSE Tries(entries)[<<>>]

\* A node's reference towards a key, and how many nibbles of the key lead to it.
Towards(node, rest) ==
  IF node.type = "branch" /\ rest # <<>> THEN [ref |-> node.refs[rest[1]], nibbles |-> 1]
  ELSE IF node.type = "extension" /\ IsPrefix(node.path, rest)
  THEN [ref |-> node.ref, nibbles |-> Len(node.path)]
  ELSE [ref |-> NoRef, nibbles |-> 0]

\* The nodes of a trie from its root to where a key would be.
WayTo(root, key) ==
  LET Way[i \in 0 .. Len(key)] ==
        IF i = 0 THEN [nodes |-> <<root>>, rest |-> key]
        ELSE LET way == Way[i - 1]
                 next == Towards(Last(way.nodes), way.rest)
             IN  IF next.ref = NoRef THEN way
                 ELSE [nodes |-> Append(way.nodes, next.ref.node), rest |-> From(way.rest, next.nibbles)]
  IN  Way[Len(key)].nodes

\* Whether a node among them is held by its parent.
HasInline(nodes) == \E i \in DOMAIN nodes : i > 1 /\ RefTo(nodes[i]).is = "inline"

-----------------------------------------------------------------------------
(* verifyMptProof *)

\* (With the bug of comparing the lengths of the paths only.)
OnPathByLength(path, rest) == Len(path) <= Len(rest)

OnPath(path, rest) == IsPrefix(path, rest)

\* asBytes: a list in place of a hash counts as no bytes.
AsHash(ref) == IF ref.is = "hash" THEN ref ELSE NoRef

\* What the loop goes on with, or what it returns.
Expects(ref, rest) == [goes |-> "on", expected |-> ref, rest |-> rest]
Returns(ok) == [goes |-> IF ok THEN "accepted" ELSE "refused"]

\* checkValue of the key's value, no bytes for a key that is not there.
CheckValue(actual, value) == Returns(actual = value)

\* A branch's reference and an extension's, as the loop takes them.
FollowBranch(ref, rest, value) ==
  IF AsHash(ref) = NoRef THEN CheckValue(EmptyBytes, value) ELSE Expects(ref, From(rest, 1))

FollowExtension(node, rest) ==
  IF AsHash(node.ref) = NoRef THEN Returns(FALSE) ELSE Expects(node.ref, From(rest, Len(node.path)))

\* One turn of the loop: a node read where `at' is. The root of an empty trie is
\* not a list. Other bytes that decode to no node, and roots and keys not as long
\* as a hash, are left out: no hash is theirs, and a key is a hash.
ReadNode(at, node, value) ==
  LET rest == at.rest
  IN  IF at.expected # HashRef(node) \/ node.type = "empty" THEN Returns(FALSE)
      ELSE IF node.type = "branch"
      THEN IF rest = <<>> THEN CheckValue(node.value, value)
           ELSE FollowBranch(node.refs[rest[1]], rest, value)
      ELSE IF ~OnPath(node.path, rest) THEN CheckValue(EmptyBytes, value)
      ELSE IF node.type = "extension" THEN FollowExtension(node, rest)
      ELSE CheckValue(IF Len(node.path) = Len(rest) THEN node.value ELSE EmptyBytes, value)

\* verifyMptProof: the nodes are read in turn until one gives an answer.
VerifyMptProof(root, key, value, nodes) ==
  LET Loop[i \in 0 .. Len(nodes)] ==
        IF i = 0 THEN Expects(HashRef(root), key)
        ELSE IF Loop[i - 1].goes # "on" THEN Loop[i - 1]
        ELSE ReadNode(Loop[i - 1], nodes[i], value)
  IN  Loop[Len(nodes)].goes = "accepted"

-----------------------------------------------------------------------------
(* verifyStateProof *)

\* encodeRlp of a scalar, in which 0 is the encoding of no bytes and not none,
\* and rlpEncodeAccount.
Rlp(n) == [rlp |-> n]
RlpAccount(account) == [account |-> account]

\* (With the bug of taking the slots' proofs against the state's root.)
VerifyStateProofOneRoot(proof) ==
  /\ VerifyMptProof(proof.root, proof.address, RlpAccount(proof.account), proof.nodes)
  /\ \A i \in DOMAIN proof.slots :
       VerifyMptProof(proof.slots[i].nodes[1], proof.slots[i].slot, Rlp(proof.slots[i].value),
                      proof.slots[i].nodes)

VerifyStateProof(proof) ==
  /\ VerifyMptProof(proof.root, proof.address, RlpAccount(proof.account), proof.nodes)
  /\ \A i \in DOMAIN proof.slots :
       VerifyMptProof(proof.account.storage, proof.slots[i].slot, Rlp(proof.slots[i].value),
                      proof.slots[i].nodes)

StateVerifyModes == {"Strict", "AnchorOnly", "Disabled"}

\* getState, and getCall of each of its proofs: whether a proof is accepted.
GetState(proof, mode) == mode = "Strict" => VerifyStateProof(proof)
=============================================================================
