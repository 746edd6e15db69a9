---------------------------- MODULE VerifiableRpc ---------------------------
(***************************************************************************)
(* An indexer's answer with proofs attached (verifiable-rpc/index.ts):     *)
(* VerifiableRpcOperations.verify and verifyTransformationProofs.  A hash  *)
(* is what it is of: a circuit's is the circuit.  `proves' stands for a    *)
(* GKR proof: the inputs it is a proof of, with the circuit.               *)
(***************************************************************************)
EXTENDS Integers, Sequences

CONSTANTS
  Applied,  \* the transformations there are: start, output, blocks and config
  NoRoot

\* verify_full_proof_explicit (external: the GKR verifier): a proof of these
\* inputs under this circuit, of a transformation there is.
GkrVerifies(circuit, vk, chunk) ==
  LET inputs == [start |-> chunk.start, output |-> chunk.output, blocks |-> chunk.blocks, config |-> chunk.config]
  IN  /\ chunk.proves = [inputs |-> inputs, circuit |-> circuit]
      /\ vk = circuit
      /\ inputs \in Applied

\* fetchPinnedArtifact: the circuit's hash must be the one asked for; a wrong
\* key only fails the proof. The indexer serves the circuit and key `artifacts'
\* has for a hash.
Pinned(artifacts, hash) == hash \in DOMAIN artifacts /\ artifacts[hash].circuit = hash

\* (With the bug of comparing a chunk's start with the first chunk's.)
ChainsFirst(chunks, i) == i > 1 => chunks[i].start = chunks[1].start

Chains(chunks, i) == i > 1 => chunks[i].start = chunks[i - 1].output

\* What a chunk fails with, or "ok".
CheckChunk(chunks, i, artifacts) ==
  LET chunk == chunks[i]
  IN  IF ~Chains(chunks, i) THEN "CHAIN_BROKEN"
      ELSE IF ~Pinned(artifacts, chunk.hash) THEN "CIRCUIT_PIN_FAILED"
      ELSE IF ~GkrVerifies(artifacts[chunk.hash].circuit, artifacts[chunk.hash].vk, chunk)
           THEN "TRANSFORMATION_FAILED"
      ELSE "ok"

\* verifyTransformationProofs: the first chunk's failure, or the last's root.
VerifyTransformationProofs(chunks, root, artifacts) ==
  LET failing == {i \in DOMAIN chunks : CheckChunk(chunks, i, artifacts) # "ok"}
      first == CHOOSE i \in failing : \A j \in failing : i <= j
  IN  IF failing # {} THEN CheckChunk(chunks, first, artifacts)
      ELSE IF chunks # <<>> /\ chunks[Len(chunks)].output # root THEN "ROOT_MISMATCH"
      ELSE "ok"

Failed(code) == [code |-> code]

\* verify. An answer's proof hashes to `proofRoot', or to NoRoot when it does not
\* verify; `age' is how long ago it was served. A verifier is at hand when the
\* caller gives one or its package is installed (loadGkrVerifier).
Verify(answer, artifacts, options) ==
  LET transformation == VerifyTransformationProofs(answer.chunks, answer.root, artifacts)
      attached == answer.chunks # <<>>
  IN  IF options.anchorStateRoot THEN Failed("UNSUPPORTED")
      ELSE IF answer.age > options.maxAge THEN Failed("STALE")
      ELSE IF answer.proofRoot # answer.root THEN Failed("INCLUSION_FAILED")
      ELSE IF options.strict /\ attached /\ ~options.verifier THEN Failed("TRANSFORMATION_FAILED")
      ELSE IF options.strict /\ attached /\ transformation # "ok" THEN Failed(transformation)
      ELSE [code |-> "ok", root |-> answer.root,
            transformation |-> IF ~attached THEN "none" ELSE IF options.strict THEN "true" ELSE "false"]
=============================================================================
