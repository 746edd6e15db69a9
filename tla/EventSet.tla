------------------------------ MODULE EventSet ------------------------------
(***************************************************************************)
(* Checking that an indexer's logs of a block are all the chain matched    *)
(* (completeness/index.ts, completeness/client.ts): the preimage of the    *)
(* commitment, byte by byte, and what the check says of the answers the    *)
(* validator and the indexer give.  A hash is its preimage.  Widths are    *)
(* scaled: a count is one byte, as are a block's number and a byte.        *)
(***************************************************************************)
EXTENDS Naturals, Sequences, SequencesExt

CONSTANTS
  DomainTag,   \* the tag's bytes
  MaxByte,     \* the largest byte, and the largest count
  AddressLen, TopicLen

\* A log: its address, topics and data are bytes.
Log == [address : Seq(Nat), topics : Seq(Seq(Nat)), data : Seq(Nat)]

\* (With the bug of leaving out the length of the data.)
LogBytesUnsized(entry) ==
  entry.address \o <<Len(entry.topics)>> \o FlattenSeq(entry.topics) \o entry.data

\* The bytes hashed for a log.
LogBytes(entry) ==
  entry.address \o <<Len(entry.topics)>> \o FlattenSeq(entry.topics)
    \o <<Len(entry.data)>> \o entry.data

\* toFixedBytes and u32Be: what they take.
WellFormed(entry) ==
  /\ Len(entry.address) = AddressLen
  /\ Len(entry.topics) <= MaxByte /\ Len(entry.data) <= MaxByte
  /\ \A i \in DOMAIN entry.topics : Len(entry.topics[i]) = TopicLen

\* canonicalEventSetHash, of a block and well formed logs.
EventSetHash(block, logs) ==
  DomainTag \o <<block>> \o <<Len(logs)>> \o FlattenSeq([i \in DOMAIN logs |-> LogBytes(logs[i])])

\* fetchAnchorCommitment: what the validator's answer comes to, a commitment or
\* none ("failed", "no_commitment", "empty").
FetchedAnchor(answer) ==
  IF answer.is \in {"no_commitment", "empty"} THEN "unavailable"
  ELSE IF answer.is = "commitment" THEN "fetched" ELSE "error"

\* fetchMatchedLogs: 404 and 409 say that the logs are not kept.
FetchedLogs(answer) ==
  IF answer.is \in {"404", "409"} THEN "unavailable"
  ELSE IF answer.is = "logs" THEN "fetched" ELSE "error"

\* verifyBlockCompleteness: both are fetched at once, and either failure may be
\* the one it rejects with.
BlockCompleteness(block, validator, indexer) ==
  IF FetchedAnchor(validator) # "fetched" \/ FetchedLogs(indexer) # "fetched"
  THEN {FetchedAnchor(validator), FetchedLogs(indexer)} \ {"fetched"}
  ELSE IF \E i \in DOMAIN indexer.logs : ~WellFormed(indexer.logs[i]) THEN {"error"}
  ELSE {IF validator.hash = EventSetHash(block, indexer.logs) THEN "complete" ELSE "incomplete"}
=============================================================================
