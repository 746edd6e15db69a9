-------------------------------- MODULE Files --------------------------------
(***************************************************************************)
(* Files (files/index.ts): upload commits a manifest through consensus and *)
(* then sends the chunks to a storage node; download reads a manifest, then *)
(* each chunk, and checks what it put together; delete removes a manifest.  *)
(*                                                                         *)
(* One file key is modelled.  Each call of upload is one of Uploads, with  *)
(* its data.  A hash is what it is of.  The chain, its mempool, the API    *)
(* (which may lag) and the storage node are external; the node keeps a     *)
(* chunk under the index and the content hash that the SDK's URLs carry,   *)
(* and may lose chunks or answer with others.  The nonce, its holds and    *)
(* the retries of a submission are TxSubmission's.                         *)
(***************************************************************************)
EXTENDS Naturals, Sequences, SequencesExt

CONSTANTS
  Uploads, Downloads, Deletes,
  Contents,     \* the files uploaded, as sequences of bytes
  Noise,        \* chunks a node that misbehaves answers with
  ChunkSize,
  Missing,      \* no manifest, no chunk
  MaxLosses,    \* bound: chunks the node loses or answers wrong
  MaxDrops      \* bound: transactions the mempool drops

ASSUME FilesAssumption ==
  /\ ChunkSize \in Nat \ {0} /\ Missing \notin Uploads
  /\ Contents \subseteq Seq(Nat) /\ Noise \subseteq Seq(Nat)

VARIABLES
  data,    \* what each upload uploads
  upload,  \* where it is: a state, and the chunks it has sent
  delete,  \* where each delete is
  pool,    \* transactions accepted and not yet in a block
  chain,   \* what the key's manifest has been: each upload's, or Missing
  api,     \* the place in it that the API is at
  node,    \* the chunks the node keeps
  download,  \* where each download is
  faults   \* how often each bounded event happened

vars == <<data, upload, delete, pool, chain, api, node, download, faults>>

-----------------------------------------------------------------------------
(* Chunks and hashes *)

\* (With the bug of leaving out a last chunk that is not full.)
ChunkDataFull(bytes) ==
  [i \in 1 .. Len(bytes) \div ChunkSize |-> SubSeq(bytes, (i - 1) * ChunkSize + 1, i * ChunkSize)]

\* chunkData.
ChunkData(bytes) ==
  [i \in 1 .. (Len(bytes) + ChunkSize - 1) \div ChunkSize |->
     SubSeq(bytes, (i - 1) * ChunkSize + 1, IF i * ChunkSize < Len(bytes) THEN i * ChunkSize ELSE Len(bytes))]

\* sha256 of bytes, and of two hashes put together.
HashOf(bytes) == <<"hash", bytes>>
HashPair(a, b) == <<"pair", a, b>>

\* computeMerkleRoot: a last hash without a pair is paired with itself, a single
\* one too.
MerkleRoot(hashes) ==
  LET Padded(level) == IF Len(level) % 2 = 0 THEN level ELSE Append(level, level[Len(level)])
      Above(level) == [i \in 1 .. Len(level) \div 2 |-> HashPair(level[2 * i - 1], level[2 * i])]
      level[n \in 0 .. Len(hashes)] ==
        IF n = 0 THEN Above(Padded(hashes))
        ELSE IF Len(level[n - 1]) = 1 THEN level[n - 1] ELSE Above(Padded(level[n - 1]))
  IN  IF hashes = <<>> THEN <<"zeros">> ELSE level[Len(hashes)][1]

\* The manifest upload() makes of a file.
ManifestOf(bytes) ==
  LET chunks == ChunkData(bytes)
  IN  [content |-> HashOf(bytes), count |-> Len(chunks),
       root |-> MerkleRoot([i \in DOMAIN chunks |-> HashOf(chunks[i])])]

\* (With the bug of relying on the node for the content.)
AcceptsAny(manifest, chunks) == Len(chunks) = manifest.count

\* The checks of download().
Accepts(manifest, chunks) ==
  /\ MerkleRoot([i \in DOMAIN chunks |-> HashOf(chunks[i])]) = manifest.root
  /\ HashOf(FlattenSeq(chunks)) = manifest.content

-----------------------------------------------------------------------------
(* Upload and delete *)

Init ==
  /\ data \in [Uploads -> Contents]
  /\ upload = [u \in Uploads |-> [at |-> "idle", sent |-> 0, accepted |-> FALSE]]
  /\ delete = [d \in Deletes |-> "idle"]
  /\ pool = {} /\ chain = <<Missing>> /\ api = 1
  /\ node = [i \in {} |-> <<>>]
  /\ download = [d \in Downloads |-> [at |-> "idle", manifest |-> Missing, of |-> Missing,
                                      chunks |-> <<>>, honest |-> TRUE, whole |-> FALSE]]
  /\ faults = [losses |-> 0, drops |-> 0]

\* upload() after submitSigned: it goes on to the chunks when the write is
\* accepted, and throws when it is refused, pending or unanswered.
AfterSubmit(u, answer) ==
  upload' = [upload EXCEPT ![u].at = IF answer = "accepted" THEN "sending" ELSE "failed",
                           ![u].accepted = answer = "accepted"]

\* upload() up to the answer to its manifest. One that is lost leaves the write in
\* the pool or not, and so does a refusal: of a repeat of a pooled write.
SubmitManifest(u) ==
  /\ upload[u].at = "idle"
  /\ \E answer \in {"accepted", "refused", "lost"} :
       /\ AfterSubmit(u, answer)
       /\ \/ pool' = pool \cup {u}
          \/ answer # "accepted" /\ pool' = pool
  /\ UNCHANGED <<data, delete, chain, api, node, download, faults>>

\* The caller posts a write again that was not answered
\* (client.consensus.resubmit); no chunk follows.
ResubmitManifest(u) ==
  /\ upload[u].at = "failed" /\ ~upload[u].accepted
  /\ u \notin pool /\ u \notin Range(chain)
  /\ pool' = pool \cup {u}
  /\ UNCHANGED <<data, upload, delete, chain, api, node, download, faults>>

\* What the node keeps with one chunk more.
Kept(key, chunk) == [k \in DOMAIN node \cup {key} |-> IF k = key THEN chunk ELSE node[k]]

\* The next chunk is sent and stored, and its answer may be lost or a failure.
SendChunk(u) ==
  LET chunks == ChunkData(data[u])
      index == upload[u].sent + 1
  IN  /\ upload[u].at = "sending" /\ index <= Len(chunks)
      /\ \E stored, ok \in BOOLEAN :
           /\ ok => stored
           /\ node' = IF stored THEN Kept(<<HashOf(data[u]), index>>, chunks[index]) ELSE node
           /\ upload' = IF ok THEN [upload EXCEPT ![u].sent = index] ELSE [upload EXCEPT ![u].at = "failed"]
      /\ UNCHANGED <<data, delete, pool, chain, api, download, faults>>

\* upload() returns.
UploadReturns(u) ==
  /\ upload[u].at = "sending" /\ upload[u].sent = Len(ChunkData(data[u]))
  /\ upload' = [upload EXCEPT ![u].at = "done"]
  /\ UNCHANGED <<data, delete, pool, chain, api, node, download, faults>>

\* delete(): one that fails may have left its write in the pool.
SubmitDelete(d) ==
  /\ delete[d] = "idle"
  /\ \E answer \in {"done", "failed"} :
       /\ delete' = [delete EXCEPT ![d] = answer]
       /\ \/ pool' = pool \cup {d}
          \/ answer = "failed" /\ pool' = pool
  /\ UNCHANGED <<data, upload, chain, api, node, download, faults>>

-----------------------------------------------------------------------------
(* The chain, the API and the node *)

Include(tx) ==
  /\ tx \in pool
  /\ pool' = pool \ {tx}
  /\ chain' = Append(chain, IF tx \in Uploads THEN tx ELSE Missing)
  /\ UNCHANGED <<data, upload, delete, api, node, download, faults>>

DropFromPool(tx) ==
  /\ tx \in pool /\ faults.drops < MaxDrops
  /\ faults' = [faults EXCEPT !.drops = @ + 1]
  /\ pool' = pool \ {tx}
  /\ UNCHANGED <<data, upload, delete, chain, api, node, download>>

ApiFollows ==
  /\ api < Len(chain)
  /\ api' = api + 1
  /\ UNCHANGED <<data, upload, delete, pool, chain, node, download, faults>>

\* The node forgets a chunk (nothing says it keeps those of an old manifest).
NodeLoses ==
  /\ faults.losses < MaxLosses
  /\ faults' = [faults EXCEPT !.losses = @ + 1]
  /\ \E c \in DOMAIN node : node' = [x \in DOMAIN node \ {c} |-> node[x]]
  /\ download' = [d \in Downloads |-> [download[d] EXCEPT !.honest = FALSE]]
  /\ UNCHANGED <<data, upload, delete, pool, chain, api>>

-----------------------------------------------------------------------------
(* Download *)

ReadManifest(d) ==
  LET r == download[d]
      u == chain[api]
  IN  /\ r.at = "idle"
      /\ download' = [download EXCEPT ![d] =
           IF u = Missing THEN [r EXCEPT !.at = "failed"]
           ELSE [r EXCEPT !.at = "fetching", !.of = u, !.manifest = ManifestOf(data[u]),
                          !.honest = r.honest /\ faults.losses = 0, !.whole = upload[u].at = "done"]]
      /\ UNCHANGED <<data, upload, delete, pool, chain, api, node, faults>>

\* A chunk is answered, by what the node keeps or by something else.
FetchChunk(d) ==
  LET index == Len(download[d].chunks) + 1
      key == <<download[d].manifest.content, index>>
  IN  /\ download[d].at = "fetching" /\ index <= download[d].manifest.count
      /\ \/ /\ key \in DOMAIN node
            /\ download' = [download EXCEPT ![d].chunks = Append(@, node[key])]
            /\ UNCHANGED faults
         \/ /\ key \notin DOMAIN node
            /\ download' = [download EXCEPT ![d].at = "failed"]
            /\ UNCHANGED faults
         \/ /\ faults.losses < MaxLosses
            /\ faults' = [faults EXCEPT !.losses = @ + 1]
            /\ \E chunk \in Noise :
                 download' = [download EXCEPT ![d].chunks = Append(@, chunk), ![d].honest = FALSE]
      /\ UNCHANGED <<data, upload, delete, pool, chain, api, node>>

\* download() checks what it has and returns it, or throws.
DownloadReturns(d) ==
  /\ download[d].at = "fetching" /\ Len(download[d].chunks) = download[d].manifest.count
  /\ download' = [download EXCEPT ![d].at =
                    IF Accepts(download[d].manifest, download[d].chunks) THEN "done" ELSE "failed"]
  /\ UNCHANGED <<data, upload, delete, pool, chain, api, node, faults>>

Next ==
  \/ \E u \in Uploads : SubmitManifest(u) \/ ResubmitManifest(u) \/ SendChunk(u) \/ UploadReturns(u)
  \/ \E d \in Deletes : SubmitDelete(d)
  \/ \E tx \in Uploads \cup Deletes : Include(tx) \/ DropFromPool(tx)
  \/ ApiFollows \/ NodeLoses
  \/ \E d \in Downloads : ReadManifest(d) \/ FetchChunk(d) \/ DownloadReturns(d)

Spec == Init /\ [][Next]_vars

-----------------------------------------------------------------------------
(* Properties *)

\* A download that returns, returns the whole of a file whose manifest the chain
\* accepted under the key, whatever the node answers and whatever is uploaded or
\* deleted meanwhile: never a mix of two files (download's two checks).
DownloadedIsCommitted ==
  \A d \in Downloads : download[d].at = "done" =>
    \E u \in Uploads \cap Range(chain) : FlattenSeq(download[d].chunks) = data[u]

\* A file whose upload returned can be read: a download of its manifest fails
\* only through the node, however uploads and deletes of the key interleave.
ReturnedIsReadable ==
  \A d \in Downloads :
    download[d].whole /\ download[d].honest => download[d].at # "failed"
=============================================================================
