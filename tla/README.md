# TLA+ models of the Willow TypeScript SDK

The SDK (`src/src/`) is a client library for the Willow chain: it signs and submits
transactions, reads data with proofs it checks against a light client, uploads files,
discovers indexers, and keeps GraphQL subscriptions open. It is single-threaded
JavaScript, so two pieces of code interleave only where one awaits; but its callers run
many calls at once, over one account's nonces, one indexer cache and one light client,
against an API, a mempool and a chain that answer late, twice or not at all. And what it
is served, it checks: by proofs, hashes and signatures whose checks are pure code with
many boundaries. Both are what the models are about.

## The system

| component | source | state | operations | interacts with |
|---|---|---|---|---|
| Nonce allocator | `consensus/nonces.ts` | per DID: the last nonce state seen (base + bitmap), the nonces held and since when | `take`, `release`, `hold`, `settle`, `refresh` | shared by every writer of one API URL |
| Signed writes | `consensus/client.ts`, `internal/tx.ts`, `internal/http.ts` | each call's nonce, attempt, whether an earlier post may have arrived | `nextNonce`, `submitWithNonce`, `registerDid`, `broadcastTransaction`, `resubmit` | allocator; API server `POST /tx/submit` |
| Wire formats and schema | `consensus/types.ts`, `wire.ts`, `bincode.ts`, `fields.ts`, `schema.ts`, `anchor-canonical.ts` | none | the signed message, the body and the refusals of twelve kinds of write; schema text | signed writes |
| File writes | `files/index.ts` | – | `submitSigned`, `upload`, `download`, `deleteFile` | allocator, API, storage nodes |
| Privacy writes | `privacy/index.ts` | – | `getNextNonce`, `submitWithNonce` | allocator, API |
| Indexer discovery | `indexers/index.ts` | cached list and its time, the fetch in flight | `list`, `forSubgrove`, `evict`, `invalidate` | validator `GET /indexers` |
| Subscriptions | `subscriptions/index.ts` | per subscription: socket, attempts, timer, last indexer, closed flag | `subscribe`, reconnect, socket events, `unsubscribe` | discovery; a WebSocket server |
| Verified reads | `data/index.ts` | the shared light client and its initialisation; a query's own list of indexers | `getVerifiedData`, `getMultiple`, `routeQuery` | API `/data`, `/proof`; light client; discovery |
| Light client | `light-client/*.ts` | trusted headers, latest height, verified range, an interval | trust on first use, `syncToLatest`, `getHeaderByHeight`, `getLatestChainHeight`, `getVerifiedRootHashAtHeight`, import/export | CometBFT RPC endpoints |
| Proof checking | `grovedb/*`, `proof/*`, `completeness/*`, `eth-state/*`, `verifiable-rpc/*` | none (pure) | rebuild, bind, select, compare | verified reads, queries |
| The rest | `auth`, `client.ts`, `manifest`, `erc8004`, `computed-fields`, `aggregates`, utilities | none between calls | building, signing and formatting requests | – |

### What is hard in it

* **Writes.** Nonces come from a window of 24 above a base, may be used in any order,
  and are chosen by the client before anything has landed. A post that times out may
  or may not have reached the mempool; a retry may find its own first copy; an answer
  may be older than the last one; another process may spend nonces of the same DID.
  Right means: no two writes in flight share a nonce; the nonce of a write that may
  still land is kept; a write is reported refused only if it cannot land; what was
  seen used stays seen; a full window opens again; calls return.
* **What is signed.** The message is built line by line from texts a caller chooses, and
  the body beside it. Right means: one message, one body; no integer changes on the way.
* **Discovery, queries and subscriptions.** Lookups share one fetch, invalidation forgets
  one in flight, eviction edits the list that others walk, and unsubscribing, closing,
  completing and reconnect timers race. Right means: one line of work per subscription
  and none after it is over; no lookup left waiting; no indexer served from a list older
  than the cache's lifetime; a query gets past a dead indexer. (A subscription should, by
  the code's comments, and need not.)
* **Verified reads.** A value and its proof are two requests; the root of block H is in
  the header of block H + 1; endpoints are at different heights; first reads race to
  create the light client. Right means: the value returned is the one at the verified
  height; an honest proof is never refused for its root; the accepted heights follow
  the majority of the endpoints; one light client.
* **The header store.** `syncToLatest` runs from an interval and from callers at once, and
  initialising or importing moves the store under it. Right means: every header held
  chains to one that was trusted; a success is held; an import restores. A client that
  misses a block for longer than the clock drift is left behind, and for good.
* **Files.** The manifest is committed before the chunks are sent, the API lags and the
  storage node may lose chunks or answer with others. Right means: what a download
  returns is one file the chain committed to; a file whose upload returned can be read.
* **Proofs.** A Merk proof is a program for a stack machine that rebuilds the queried part
  of a tree whose rest is hashes; layers hang below one another by the bytes of their
  parents; a query's answer must be the whole page, by numbers JavaScript rounds. Right
  means: what is revealed, absent, selected, complete, in a trie or transformed is so,
  and honest answers pass.

PROJECT.json lists each hazard at its line with the properties that cover it.

## The modules

```
NonceAllocator <- TxSubmission <- TxSubmissionProofs
      ^---------- AllocatorSpec <= NonceBits (refinement) <- MCNonceBits, NonceBitsProofs
Indexers <- Subscriptions <- MCSubscriptions, SubscriptionsProofs
                 ^---------- Routing <- MCRouting
RpcChain <- ConsensusHeader <- VerifiedReads <- MCVerifiedReads, VerifiedReadsProofs
                     ^-------- LightClientStore <- MCLightClientStore, LightClientStoreProofs
Files <- MCFiles, FilesProofs
MerkProof <- MCMerkProof, MerkProofProofs
EventSet, EthTrie, VerifiableRpc, GroveLayers, JsonNumbers <- ServedChecks <- ServedChecksProofs
                                                   ^              ^
                                           QuerySelection <- ProofChecks <- MCSignedWrites <- MCProofChecks
     ProofChecks instantiates JsonText and SignedWrites, which
     extends SchemaText, which instantiates JsonText
```

**NonceAllocator** models `DidNonces` as its callers see it. `latest` is the nonce
state last seen (`[base, used]`, or `NoState`), `taken[n]` how many ticks ago nonce n
was held. `Take(r, n)` is `take()` given the chain's answer r: `Seen(r)` merges it
(`mergeStates`), `Kept` drops expired and used holds (`refresh`), `Free` are the
nonces of the window neither used nor held, and the lowest is taken; `Release`,
`Hold`, `Settle`, `Elapse` (time passing) are the rest.

**NonceBits** is the allocator as coded: the chain's answer as bytes
(`parseAccountNonceState`, with its length and safe-integer checks), the bitmap
shifted when the base moves (`usedAbove`; a shift count taken modulo the width as
JavaScript does, guarded by the code's own test), clock times and the held list. A word
of JavaScript's bit operators is the set of its bits that are 1; a byte is a number.
`ImplementsAllocator` maps it to **AllocatorSpec**, the allocator used in any order:
that justifies ages in ticks and used-nonce sets in the rest.

**TxSubmission** models writes of one DID from choosing a nonce to inclusion. A call
submits a write or resubmits one (`of[c]` is the write), and the caller may have several
resubmissions of one write running at once. `pc[c]` is where call c is; `ReadNonceState`,
`TakeNonce`, `Post`, `AttemptFails`, `ReceiveAnswer`, `RetryLater`, `GiveUp`, `Resubmit`
are its steps, one per stretch of code between two awaits. Client, file, privacy,
caller-nonce and registration writes differ as their code does: only client writes retry,
a privacy write reads the base only, registrations use nonce 1 and take nothing.
`ResultOf` turns the API's answer into what the call returns (the order of the checks in
`submitTxToApi`), `KeepsNonce` is `settle`'s decision. The server side is external and is
modelled from the answers the code tells apart: a post the client gave up on is `stray`
and may arrive later; CometBFT's cache and mempool may be lost; blocks include pooled
writes in any order.

**SignedWrites** is what a write says: the signed message, the body and the refusals of
the twelve kinds, with the registration's wire form and bincode and the anchor's body. A
text is a sequence of units (characters, surrogates, runs nothing looks into), so a
line or a length that runs into the next is a message that another write has. Hashes
and encodings of numbers are terms. **SchemaText** is the reader and the writer of a
subgrove's schema.

**Files** has uploads, downloads and deletes of one key. `SubmitManifest`,
`SendChunk`, `UploadReturns` are `upload()` between its awaits; `ManifestOf`,
`MerkleRoot` and `Accepts` its hashes. The chain, an API that lags, and the node, which
keeps chunks under the content hash and index the SDK's URLs carry, are external.

**Indexers** models the cache: `ListWith` (serve, join, or start a fetch), the
validator's answer (`ServerAnswers`, the list as it was then) and its arrival
(`FetchResolves`), `FetchFails`, `Evict`, `Invalidate`. **Subscriptions** composes it
with any number of subscriptions: `OpenConnection`, `ConnectToBest`,
`NoIndexerFound`, `WireSocket`, `Opens`, `Acknowledged`, `ServerCompletes`, `OnClose`,
`ScheduleReconnect`, `Reconnect`, `Unsubscribe`. Time is in ticks for cache age,
backoff and request timeouts; the backoff doubles up to `MaxBackoff`. **Routing** adds
queries to them (`routeQuery`): each walks its own copy of the list and evicts from the
shared one; an 'auto' query ends with the validator.

**RpcChain** is the chain behind the light client's endpoints (external): `state[h]`
after block h, each endpoint's own height, and `AppHash(h)`, the root of the state
*before* block h. **ConsensusHeader** is what the client makes of its endpoints'
answers. **VerifiedReads** models reads of one key: `GetData` (a missing key goes on to
prove absence, as `getMultiple` does), `GetProof` with the binding of the value,
`JoinLightClient` (`getOrCreateLightClient`), `InitStep` (trust on first use),
`StatusAnswer` and `CheckHeight` (`getLatestChainHeight` and the range check),
`ReadRoot` and `NextEndpoint` (`getVerifiedRootHashAtHeight`). `began` is a ghost: the
endpoints' heights when `/status` was asked.

**LightClientStore** is the rest of the light client: `TrustOnFirstUse` and
`TrustHeader`, `SyncToLatest` and `GetHeaderByHeight` with their `FetchHeader` and
`AddTrustedHeader` (two steps: the code awaits between them), the verifier's checks of
one header on the one before it (voting power, transitions of validators, clock drift),
`ExportTrustedState`, `Crash`, `ImportTrustedState`. Headers are ages, counted up to one
tick more than the drift. `roots`, the heights trusted without verification, is a ghost.

**MerkProof** is the verifier of one Merk layer. `tree` is the chain's tree, any AVL tree
over some of the keys; `script` is an honest prover's proof of a part of it, in key order
or inverted, or `AnyProof`, any sequence of operations. `Push` is `pushNode` with its key
order, `Attach` the four tree operations over `Tree.attach`, `End` the single-tree check
and `bindLeafValue` over every value; `ProvesAbsent` is `merkProvesAbsent`, `RevealsWhole`
`verifyCompleteLayer`. Hashes are terms: two are equal only if built alike, which is the
collision freedom the code relies on. It lets the nodes of any proof be those of `NodesOf`:
a node with another hash changes the root, and `verifyProofAgainstRoot` refuses it. `shown`
is the in-order walk of a tree, kept as it is built.

**ProofChecks** holds the checks that keep no state, each one step from an input to a
verdict, so that TLC runs it over every input of a pool and compares it with a reference
written from what the check is for: **JsonText** (the node's JSON reader, token by token),
**QuerySelection** (which queries are sent, filters, order, page and the comparison of an
answer), and, in **ServedChecks**, which has their steps, their references and what the
chain is to their inputs, **EventSet** (a block's logs, byte by byte), **EthTrie** (Merkle
Patricia walk, account and slots), **JsonNumbers** (a number's text as the node's and as
JavaScript's double, scaled to few bits), **VerifiableRpc** (transformation proofs in
chains of chunks) and **GroveLayers** (envelopes of layers: paths, lower hashes, empty
subtrees, absence, completeness). An envelope nests in the code and is a function of paths
in GroveLayers, so `verifyLayerProof` and `envelopeDepth`, which recur, are statements
about all of its paths.

Operators commented "With the bug of ..." are variants of the definition after them;
no specification uses them. PROJECT.json pairs each property with one, and replacing
the definition by the variant must break the property.

## The runs

| run | asks | states |
|---|---|---|
| writes | Nonces of writes in flight are distinct and in the window, and kept while a write may land; what is seen used was used and stays seen. A client write with 2 retries and a privacy write, one nonce spent by another process. | 0.9 M |
| resubmissions | A first post refused leaves nothing behind; a write that landed is never told its nonce was refused; calls return; a full window (of one) reopens. A registration, and a write given its nonce by its caller, both retried, one of them resubmitted. | 0.3 M |
| nonce_bits | The coded allocator implements the abstract one. | 6.0 k |
| files | What a download returns is one file that was committed, and what an upload returned for can be read. Two uploads, a download, a delete of one key. | 2.3 M |
| subscriptions | One line of work each, none after unsubscribe or complete; single flight, no lost waiter, bounded age. Two subscriptions, one with reconnect off; one change, eviction, invalidation, failure, outage, drop. | 1.5 M |
| query_routing | A query is served as long as an indexer is up, whatever other queries and subscriptions evict. Two queries, two subscriptions, one indexer down for good. | 153 k |
| verified_reads | The value at the verified height, no false mismatch, range by majority, one light client. Two reads, two endpoints, three blocks. | 1.4 M |
| header_store | Headers held are chained, a sync that succeeds holds what it says, an import restores, and a client that missed a block gets no later one. Two callers, three blocks, validators that change. | 0.9 M |
| merk_proofs | What proofs with the right root show is so, and honest proofs pass. All AVL layers over four keys (an item, a subtree, a reference, an empty subtree) for honest proofs; any proof of up to three nodes for layers of up to three of the keys. | 1.8 M |
| proof_checks | Each pure check on every input of its pool against its reference. | 0.8 M |
| resubmit_frees_nonce | *violated*: of two resubmissions of one write, the refusal of one gives the nonce to another write while the other is in flight. | |
| subscription_pinned | *violated*: a subscription gets past a dead indexer. | |

**What some properties join.** `OneFetchWakesAll`: one fetch in flight unless an
invalidation forgot it, and a lookup that waits waits for one under way. `OverIsOver`:
both ways to be over. `RevealedIsCommitted`: what a layer reveals is committed, and one
revealed whole is whole. `EqualByValue`: numbers equal to a filter, and numbers taken to
be exact. Exponents fit from -2 to 1, so that the node also compares numbers by text.
`ProvenIsSo`: item, absence and complete layer, and that an honest prover is believed.
`ProvenIsInTheTrie`: a walk, and an account with its slots.

**Bounds.** The window is 24 in the code and 1 or 2 here: sharing, a full window and one
free nonce beside a used one all appear at 2. In *writes* `HoldTime` 3 with `Patience` 2
lets a hold expire right after an attempt and not during it; in *resubmissions* `HoldTime`
1 with `Patience` 0 keeps a resubmission beside two writes small enough to check liveness.
*resubmit_frees_nonce* has the two resubmissions and the two writes its question needs. In
*nonce_bits* two bytes of two bits stand for the bitmap, with bases whose distances fall
inside the window, at its width and past the shift's modulus. In *verified_reads* two
endpoints can disagree and one of two answers is not a majority; three blocks with
`MaxLag` 0 give proofs that are stale, in range and too far ahead; the key is absent at
genesis and comes and goes after it. In *subscriptions* a list is kept for one tick and a
reconnect is tried once: a tick makes any list expire, and a second attempt brings no
state that a second opening does not. In *query_routing* and *subscription_pinned*
`CacheTtl` equals `MaxBackoff`, as the code's defaults do. In *header_store* three blocks
give a caller that is a block behind another, a range with an end to each side of what is
held, and a change of validators in between; two initialisations, one failed request, one
crash; with no drift allowed a header is too old to start from one tick after it was made.
In *files* contents have no, one, two and three chunks, the last full or not: each shape
of `computeMerkleRoot`'s levels; the node loses or falsifies one chunk and the mempool
drops one transaction. In *merk_proofs* three nodes of layers of three keys are enough for
every relation of two revealed neighbours and something hidden between, beside or below
them; honest proofs of four keys have two levels of children. In *proof_checks* doubles
have three bits and go from 1/8 to 14, so rounding, halves, underflow and overflow all
happen within two digits; other pools are written in `MCProofChecks` and `MCSignedWrites`:
inputs that differ in two fields side by side, or in one place of a document.
`MaxForeign`, `Resubmissions`, `MaxFaults`, `MaxChanges`, `MaxEvictions`,
`MaxInvalidations`, `MaxDrops`, `MaxLosses`, `MaxOutages`, `MaxUnsubscribes`, `MaxTrusts`,
`MaxCrashes`, `MaxHeight` bound what the environment and the caller do. Readers, uploads,
callers and requests are symmetric where the runs check no liveness. Deadlock is not
checked where the system stops: bounded chains whose reads, calls or uploads have ended
(*verified_reads*, *header_store*, *files*) and checks that are done (*merk_proofs*,
*proof_checks*).

**Fairness.** Each assumption is a timer or an answer the code waits for with a
timeout. `Tick` is fair because time passes. In TxSubmission each call's own step is:
every post has a request timeout, so an attempt is answered or fails; nothing is
assumed of the API, the mempool or the chain. In Subscriptions and Routing, fetches
resolve or fail (the HTTP timeout), timers fire, a connect ends some time (by the system's
own limit: the code has no timeout there, and the model none either), a server that is up
acknowledges or closes, and an indexer that is not dead comes back; that a server
acknowledges is a real assumption, since the code waits for it without a timeout. Nothing
makes a caller start a query. The other runs check no liveness.

*header_store* takes signatures to be over what the client checks (`SignBytesMatch`).
Those of a real chain are not (`verifier.ts:16-24`), so that a real client holds no header
but those it was told to trust; with the constant FALSE the models agree, and the proofs
are for either value.

## What the models found

Two disagreements have a run:

* *resubmit_frees_nonce*: `settle` releases by number. In the trace a write's only attempt
  gets no answer, and its caller resubmits it twice at once; one resubmission is refused
  for a reason other than its nonce, which releases the nonce, and another write takes it
  while the other resubmission is posted under it.
* *subscription_pinned*: a subscription stays pinned to a dead indexer. `evict` edits a
  list that has expired by then, since the backoff cap equals the cache's lifetime, and
  the list fetched next has the dead indexer first again.

The others in PROJECT.json were met while modelling:

* A write refused on a retry may still land: a post times out with its copy in the pool,
  the retry is answered with a refusal that is not about its nonce, the call reports it
  refused, and the copy lands.
* `limit` of a layered GroveDB proof counts a layer's own entries late.
* `deserializeTrustedHeader` takes the time of the export for the header's, so a client
  started from a stored state refuses every block made before the export. `ImportRestores`
  is about the headers and the range, not about that time.
* The shipped intervals (60 to 600 s) are longer than the clock drift (10 to 30 s), so a
  client that runs by them on a chain with a block every few seconds is behind from the
  first interval on: `LeftBehind`.
* `syncToLatest` of a client that was never initialised succeeds at height 1 with nothing
  held. `SyncedIsHeld` leaves such a client out.
* A strict verifiable-RPC answer without any transformation proof is accepted.
* A slot whose value is 0 never verifies, though its absence from the trie is its proof.
* Comments on `onComplete`, `evict`, `invalidate`, `start` and the fallback of
  `getVerifiedRootHashAtHeight` that the code does not follow.

`RefusedFirstPostIsGone` leaves repeats out, for the first of these. `SignedIsOneWrite`
has conditions the code leaves to its callers: `Transfer`'s from and
to and `DeregisterSubgrove`'s owner are not checked to be DIDs (`GivesDids`). Some fields
are sent beside the message and not in it: `RegisterDid`'s nonce, and the other kinds'
`publicKeyId`; an anchor's sequence range and nonces may be plain numbers.

## The proofs

Eight modules, for every value of the constants that the named ASSUMEs allow; TLC
evaluates those in the runs. Each safety property is the consequence of an inductive
invariant that says what the property leaves out.

`TxSubmissionProofs` proves, for any set of writes, window, hold time, number of
retries and resubmissions: type correctness (`TypeCorrect`), then from it that the
seen state only grows (`UsedIsNeverForgotten`), is sound (`SeenIsSound`, from lemmas on
`UsedAbove` and the merge: an old report loses only nonces at or below the newer
base) and that no nonce is above the window (`NeverAboveWindow`). `GoneInv` counts the
copies of a write that was posted once: none is in the pool, in a block or on its way
unless that post is unanswered or was accepted. So a refusal of a first post is final
(`RefusedIsGone`), and a refusal about the nonce, which a repeated write never reports,
never hides a landing (`LandedIsNotRefused`). `WritesUseTheAllocator` is a refinement:
every step of the writes is a step of `AllocatorSpec` or leaves the allocator alone, so
what NonceBits implements is what the writers use.

It also proves the central property, that no two writes in flight share a nonce, with the
nonce of each held. It is false in general, as *resubmit_frees_nonce* shows, so the
theorems have the hypothesis `OnePass`: an attempt and the wait after it end before the
hold does (`Patience < HoldTime`: 30 s and at most 3 s against 120 s), nothing is
resubmitted (`Resubmissions = {}`), each call takes its own nonce, and registrations are
apart. Sharing alone is not inductive: a write done and pending may still land, and its
nonce is safe only because its hold is younger than the hold time. `HoldInvariant` says
so: every *live* write (not refused, last hold younger than `HoldTime`) has its nonce held
no longer ago than it last held it, or seen used, no two live writes have one nonce, and
each point of a call says what copies of it can exist. Each operation of the allocator has
a lemma on what it does to a guarded nonce (`HoldGuards`, `ReleaseGuards`,
`RefreshGuards`, `TakeGuards`), and the step proof goes through the actions.
`NoSharedNonce`, `HeldInFlight` and `UnsettledKeepsNonce` follow.

`NonceBitsProofs` proves that refinement (`BitsImplementAllocator`), for any widths of
byte, base, bitmap and word, any states the chain may answer with and any clock. What a
byte's bits are and what bytes write are recursive, so their lemmas are by induction on
the digits: the big-endian loop gives the base that was divided into bytes
(`BaseRoundTrip`), and a byte has the bits it was made of (`BitsOfValue`). `BitOfByte` says
that the bits of the bitmap's bytes are those of the window, each once; from it an answer
is read as the state sent (`SameParse`). `SameUsedAbove` is the shift: under a word's
width, which is where the guard and the assumption that a word is wider than the window
come in, the bits that stay are those of the nonces above the new base. `BitTypes` is the
invariant: no bit is outside the window and no hold began after now, so an age is a
natural number and stops counting just when the comparison of the clock says so.

`SubscriptionsProofs` proves `OneFetchWakesAll`, `OneConnection` and `OverIsOver` for any
subscriptions, indexers, requests and limits. `FetchInv` is the cache's part: what is to
be joined, and what is waited for, is a request under way, and without an invalidation
there is no other. `SubsInv` adds that a subscription not begun has nothing, and, which
`OverIsOver` needs, that `closedByClient` is set wherever a socket is left that is to
close, or a lookup is still awaited after `unsubscribe`: what runs later finds it set.
`StaleBound` needs ages (`AgeInv`): an answer on its way names no indexer that left longer
ago than the request is old, and the list in the cache none that left longer ago than a
request may take and the list is old. Its theorem supposes that the cache keeps a list at
all (`CacheTtl` is not 0; `cacheTtlMs` is 30 s unless a caller sets it): the bound is
strict, and a list that is never kept may be just as old as its request.

`LightClientStoreProofs` proves `ChainedToTrust`, `SyncedIsHeld`, `ImportRestores`,
`LeftBehind` and the types, for any callers, validators, drift and faults.
`ChainedToTrust` alone is not inductive: between `FetchHeader` and `AddTrustedHeader`
other calls move the store. `StoreInv` adds that what a call has verified still follows a
header that is held (`CallInv`: the store only grows, except in a crash, which ends the
calls too), and that the latest height is held once any is. `LeftBehind` needs that a
header a call has verified is still recent (`RecentCallsStep`): no tick passes while it is
on its way to the store. That the lowest and highest of a set of heights are in it rests
on the well-foundedness of the naturals.

`VerifiedReadsProofs` proves `HonestProofMatches`, `OneClient` and `VerifiedValue`, for
any readers, endpoints, lag and faults. `ReadsInv` binds a read to its proof from the
moment it has one (`data[r] = state[proof[r]]`, and blocks are only added), and says who
waits for which initialisation; `RootMatches` is the heart of it, that the header after
the proof's block carries the state the proof shows. `RangeFollowsMajority` is proved for
any number of endpoints and any `minValidators`: `HeightsInv` keeps every answer between
what its endpoint had when the first was asked and what it has by now, and the height the
code takes, the one that `Needed` of the answers have reached, exists by
well-foundedness, is reached by a majority of them (`NeededIsMajority`,
`MajorityIsHeard`), and is decided on in `CheckHeight` only.

`FilesProofs` proves that what a download returns is one file the chain committed to, and
that the download of a file whose upload returned fails only through the node: for any
uploads, contents, chunk size, losses and false chunks. `TypeInv` and `KeptInv` (the node
keeps chunks of uploaded files under their own content and index), `SentInv` (what an
upload sent is there until something is lost) and `ReadsInv` (a download's manifest is an
upload's that the chain accepted, and its chunks are the first of that file while the node
is honest) are the invariant; `ChunksMakeTheFile` is the algebra of it.

`MerkProofProofs` proves the three properties of a layer, for any keys and elements, AVL
trees of any size and proofs of any length. Everything about trees is by the least
number of keys at which it would fail. For soundness `MerkInv` says of each tree on the
stack that wherever its hash is that of a tree over some keys, its nodes are a *view* of
those keys: in order, with each key in the place of one node, a pruned subtree or one
with the element's hash (`Side`, `ViewsJoin`, `AttachedIsGood`). At the end the hash is
the chain's, so what is shown is of all its keys, and `NodeSays` reads the element off the
hash: a value hash of one kind is of no other. For completeness `TreeBuilds` says what an
honest proof does: put on any stack, after any key that its keys may follow, it leads
without an error to one more tree, with the hash and the keys of what it proves
(`NodeBuilds`: the first child, the node, the second, and the attachments between).
`HonestInv` is then that what is left of an honest proof leads from the stack to the one
tree of the chain, and `NeighboursProveAbsence` that a row which shows the keys next to a
missing one has nothing between them.

`ServedChecksProofs` proves what is concluded from what an indexer serves. The inputs
are any for which the chain is what `Committed` says: a block's commitment is that of
the logs it matched, a root that of a trie of some entries; an envelope is what decodes
as one. Complete logs are the ones the chain matched, in order, since the preimage of
the commitment can be read in one way (`LogsAreComplete`); a root reported as
transformed is reached chunk by chunk (`RootsAreReached`); a value proven is the trie's
at the key, and honest nodes on the way to it prove it unless one is inline
(`StateIsInTheTrie`: `SoundTurn` and `TurnOnTheWay` are one turn of the walk, by the
part of the key that is left). What a proof of layers shows at a path is so in the
state's tree there, and an honest prover is believed (`LayersAreSo`): the layers on the
path are of the state's trees, from the root down, as each is bound to the one above it
(`LayersAreOfTheTrees`), and a proof that stops short does so at an empty subtree, under
which there is nothing (`EmptyOn`, `ShownAt`). That is for trees of any shape and paths
and envelopes of any depth.

Its last theorem is of numbers (`NumbersAreEqualByValue`). A text is read as the decimal
of its value (`DecimalIs`: digits that end in 0s are the digits before them times a power
of ten, by induction on the 0s), and a number is in one way a number without a last digit
0 times a power of ten (`OneForm`), so decimals are equal just when values are. What
JavaScript writes for a double depends on the double only, so the second part needs
nothing of how a double is rounded. Values are in units of 10^-`Unit`, for any `Unit` that
both texts' last digits are within; the theorem is for all of them.

**Only model-checked**, and why:

* Liveness (`CallsReturn`, `WindowReopens`, `QueriesAreServed`) is beyond the prover.
* In ProofChecks: `ReadsTheNearestDouble`, `ReadsAsWritten`,
  `AcceptedIsTheSelection`, `HonestAnswersPass`, `SchemaIsTheChains` and
  `SignedIsOneWrite`. Readers, comparisons and anchors there are RECURSIVE operators over
  nested data, which the prover does not take; the first is about rounding, in powers of
  2 and 10 whose quotients the provers do not decide.

## Not modelled, and why

* The error text of a failure envelope or an unreadable body: `settle` looks for a
  nonce's refusal in it, and `ResultOf` takes it to hold none.
* Clock steps: `Date.now()` only moves forward here. `requestTimeoutSecs` of 120 s or more
  breaks `Patience < HoldTime`, and no run covers it.
* Keys, signatures, encryption, request headers, URLs: cryptography and formatting.
* An `indexerUrl` override (bypasses the cache); the order of indexers by score; several
  subgroves; messages delivered after `close()`; a WebSocket constructor or callback that
  throws.
* A FileOperations without a nonce source (never touches an allocator); an API URL that is
  missing. `expectedRootHash` pins. Historical and unverified reads.
* Lying endpoints: the SDK's documentation trusts the configured endpoints, and so do
  the models. VerifiedReads takes what a proof proves as the state at its height;
  MerkProof and GroveLayers are what is behind that.
* In MerkProof and GroveLayers: result limits, the decoding of bytes (bincode, varints),
  and in MerkProof provers other than honest ones beyond three nodes.
* The light client's bisection helpers and `verifyMerkleProof`, which nothing calls.
* Epoch ranges of completeness proofs and the registry's reads; computed fields and
  aggregates, the manifest's rules, ERC-8004 and the client facade: one request and its
  mapping each, without state or order to go wrong.

## Plan

1. *(done)* The allocator and signed writes, discovery, subscriptions and routed queries,
   verified reads, the header store, files, proof checks, signed messages and schemas;
   proofs of the first four and of the header store.
2. Decoding: bincode and varints at their width, GroveDB's limits across layers.
3. The manifest's registration rules and epoch ranges, if they grow state.
4. *(done)* Proofs of the safety properties that keep state, of one Merk layer, of files
   and of what indexers serve.
5. Proofs of the selection of a page (`AcceptedIsTheSelection`, `HonestAnswersPass`) with
   the comparison of two JSON values as a parameter.
