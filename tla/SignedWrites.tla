---------------------------- MODULE SignedWrites ----------------------------
(***************************************************************************)
(* What a write is signed over and what is sent of it: the messages of     *)
(* createSignMessage and the bodies of createTransactionWrapper            *)
(* (consensus/types.ts), the checked fields (fields.ts), a registration's  *)
(* wire form and bincode (wire.ts, bincode.ts) and an anchor's canonical   *)
(* body (anchor-canonical.ts).                                             *)
(*                                                                         *)
(* A text is a sequence of units, each a string: a character, a surrogate, *)
(* or a run of characters that nothing here looks into. A message and an   *)
(* encoding are sequences of units as well. An integer a caller gives is   *)
(* [form, meant]: the form it has in JavaScript and the one it is meant to *)
(* be, which a number above MaxSafe need not hold.                         *)
(***************************************************************************)
EXTENDS SchemaText

CONSTANTS
  Alphabet,     \* the bytes, in order, as the units whose UTF-8 they are
  Width,        \* bytes of an integer of 8, 32, 64 and 128 bits
  MaxSafe,      \* the largest safe integer
  DidUnits,     \* ASCII letters, digits, `_' and `-'
  MaxDid,       \* the longest DID
  MaxId,        \* the longest id of a data or file subgrove
  DigestLength, \* bytes of a digest
  PrivateTokens, \* strings that are serde_json's private tokens
  MaxNesting    \* arrays and objects within one another that the node reads

LF == "\n"
HighHalf == "high"
LowHalf == "low"
DidPrefix == "did:willow:"

Digits(n) == ToString(n)
Hex(bytes) == ToString(bytes)
Sha256(bytes) == ToString(bytes)

-----------------------------------------------------------------------------
(* Fields *)

\* (With the bug of looking only at high surrogates.)
IsTextHighOnly(text) ==
  \A i \in DOMAIN text : text[i] = HighHalf => i < Len(text) /\ text[i + 1] = LowHalf

\* text: no surrogate on its own.
IsText(text) ==
  \A i \in DOMAIN text :
    /\ text[i] = HighHalf => i < Len(text) /\ text[i + 1] = LowHalf
    /\ text[i] = LowHalf => i > 1 /\ text[i - 1] = HighHalf

\* UTF-8: a surrogate on its own becomes the replacement character.
Utf8(text) ==
  [i \in DOMAIN text |->
     IF \/ text[i] = HighHalf /\ ~(i < Len(text) /\ text[i + 1] = LowHalf)
        \/ text[i] = LowHalf /\ ~(i > 1 /\ text[i - 1] = HighHalf)
     THEN "replacement" ELSE text[i]]

\* (With the bug of letting line feeds through.)
IsLineAnyText(text) == IsText(text)

\* textLine.
IsLine(text) == IsText(text) /\ LF \notin Range(text)

IsWillowDid(text) ==
  /\ Len(text) \in 2 .. MaxDid
  /\ text[1] = DidPrefix /\ \A i \in 2 .. Len(text) : text[i] \in DidUnits

IsKeySubgroveId(text) == IsText(text) /\ text # <<>> /\ ":" \notin Range(text)

\* What a JavaScript number holds of an integer: past MaxSafe, an even one.
Held(int) ==
  IF int.form = "number" /\ int.meant > MaxSafe THEN int.meant - (int.meant % 2) ELSE int.meant

InWidth(int, bits) == Held(int) < Len(Alphabet)^Width[bits]

\* (With the bug of taking any number.)
IsUintAny(int, bits) == InWidth(int, bits)

\* uint, of a number, a bigint or a string of digits.
IsUint(int, bits) == (int.form = "number" => Held(int) <= MaxSafe) /\ InWidth(int, bits)

\* safeUint, of a number only.
IsSafeUint(int, bits) == int.form = "number" /\ Held(int) <= MaxSafe /\ InWidth(int, bits)

IsDigest(bytes) == Len(bytes) = DigestLength

\* The node's reader of JSON, which takes no lone surrogate and has its limits.
Node == INSTANCE JsonText WITH
  Strings <- {t \in StringTokens : Decoded[t] \notin IllFormed},
  PrivateTokens <- {t \in StringTokens : Decoded[t] \in PrivateTokens},
  Literals <- U32Tokens \cup AtomTokens, BadTokens <- {}, Space <- Blank

\* storeDataText: the JSON text of an object, as the node reads JSON.
IsObjectText(text) ==
  LET read == Node!ParseText(text)
  IN  read.is = "read" /\ read.value.t = "obj"

IsGrant(g) ==
  /\ IsText(g.grantee_did) /\ IsText(g.grantee_public_key_id) /\ IsText(g.granted_by)
  /\ IsUint(g.key_epoch, 32) /\ IsUint(g.granted_at, 64)

GrantWire(g) == [g EXCEPT !.key_epoch = Held(@), !.granted_at = Held(@)]

-----------------------------------------------------------------------------
(* A registration's wire form *)

AreTexts(texts) == \A i \in DOMAIN texts : IsText(texts[i])

\* An optional value that is absent or of some kind.
Optional(value, Is(_)) == value # Absent => Is(value)
Mapped(value, Wire(_)) == IF value = Absent THEN Absent ELSE Wire(value)

Number(n) == [form |-> "number", meant |-> n]

IsPricing(p) == IsUint(p.price_per_query, 128) /\ IsUint(p.owner_revenue_share_bps, 32)
PricingWire(p) == [p EXCEPT !.price_per_query = Held(@), !.owner_revenue_share_bps = Held(@)]

\* A retention window or a commitment frequency: with a value or without one.
Counted == {"Blocks", "Seconds", "EveryNBlocks", "EveryNSeconds"}
IsCounted(v) == v.is \in Counted => v.value # Absent /\ IsUint(v.value, 64)
CountedWire(v) == [v EXCEPT !.value = IF v.is \in Counted THEN Held(@) ELSE Absent]

IsModule(m) == IsText(m.name) /\ IsDigest(m.hash)

\* A mode, or the one of a registration without: data, written by the owner.
ModeOf(tx) ==
  Or(tx.mode, [is |-> "DataStorage", name |-> Or(tx.name, tx.subgroveId), writers |-> <<tx.ownerDid>>,
               free_readers |-> <<>>, read_pricing |-> Absent])

\* modeWire: what it refuses.
IsMode(m, window) ==
  /\ m.is # "BlockchainIndexing" =>
       /\ window = Absent
       /\ IsText(m.name) /\ AreTexts(Or(m.writers, <<>>)) /\ AreTexts(Or(m.free_readers, <<>>))
       /\ Optional(m.read_pricing, IsPricing)
  /\ m.is = "FileStorage" =>
       /\ IsUint(m.max_file_size, 64) /\ IsUint(m.replication_factor, 8)
       /\ IsUint(Or(m.retention_period, Number(0)), 64)
  /\ m.is = "BlockchainIndexing" =>
       /\ ~(m.retention_window # Absent /\ window # Absent)
       /\ \A i \in DOMAIN m.wasm_modules : IsModule(m.wasm_modules[i])
       /\ m.execution_mode.is = "IndexerExecution" => IsUint(m.execution_mode.rate, 8)
       /\ LET c == m.indexer_config
          IN  /\ IsUint(c.min_indexers, 8) /\ IsUint(c.max_indexers, 8)
              /\ IsUint(c.reward_per_epoch, 128) /\ IsUint(c.min_indexer_stake, 128)
              /\ Optional(c.epoch_length, LAMBDA n : IsUint(n, 64))
       /\ Optional(Or(m.retention_window, window), IsCounted)
       /\ Optional(m.completeness, LAMBDA c :
            /\ \A i \in DOMAIN c.hashes : IsUint(c.hashes[i], 32)
            /\ Optional(c.bond_amount, LAMBDA n : IsUint(n, 128)))

DefaultEpochLength == 2

ModeWire(m, window) ==
  CASE m.is = "BlockchainIndexing" ->
         [m EXCEPT
            !.execution_mode.rate = Mapped(@, Held),
            !.indexer_config = [f \in DOMAIN @ |-> Held(Or(@[f], Number(DefaultEpochLength)))],
            !.retention_window = CountedWire(Or(Or(@, window), [is |-> "Indefinite", value |-> Absent])),
            !.completeness = Mapped(@, LAMBDA c :
              [c EXCEPT !.hashes = [i \in DOMAIN @ |-> Held(@[i])],
                        !.bond_amount = Held(Or(@, Number(0)))])]
    [] m.is = "FileStorage" ->
         [m EXCEPT !.writers = Or(@, <<>>), !.free_readers = Or(@, <<>>),
                   !.read_pricing = Mapped(@, PricingWire), !.max_file_size = Held(@),
                   !.replication_factor = Held(@), !.retention_period = Held(Or(@, Number(0)))]
    [] m.is = "DataStorage" ->
         [m EXCEPT !.writers = Or(@, <<>>), !.free_readers = Or(@, <<>>),
                   !.read_pricing = Mapped(@, PricingWire)]

\* registerSubgroveWire.
RegisterWire(tx) ==
  [subgrove_id |-> tx.subgroveId, name |-> Or(tx.name, tx.subgroveId),
   description |-> Or(tx.description, <<>>), schema |-> tx.schema, owner_did |-> tx.ownerDid,
   admins |-> Or(tx.admins, <<>>), initial_funding |-> Mapped(tx.initialFunding, Held),
   required_tee |-> tx.requiredTee, mode |-> ModeWire(ModeOf(tx), tx.retention_window),
   privacy |-> Mapped(tx.privacy, LAMBDA p : [p EXCEPT !.commitment_frequency = CountedWire(@)]),
   initial_owner_key_grant |-> Mapped(tx.initialOwnerKeyGrant, GrantWire),
   template_config |-> Mapped(tx.templateConfig, LAMBDA t : [t EXCEPT !.template_version = Held(@)]),
   confirmation_depth |-> Held(Or(tx.confirmationDepth, Number(0))),
   public_key_id |-> Or(tx.publicKeyId, <<>>), nonce |-> Held(Or(tx.nonce, Number(0))),
   cryptographic_completeness |-> Or(tx.cryptographicCompleteness, FALSE)]

IsTemplate(t) ==
  /\ IsText(t.template_id) /\ IsText(t.variant_id) /\ IsUint(t.template_version, 32)
  /\ AreTexts(t.contracts) /\ AreTexts(t.event_signatures) /\ Optional(t.chain, IsText)

IsStorageId(text) == Len(text) \in 1 .. MaxId /\ Range(text) \subseteq DidUnits /\ text[1] \notin {"-", "_"}

\* checkStorageRegistration.
IsStorageRegistration(w) ==
  /\ IsStorageId(w.subgrove_id)
  /\ \A dids \in {w.admins, w.mode.writers, w.mode.free_readers} :
       \A i \in DOMAIN dids : IsWillowDid(dids[i])
  /\ CheckStorageSchema(w.schema)
  /\ LET g == w.initial_owner_key_grant
     IN  w.mode.is = "DataStorage" /\ w.privacy # Absent /\ g # Absent =>
           g.key_epoch = 0 /\ g.grantee_did = w.owner_did /\ IsWillowDid(g.grantee_did)

\* What registerSubgroveWire refuses.
IsRegistration(tx) ==
  /\ \A t \in {tx.subgroveId, Or(tx.name, <<>>), Or(tx.description, <<>>), tx.schema, tx.ownerDid,
               Or(tx.publicKeyId, <<>>)} : IsText(t)
  /\ AreTexts(Or(tx.admins, <<>>))
  /\ Optional(tx.initialFunding, LAMBDA n : IsUint(n, 128))
  /\ IsMode(ModeOf(tx), tx.retention_window)
  /\ Optional(tx.privacy, LAMBDA p :
       /\ Optional(p.allowed_indexers, AreTexts) /\ IsCounted(p.commitment_frequency)
       /\ p.commitment_frequency.is \notin Counted => p.commitment_frequency.value = Absent)
  /\ Optional(tx.initialOwnerKeyGrant, IsGrant)
  /\ Optional(tx.templateConfig, IsTemplate)
  /\ IsUint(Or(tx.confirmationDepth, Number(0)), 32) /\ IsUint(Or(tx.nonce, Number(0)), 64)
  /\ ModeOf(tx).is # "BlockchainIndexing" => IsStorageRegistration(RegisterWire(tx))

-----------------------------------------------------------------------------
(* Its bincode *)

\* An integer as its bytes, the least first.
LE(n, bits) ==
  LET base == Len(Alphabet)
  IN  [i \in 1 .. Width[bits] |-> Alphabet[1 + ((n \div base^(i - 1)) % base)]]

Bool(b) == LE(IF b THEN 1 ELSE 0, 8)
Bytes(bytes) == LE(Len(bytes), 64) \o bytes

\* (With the bug of writing a string without its length.)
StringUnsized(text) == Utf8(text)

String(text) == Bytes(Utf8(text))

Each(items, Write(_)) == FlattenSeq([i \in DOMAIN items |-> Write(items[i])])
List(items, Write(_)) == LE(Len(items), 64) \o Each(items, Write)
Option(value, Write(_)) == IF value = Absent THEN LE(0, 8) ELSE LE(1, 8) \o Write(value)

\* The index of a name among an enum's variants.
Variant(variants, name) == LE((CHOOSE i \in DOMAIN variants : variants[i] = name) - 1, 32)

TeeTypes == <<"AwsNitro", "IntelSgx", "AmdSev">>
CommitmentFrequencies == <<"EveryUpdate", "EveryNBlocks", "EveryNSeconds", "Never">>
RetentionWindows == <<"Blocks", "Seconds", "Indefinite", "VerifyOnly">>
ExecutionModes == <<"ConsensusExecution", "IndexerExecution", "TeeExecution">>
HistoricalAuthModes == <<"BftEquivalent", "CanonizedAccumulator">>
SubgroveModes == <<"DataStorage", "FileStorage", "BlockchainIndexing">>

CountedBytes(variants, v) == Variant(variants, v.is) \o IF v.is \in Counted THEN LE(v.value, 64) ELSE <<>>

PricingBytes(p) == Bool(p.enabled) \o LE(p.price_per_query, 128) \o LE(p.owner_revenue_share_bps, 32)

GrantBytes(g) ==
  String(g.grantee_did) \o LE(g.key_epoch, 32) \o String(g.grantee_public_key_id)
    \o Bytes(g.ephemeral_public_key) \o Bytes(g.encrypted_key) \o String(g.granted_by)
    \o LE(g.granted_at, 64)

IndexerConfigBytes(c) ==
  LE(c.min_indexers, 8) \o LE(c.max_indexers, 8) \o LE(c.reward_per_epoch, 128)
    \o LE(c.epoch_length, 64) \o LE(c.min_indexer_stake, 128)

ModeBytes(m) ==
  Variant(SubgroveModes, m.is) \o
  CASE m.is = "DataStorage" ->
         String(m.name) \o List(m.writers, String) \o List(m.free_readers, String)
           \o Option(m.read_pricing, PricingBytes)
    [] m.is = "FileStorage" ->
         String(m.name) \o LE(m.max_file_size, 64) \o LE(m.replication_factor, 8)
           \o List(m.writers, String) \o List(m.free_readers, String)
           \o Option(m.read_pricing, PricingBytes) \o LE(m.retention_period, 64)
    [] m.is = "BlockchainIndexing" ->
         Bytes(m.manifest_content)
           \o List(m.wasm_modules, LAMBDA w : String(w.name) \o w.hash \o Bytes(w.content))
           \o Variant(ExecutionModes, m.execution_mode.is)
           \o (CASE m.execution_mode.is = "ConsensusExecution" -> <<>>
                 [] m.execution_mode.is = "IndexerExecution" -> LE(m.execution_mode.rate, 8)
                 [] m.execution_mode.is = "TeeExecution" -> Variant(TeeTypes, m.execution_mode.tee_type))
           \o IndexerConfigBytes(m.indexer_config)
           \o CountedBytes(RetentionWindows, m.retention_window)
           \o Option(m.completeness, LAMBDA c :
                Each(c.hashes, LAMBDA n : LE(n, 32)) \o Bool(c.deferred) \o LE(c.bond_amount, 128))
           \o Variant(HistoricalAuthModes, m.historical_auth_mode)

\* registerSubgroveBincode: with an empty signature.
RegisterBytes(w) ==
  String(w.subgrove_id) \o String(w.name) \o String(w.description) \o String(w.schema)
    \o String(w.owner_did) \o List(w.admins, String)
    \o Option(w.initial_funding, LAMBDA n : LE(n, 128))
    \o Option(w.required_tee, LAMBDA t : Variant(TeeTypes, t))
    \o ModeBytes(w.mode)
    \o Option(w.privacy, LAMBDA p :
         Option(p.allowed_indexers, LAMBDA texts : List(texts, String))
           \o CountedBytes(CommitmentFrequencies, p.commitment_frequency))
    \o Option(w.initial_owner_key_grant, GrantBytes)
    \o Option(w.template_config, LAMBDA t :
         String(t.template_id) \o LE(t.template_version, 32) \o String(t.variant_id)
           \o Bytes(t.parameters) \o List(t.contracts, String) \o List(t.event_signatures, String)
           \o Option(t.chain, String))
    \o LE(w.confirmation_depth, 32) \o Bytes(<<>>) \o String(w.public_key_id) \o LE(w.nonce, 64)
    \o Bool(w.cryptographic_completeness)

-----------------------------------------------------------------------------
(* JSON that is signed *)

\* jsonEscape, and JSON.stringify, of one unit.
Escaped(unit) ==
  IF unit \in {"\"", "\\"} THEN <<"\\", unit>> ELSE IF unit = LF THEN <<"\\", "n">> ELSE <<unit>>

Quoted(text) == <<"\"">> \o Each(text, Escaped) \o <<"\"">>

JsonList(items) == <<"[">> \o WithCommas(items) \o <<"]">>
JsonTexts(texts) == JsonList([i \in DOMAIN texts |-> Quoted(texts[i])])
JsonOrNull(value, Json(_)) == IF value = Absent THEN <<"null">> ELSE Json(value)

\* The members of an object, in the order they are written.
JsonMembers(members) ==
  <<"{">> \o WithCommas([i \in DOMAIN members |-> Quoted(<<members[i][1]>>) \o <<":">> \o members[i][2]])
    \o <<"}">>

\* computeAnchorMerkleRoot: pairs hashed, the last one with itself.
AnchorLevel(hashes) ==
  [i \in 1 .. (Len(hashes) + 1) \div 2 |->
     LET left == hashes[2 * i - 1]
     IN  <<Sha256(left \o IF 2 * i <= Len(hashes) THEN hashes[2 * i] ELSE left)>>]

RECURSIVE AnchorMerkleRoot(_)
AnchorMerkleRoot(hashes) ==
  CASE Len(hashes) = 0 -> <<>>
    [] Len(hashes) = 1 -> hashes[1]
    [] OTHER -> AnchorMerkleRoot(AnchorLevel(hashes))

\* canonicalizeAnchorBody, of an anchor as submitAnchor fills it in.
AnchorRoot(tx) == Or(tx.merkleRoot, AnchorMerkleRoot(tx.receiptHashes))

AnchorBody(tx) ==
  JsonMembers(<<
    <<"anchor_id", Quoted(tx.anchorId)>>, <<"count", <<Digits(Len(tx.receiptHashes))>> >>,
    <<"did", Quoted(tx.did)>>, <<"is_genesis", <<ToString(tx.isGenesis)>> >>,
    <<"merkle_root", Quoted(AnchorRoot(tx))>>, <<"previous_anchor_hash", Quoted(tx.previousAnchorHash)>>,
    <<"receipt_hashes", JsonTexts(tx.receiptHashes)>>,
    <<"sequence_range", JsonList([i \in 1 .. 2 |-> <<Digits(Held(tx.sequenceRange[i]))>>])>>,
    <<"timestamp", Quoted(tx.timestamp)>> >>)

\* A key's hex, from hex or from base64.
KeyHex(key) == Or(key.hex, Mapped(key.base64, LAMBDA bytes : <<Hex(bytes)>>))

\* chainDidDocument: the SDK's own shape, whose keys the document's DID controls
\* and authenticates with, or the chain's.
ChainDidDocument(doc) ==
  IF doc.shape = "chain" THEN [doc EXCEPT !.created = Held(@), !.updated = Held(@)]
  ELSE [shape |-> "chain", id |-> doc.id,
        public_keys |-> [i \in DOMAIN doc.publicKeys |->
          [id |-> doc.publicKeys[i].id, type |-> doc.publicKeys[i].type, controller |-> doc.id,
           base58 |-> Absent, hex |-> KeyHex(doc.publicKeys[i])]],
        authentication |-> [i \in DOMAIN doc.publicKeys |-> doc.publicKeys[i].id],
        service |-> <<>>, created |-> Held(doc.created), updated |-> Held(doc.updated), proof |-> Absent]

IsDidDocument(doc) ==
  /\ IsText(doc.id) /\ IsUint(doc.created, 64) /\ IsUint(doc.updated, 64)
  /\ LET keys == IF doc.shape = "chain" THEN doc.public_keys ELSE doc.publicKeys
     IN  \A i \in DOMAIN keys : /\ IsText(keys[i].id) /\ IsText(keys[i].type)
                                /\ Optional(keys[i].hex, IsText)
  /\ doc.shape = "chain" =>
       /\ \A i \in DOMAIN doc.public_keys : /\ IsText(doc.public_keys[i].controller)
                                            /\ Optional(doc.public_keys[i].base58, IsText)
       /\ AreTexts(doc.authentication)
       /\ \A i \in DOMAIN doc.service : \A f \in DOMAIN doc.service[i] : IsText(doc.service[i][f])

\* toJson of the chain's document (a proof is not looked into).
DidDocumentJson(doc) ==
  LET Key(k) == JsonMembers(<< <<"id", Quoted(k.id)>>, <<"type", Quoted(k.type)>>,
        <<"controller", Quoted(k.controller)>>, <<"public_key_base58", JsonOrNull(k.base58, Quoted)>>,
        <<"public_key_hex", JsonOrNull(k.hex, Quoted)>> >>)
      Service(s) == JsonMembers(<< <<"id", Quoted(s.id)>>, <<"type", Quoted(s.type)>>,
        <<"service_endpoint", Quoted(s.endpoint)>> >>)
  IN  JsonMembers(<<
        <<"id", Quoted(doc.id)>>,
        <<"public_keys", JsonList([i \in DOMAIN doc.public_keys |-> Key(doc.public_keys[i])])>>,
        <<"authentication", JsonTexts(doc.authentication)>>,
        <<"service", JsonList([i \in DOMAIN doc.service |-> Service(doc.service[i])])>>,
        <<"created", <<Digits(doc.created)>> >>, <<"updated", <<Digits(doc.updated)>> >>,
        <<"proof", JsonOrNull(doc.proof, LAMBDA p : <<p>>)>> >>)

-----------------------------------------------------------------------------
(* What is signed, and sent *)

Joined(lines) == FlattenSeq([i \in DOMAIN lines |-> IF i = 1 THEN lines[i] ELSE <<LF>> \o lines[i]])
Line(label, text) == <<label>> \o text
IntLine(label, int) == <<label, Digits(Held(int))>>
NonceLine(tx) == IntLine("Nonce: ", tx.nonce)

GrantLines(g) ==
  <<Line("Grantee: ", g.grantee_did), Line("GranteeKey: ", g.grantee_public_key_id),
    IntLine("KeyEpoch: ", g.key_epoch), <<"EphemeralKey: ", Hex(g.ephemeral_public_key)>>,
    <<"EncryptedKey: ", Hex(g.encrypted_key)>>, Line("GrantedBy: ", g.granted_by),
    IntLine("GrantedAt: ", g.granted_at)>>

AreLines(texts) == \A t \in texts : IsLine(t)
IsGrantOfLines(g) ==
  IsGrant(g) /\ AreLines({g.grantee_did, g.grantee_public_key_id, g.granted_by}) /\ IsWillowDid(g.grantee_did)

\* What createSignMessage refuses.
Signs(tx) ==
  CASE tx.kind = "RegisterDid" -> IsDidDocument(tx.didDocument)
    [] tx.kind = "RegisterSubgrove" ->
         /\ IsSafeUint(tx.nonce, 64) /\ AreLines({tx.subgroveId, tx.ownerDid}) /\ IsRegistration(tx)
    [] tx.kind = "DataStore" ->
         /\ AreLines({tx.subgroveId, tx.key, tx.ownerDid}) /\ IsObjectText(tx.data)
         /\ IsSafeUint(tx.nonce, 64)
    [] tx.kind = "StoreFileManifest" ->
         /\ AreLines({tx.subgroveId, tx.fileKey, tx.ownerDid, tx.filename, tx.contentType})
         /\ IsDigest(tx.contentHash) /\ IsDigest(tx.chunkMerkleRoot) /\ IsSafeUint(tx.totalSize, 64)
         /\ IsSafeUint(tx.chunkCount, 32) /\ IsSafeUint(tx.chunkSize, 32) /\ IsSafeUint(tx.nonce, 64)
    [] tx.kind = "DeleteFileManifest" ->
         AreLines({tx.subgroveId, tx.fileKey, tx.ownerDid}) /\ IsSafeUint(tx.nonce, 64)
    [] tx.kind = "UnregisterStorageNode" -> IsLine(tx.nodeDid) /\ IsSafeUint(tx.nonce, 64)
    [] tx.kind = "GrantSubgroveKey" ->
         /\ AreLines({tx.subgroveId, tx.senderDid}) /\ IsKeySubgroveId(tx.subgroveId)
         /\ IsGrantOfLines(tx.encryptedKeyGrant) /\ IsSafeUint(tx.nonce, 64)
    [] tx.kind = "RotateSubgroveKey" ->
         /\ AreLines({tx.subgroveId, tx.senderDid}) /\ IsKeySubgroveId(tx.subgroveId)
         /\ IsSafeUint(tx.newEpoch, 32) /\ IsSafeUint(tx.nonce, 64)
         /\ \A i \in DOMAIN tx.newGrants : IsGrantOfLines(tx.newGrants[i])
    [] tx.kind = "RevokeSubgroveKey" ->
         /\ IsKeySubgroveId(tx.subgroveId) /\ IsWillowDid(tx.revokeeDid) /\ IsWillowDid(tx.senderDid)
         /\ IsSafeUint(tx.nonce, 64)
    [] tx.kind = "Transfer" ->
         AreTexts(<<tx.fromDid, tx.toDid, Or(tx.memo, <<>>)>>) /\ IsUint(tx.amount, 128)
    [] tx.kind = "DeregisterSubgrove" -> IsText(tx.subgroveId) /\ IsText(tx.ownerDid)
    [] tx.kind = "SubmitAnchor" ->
         /\ AreTexts(<<tx.did, tx.anchorId, AnchorRoot(tx), tx.timestamp, tx.previousAnchorHash>>)
         /\ AreTexts(tx.receiptHashes)

\* createSignMessage.
Message(tx) ==
  CASE tx.kind = "RegisterDid" -> DidDocumentJson(ChainDidDocument(tx.didDocument))
    [] tx.kind = "RegisterSubgrove" ->
         Joined(<< <<"RegisterSubgrove">>, Line("Subgrove: ", tx.subgroveId), Line("Owner: ", tx.ownerDid),
                   <<"Config: ", Sha256(RegisterBytes(RegisterWire(tx)))>>, NonceLine(tx) >>)
    [] tx.kind = "DataStore" ->
         Joined(<< <<"StoreData">>, Line("Subgrove: ", tx.subgroveId), Line("Key: ", tx.key),
                   Line("Owner: ", tx.ownerDid), <<"DataHash: ", Sha256(Utf8(tx.data))>>, NonceLine(tx) >>)
    [] tx.kind = "StoreFileManifest" ->
         Joined(<< <<"StoreFileManifest">>, Line("Subgrove: ", tx.subgroveId), Line("Key: ", tx.fileKey),
                   Line("Owner: ", tx.ownerDid), Line("Filename: ", tx.filename),
                   Line("ContentType: ", tx.contentType), IntLine("TotalSize: ", tx.totalSize),
                   <<"ContentHash: ", Hex(tx.contentHash)>>, IntLine("ChunkCount: ", tx.chunkCount),
                   IntLine("ChunkSize: ", tx.chunkSize), <<"ChunkMerkleRoot: ", Hex(tx.chunkMerkleRoot)>>,
                   <<"Encryption: none">>, NonceLine(tx) >>)
    [] tx.kind = "DeleteFileManifest" ->
         Joined(<< <<"DeleteFileManifest">>, Line("Subgrove: ", tx.subgroveId), Line("Key: ", tx.fileKey),
                   Line("Owner: ", tx.ownerDid), NonceLine(tx) >>)
    [] tx.kind = "UnregisterStorageNode" ->
         Joined(<< <<"UnregisterStorageNode">>, Line("Node: ", tx.nodeDid), NonceLine(tx) >>)
    [] tx.kind = "GrantSubgroveKey" ->
         Joined(<< <<"GrantSubgroveKey">>, Line("Subgrove: ", tx.subgroveId), Line("Sender: ", tx.senderDid) >>
                  \o GrantLines(tx.encryptedKeyGrant) \o <<NonceLine(tx)>>)
    [] tx.kind = "RotateSubgroveKey" ->
         Joined(<< <<"RotateSubgroveKey">>, Line("Subgrove: ", tx.subgroveId), Line("Sender: ", tx.senderDid),
                   IntLine("NewEpoch: ", tx.newEpoch), <<"Grants: ", Digits(Len(tx.newGrants))>> >>
                  \o Each(tx.newGrants, GrantLines) \o <<NonceLine(tx)>>)
    [] tx.kind = "RevokeSubgroveKey" ->
         <<"RevokeSubgroveKey", ":">> \o tx.subgroveId \o <<":">> \o tx.revokeeDid \o <<":">>
           \o tx.senderDid \o <<":", Digits(Held(tx.nonce))>>
    [] tx.kind = "Transfer" ->
         Joined(<< <<"Transfer">>, Line("From: ", tx.fromDid), Line("To: ", tx.toDid),
                   IntLine("Amount: ", tx.amount), Line("Memo: ", Or(tx.memo, <<>>)), NonceLine(tx) >>)
    [] tx.kind = "DeregisterSubgrove" ->
         <<"DeregisterSubgrove", ":">> \o tx.subgroveId \o <<":">> \o tx.ownerDid
           \o <<":", Digits(Held(tx.nonce))>>
    [] tx.kind = "SubmitAnchor" ->
         Joined(<< <<"SubmitAnchor">>, <<Sha256(Utf8(AnchorBody(tx)))>>, <<Digits(Held(tx.nonce))>> >>)

\* The integers of a kind's body, which createTransactionWrapper takes from the
\* write; its other fields go as they are.
Integers == {"amount", "totalSize", "chunkCount", "chunkSize", "newEpoch", "nonce"}

\* createTransactionWrapper, without the signature.
Body(tx) ==
  IF tx.kind = "RegisterSubgrove" THEN RegisterWire(tx)
  ELSE [f \in DOMAIN tx |->
         CASE f \in Integers -> Held(tx[f])
           [] f = "didDocument" -> ChainDidDocument(tx[f])
           [] f = "data" -> Utf8(tx[f])
           [] f = "memo" -> Or(tx[f], <<>>)
           [] f = "encryptedKeyGrant" -> GrantWire(tx[f])
           [] f = "newGrants" -> [i \in DOMAIN tx[f] |-> GrantWire(tx[f][i])]
           [] f = "merkleRoot" -> AnchorRoot(tx)
           [] f = "sequenceRange" -> [i \in 1 .. 2 |-> Held(tx[f][i])]
           [] OTHER -> tx[f]]

NotSigned == [signed |-> FALSE]

\* signTransaction: the message and the body of a write that is not refused.
SignTransaction(tx) ==
  IF Signs(tx) THEN [signed |-> TRUE, message |-> Utf8(Message(tx)), body |-> Body(tx)] ELSE NotSigned
=============================================================================
