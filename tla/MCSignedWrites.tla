--------------------------- MODULE MCSignedWrites ---------------------------
(***************************************************************************)
(* Small schemas and writes for ProofChecks. Writes are compared in        *)
(* families: those that differ in two fields that lie side by side in what *)
(* is signed, or in one.                                                   *)
(***************************************************************************)
EXTENDS ProofChecks

-----------------------------------------------------------------------------
(* Schemas *)

MCStringTokens == {"version", "escaped_version", "fields", "indexes", "required_fields", "string",
                   "a", "b", "other", "lone", "p"}
MCDecoded == [t \in MCStringTokens |-> IF t = "escaped_version" THEN "version" ELSE t]
MCNamesInOrder == <<"a", "b", "string">>

A(token) == [t |-> "atom", v |-> token]
L(items) == [t |-> "arr", v |-> items]
O(members) == [t |-> "obj", v |-> members]

FieldTypeValues ==
  {A("string"), A("other"), A("null"), A("1"), O(<<>>), O(<< <<"string", A("null")>> >>),
   O(<< <<"string", A("1")>> >>), O(<< <<"string", A("null")>>, <<"string", A("null")>> >>), L(<<>>)}

PartValues ==
  {A("1"), A("1.0"), A("null"), A("a"), L(<<>>), O(<<>>), L(<<A("a")>>), L(<<A("a"), A("lone")>>),
   L(<<A("a"), A("b")>>), L(<<A("1")>>), L(<<O(<<>>)>>), O(<< <<"lone", A("string")>> >>)}
  \cup {O(<< <<"a", v>> >>) : v \in FieldTypeValues}
  \cup {O(<< <<"a", A("string")>>, <<f, v>> >>) : f \in {"a", "b"}, v \in {A("string"), A("other")}}

FewPartValues == {A("1"), L(<<>>), O(<< <<"a", A("string")>> >>), O(<< <<"version", L(<<A("1")>>)>> >>)}

Keys == {"version", "escaped_version", "fields", "indexes", "required_fields", "other", "lone"}

Schemas ==
  {A("1"), O(<<>>), L(<<>>)}
  \cup {O(<< <<k, v>> >>) : k \in Keys, v \in PartValues}
  \cup {O(<< <<k, v>>, <<l, w>> >>) : k, l \in Keys, v, w \in FewPartValues}
  \cup {L([i \in 1 .. n |-> IF i = place THEN v
                            ELSE IF i = 1 THEN A("1") ELSE IF i = 2 THEN O(<<>>) ELSE L(<<>>)]) :
          n \in 1 .. 5, place \in 1 .. 5, v \in PartValues}

InitSchema ==
  \E schema \in Schemas : \E text \in {SchemaTextOf(schema), <<" ">> \o SchemaTextOf(schema), Tail(SchemaTextOf(schema))} :
    input = [kind |-> "schema", schema |-> schema, text |-> text,
             isJson |-> text # Tail(SchemaTextOf(schema))]

FieldOf == [type : {"string", "other"}, indexed : BOOLEAN, required : BOOLEAN]

InitDefinition ==
  \E version \in {Absent, "1", "1.0"}, required \in {<<>>, <<"b">>, <<"b", "a">>, <<"lone">>},
     fields \in UNION {[S -> FieldOf] : S \in {{}, {"a"}, {"a", "b"}}}, indexes \in {<<>>, <<"a">>} :
    input = [kind |-> "definition",
             definition |-> [version |-> version, fields |-> fields, indexes |-> indexes, required |-> required]]

-----------------------------------------------------------------------------
(* Writes *)

MCAlphabet == <<"a", "b", "c", "d", "e", "f", "g", "h">>
MCWidth == [bits \in {8, 32, 64, 128} |-> CASE bits = 8 -> 1 [] bits = 128 -> 3 [] OTHER -> 2]

N(n) == Writes!Number(n)
Ints == {N(n) : n \in {1, 7, 8, 9}} \cup {[form |-> "bigint", meant |-> 9], [form |-> "digits", meant |-> 70]}

TextA == <<"a">>
DidA == <<Writes!DidPrefix, "a">>
DidB == <<Writes!DidPrefix, "b">>
Dids == {DidA, DidB, <<Writes!DidPrefix>>, <<Writes!DidPrefix, "a", ":">>, <<>>}

\* Texts that put a line with a label inside a field before or after it.
Around(label) ==
  {TextA, <<"a", Writes!LF, label, "b">>, <<"b", Writes!LF, label, "a">>, <<Writes!HighHalf>>, <<Writes!LowHalf>>,
   <<Writes!HighHalf, Writes!LowHalf>>, <<"replacement">>}

\* Texts of bytes that may be taken for lengths.
Short2 == {<<>>, TextA, <<"b">>, <<"a", "a">>, <<"b", "a">>, <<"a", "b">>, <<"b", "a", "a">>}

\* Texts with what JSON escapes.
Quoting == {TextA, <<"\"">>, <<"\\">>, <<"\\", "\"">>, <<"\"", ",", "\"">>, <<"\\", "\\">>, <<Writes!LF>>, <<"n">>, <<"\\", "n">>}

\* The writes that differ from one in one field, or two.
One1(tx, f, values) == {[tx EXCEPT ![f] = v] : v \in values}
Two(tx, f, g, values) == {[tx EXCEPT ![f] = v, ![g] = w] : v, w \in values}

DataStore ==
  [kind |-> "DataStore", subgroveId |-> TextA, key |-> TextA, ownerDid |-> DidA, data |-> <<"{", "}">>, nonce |-> N(1)]
StoreFile ==
  [kind |-> "StoreFileManifest", subgroveId |-> TextA, fileKey |-> TextA, ownerDid |-> DidA, filename |-> TextA,
   contentType |-> TextA, totalSize |-> N(1), contentHash |-> TextA, chunkCount |-> N(1), chunkSize |-> N(1),
   chunkMerkleRoot |-> TextA, nonce |-> N(1)]
DeleteFile == [kind |-> "DeleteFileManifest", subgroveId |-> TextA, fileKey |-> TextA, ownerDid |-> DidA, nonce |-> N(1)]
Unregister == [kind |-> "UnregisterStorageNode", nodeDid |-> DidA, nonce |-> N(1)]
GrantOf ==
  [grantee_did |-> DidA, key_epoch |-> N(0), grantee_public_key_id |-> TextA, ephemeral_public_key |-> TextA,
   encrypted_key |-> TextA, granted_by |-> TextA, granted_at |-> N(1)]
Grant == [kind |-> "GrantSubgroveKey", subgroveId |-> TextA, encryptedKeyGrant |-> GrantOf, senderDid |-> DidA, nonce |-> N(1)]
Rotate == [kind |-> "RotateSubgroveKey", subgroveId |-> TextA, newEpoch |-> N(1), newGrants |-> <<GrantOf>>, senderDid |-> DidA, nonce |-> N(1)]
Revoke == [kind |-> "RevokeSubgroveKey", subgroveId |-> TextA, revokeeDid |-> DidA, senderDid |-> DidA, nonce |-> N(1)]
Transfer == [kind |-> "Transfer", fromDid |-> DidA, toDid |-> DidB, amount |-> N(1), memo |-> Absent, nonce |-> N(1)]
Deregister == [kind |-> "DeregisterSubgrove", subgroveId |-> TextA, ownerDid |-> DidA, nonce |-> N(1)]
Anchor ==
  [kind |-> "SubmitAnchor", did |-> DidA, anchorId |-> TextA, sequenceRange |-> <<N(1), N(1)>>, merkleRoot |-> Absent,
   receiptHashes |-> <<TextA>>, timestamp |-> TextA, previousAnchorHash |-> TextA, isGenesis |-> FALSE, nonce |-> N(1)]
SdkDocument ==
  [shape |-> "sdk", id |-> DidA, created |-> N(1), updated |-> N(1),
   publicKeys |-> <<[id |-> TextA, type |-> TextA, hex |-> TextA, base64 |-> Absent]>>]
ChainDocument ==
  [shape |-> "chain", id |-> DidA, created |-> N(1), updated |-> N(1),
   public_keys |-> <<[id |-> TextA, type |-> TextA, controller |-> DidA, base58 |-> Absent, hex |-> TextA]>>,
   authentication |-> <<TextA>>, service |-> <<>>, proof |-> Absent]
RegisterDid == [kind |-> "RegisterDid", didDocument |-> SdkDocument]
Register ==
  [kind |-> "RegisterSubgrove", subgroveId |-> TextA, name |-> Absent, description |-> Absent, schema |-> <<"{", "}">>,
   ownerDid |-> DidA, admins |-> Absent, initialFunding |-> Absent, requiredTee |-> Absent, mode |-> Absent,
   retention_window |-> Absent, privacy |-> Absent, initialOwnerKeyGrant |-> Absent, templateConfig |-> Absent,
   confirmationDepth |-> Absent, publicKeyId |-> Absent, nonce |-> N(1), cryptographicCompleteness |-> Absent]

Pricing == {Absent} \cup [enabled : BOOLEAN, price_per_query : {N(1), N(2)}, owner_revenue_share_bps : {N(1)}]
DataMode ==
  [is |-> "DataStorage", name |-> TextA, writers |-> <<DidA>>, free_readers |-> Absent, read_pricing |-> Absent]
FileMode ==
  [is |-> "FileStorage", name |-> TextA, writers |-> <<DidA>>, free_readers |-> Absent, read_pricing |-> Absent,
   max_file_size |-> N(1), replication_factor |-> N(1), retention_period |-> Absent]
Counts(names) == {[is |-> name, value |-> v] : name \in names, v \in {Absent, N(1), N(2)}}
IndexingMode ==
  [is |-> "BlockchainIndexing", manifest_content |-> TextA, wasm_modules |-> <<>>,
   execution_mode |-> [is |-> "ConsensusExecution", rate |-> Absent, tee_type |-> Absent],
   indexer_config |-> [min_indexers |-> N(1), max_indexers |-> N(1), reward_per_epoch |-> N(1),
                       epoch_length |-> Absent, min_indexer_stake |-> N(1)],
   retention_window |-> Absent, completeness |-> Absent, historical_auth_mode |-> "BftEquivalent"]
Modules == {<<>>} \cup {<<[name |-> s, hash |-> TextA, content |-> t]>> : s, t \in Short2}
ExecutionModes3 ==
  {[is |-> "ConsensusExecution", rate |-> Absent, tee_type |-> Absent]}
  \cup {[is |-> "IndexerExecution", rate |-> N(n), tee_type |-> Absent] : n \in {0, 1}}
  \cup {[is |-> "TeeExecution", rate |-> Absent, tee_type |-> t] : t \in {"AwsNitro", "IntelSgx"}}
Completeness == {Absent} \cup [hashes : {<<N(0), N(1)>>, <<N(1), N(0)>>}, deferred : BOOLEAN, bond_amount : {Absent, N(1)}]
DidLists == {Absent, <<>>, <<DidA>>, <<DidB>>, <<DidA, DidB>>}
Privacies ==
  {Absent} \cup [allowed_indexers : {Absent, <<>>, <<TextA>>, << <<>> >>},
                 commitment_frequency : Counts({"EveryUpdate", "EveryNBlocks"})]
Templates ==
  {Absent} \cup [template_id : {TextA, <<>>}, template_version : {N(1)}, variant_id : {TextA, <<>>}, parameters : {<<>>, TextA},
                 contracts : {<<>>, <<TextA>>}, event_signatures : {<<>>, <<TextA>>}, chain : {Absent, TextA}]
GrantsOf(did) == {Absent} \cup {[GrantOf EXCEPT !.grantee_did = did, !.key_epoch = N(n)] : n \in {0, 1}}

DataModes ==
  Two(DataMode, "writers", "free_readers", DidLists) \cup One1(DataMode, "read_pricing", Pricing)

FileModes ==
  Two(FileMode, "writers", "free_readers", DidLists) \cup Two(FileMode, "max_file_size", "retention_period", Ints)
  \cup One1(FileMode, "replication_factor", Ints)

IndexingModes ==
  One1(IndexingMode, "wasm_modules", Modules)
  \cup One1(IndexingMode, "execution_mode", ExecutionModes3) \cup One1(IndexingMode, "completeness", Completeness)
  \cup One1(IndexingMode, "historical_auth_mode", {"BftEquivalent", "CanonizedAccumulator"})
  \cup One1(IndexingMode, "retention_window", Counts({"Blocks", "Seconds", "Indefinite"}))

WithMode == [Register EXCEPT !.mode = IndexingMode]

Families ==
  {Two(DataStore, "subgroveId", "key", Around("Key: ")), Two(DataStore, "key", "ownerDid", Around("Owner: ")),
   One1(DataStore, "data", {<<"{", "}">>, <<"{", " ", "}">>, <<"{", "a", ":", "1", "}">>, <<"1">>, <<"{">>}
     \cup {<<"{", k, ":", "1", "}">> : k \in {"lone", "p"}}
     \cup {<<"{", "a", ":", "[", "]", "}">>, <<"{", "a", ":", "[", "[", "]", "]", "}">>}),
   One1(DataStore, "nonce", Ints),
   Two(StoreFile, "filename", "contentType", Around("ContentType: ")),
   Two(StoreFile, "ownerDid", "filename", Around("Filename: ")),
   One1(StoreFile, "contentHash", {TextA, <<"b">>, <<>>, <<"a", "a">>}) \cup One1(StoreFile, "chunkMerkleRoot", {<<"b">>}),
   One1(StoreFile, "totalSize", Ints) \cup Two(StoreFile, "chunkCount", "chunkSize", Ints),
   Two(DeleteFile, "fileKey", "ownerDid", Around("Owner: ")),
   One1(Unregister, "nodeDid", Around("Nonce: ")),
   Two(Grant, "subgroveId", "senderDid", Around("Sender: ") \cup {<<>>, <<":">>}),
   One1(Grant, "encryptedKeyGrant", Two(GrantOf, "grantee_did", "grantee_public_key_id", Dids \cup Around("GranteeKey: "))),
   One1(Grant, "encryptedKeyGrant", Two(GrantOf, "key_epoch", "granted_at", Ints)),
   Two(Rotate, "subgroveId", "senderDid", Around("Sender: ")),
   One1(Rotate, "newGrants", {<<>>} \cup {<<g, h>> : g, h \in One1(GrantOf, "granted_by", Around("GrantedAt: "))}
                                  \cup {<<g>> : g \in One1(GrantOf, "grantee_did", Dids)}),
   One1(Rotate, "newEpoch", Ints),
   Two(Revoke, "revokeeDid", "senderDid", Dids), One1(Revoke, "subgroveId", {TextA, <<>>, <<"a", ":">>, <<Writes!LowHalf>>}),
   Two(Transfer, "fromDid", "toDid", Dids) \cup Two(Transfer, "amount", "nonce", Ints)
     \cup One1(Transfer, "memo", {<<>>, Absent} \cup Around("Nonce: ")),
   Two(Deregister, "subgroveId", "ownerDid", Dids \cup {TextA, <<"a", ":">>, <<"a", ":", Writes!DidPrefix, "a">>}),
   Two(Anchor, "anchorId", "timestamp", Quoting), One1(Anchor, "did", Quoting \cup Dids),
   Two(Anchor, "merkleRoot", "previousAnchorHash", Quoting),
   One1(Anchor, "receiptHashes", {<<>>} \cup {<<s>> : s \in Quoting} \cup {<<s, t>> : s, t \in Quoting}
                                   \cup {<<TextA, TextA, TextA>>, <<TextA, TextA, TextA, TextA>>}),
   One1(Anchor, "isGenesis", BOOLEAN) \cup One1(Anchor, "sequenceRange", {<<N(1), N(2)>>, <<N(2), N(1)>>}),
   One1(RegisterDid, "didDocument", {SdkDocument, ChainDocument}
     \cup {[SdkDocument EXCEPT !.publicKeys = <<[id |-> s, type |-> TextA, hex |-> t, base64 |-> Absent]>>] : s, t \in Quoting}
     \cup {[SdkDocument EXCEPT !.publicKeys = <<>>]}
     \cup {[SdkDocument EXCEPT !.publicKeys[1].hex = Absent, !.publicKeys[1].base64 = b] : b \in {Absent, TextA}}
     \cup Two(SdkDocument, "created", "updated", Ints)
     \cup {[ChainDocument EXCEPT !.authentication = x] : x \in {<<>>, <<TextA, TextA>>}}
     \cup {[ChainDocument EXCEPT !.service = <<[id |-> s, type |-> TextA, endpoint |-> t]>>] : s, t \in {TextA, <<"\"">>}}),
   Two(WithMode, "subgroveId", "ownerDid", Around("Owner: ") \cup Dids),
   Two(WithMode, "name", "description", Short2), Two(WithMode, "description", "publicKeyId", Short2 \cup {Absent}),
   One1(Register, "schema", {<<"{", "}">>, <<"[", "]">>, <<"{", "version", ":", "1", "}">>, <<"1">>}),
   One1(Register, "admins", DidLists),
   One1(WithMode, "admins", {Absent, <<>>} \cup {<<s>> : s \in Short2} \cup {<<s, t>> : s, t \in Short2}),
   Two(Register, "initialFunding", "confirmationDepth", Ints),
   One1(Register, "requiredTee", {Absent, "AwsNitro", "IntelSgx"}) \cup One1(Register, "cryptographicCompleteness", {TRUE, FALSE}),
   One1(Register, "mode", DataModes), One1(Register, "mode", FileModes), One1(Register, "mode", IndexingModes),
   {[WithMode EXCEPT !.retention_window = v] : v \in {Absent} \cup Counts({"Blocks", "Indefinite"})}
     \cup {[Register EXCEPT !.retention_window = v] : v \in Counts({"Blocks"})},
   {[Register EXCEPT !.privacy = p, !.initialOwnerKeyGrant = g] : p \in Privacies, g \in GrantsOf(DidA) \cup GrantsOf(DidB)},
   One1(WithMode, "templateConfig", Templates),
   {DataStore, StoreFile, DeleteFile, Unregister, Grant, Rotate, Revoke, Transfer, Deregister, Anchor, RegisterDid, Register}}

InitWrites ==
  \E family \in Families : \E first, second \in family :
    input = [kind |-> "writes", first |-> first, second |-> second]
=============================================================================
