----------------------------- MODULE FilesProofs -----------------------------
(***************************************************************************)
(* Proofs about Files, for any uploads, downloads and deletes, files of    *)
(* any length, any chunk size and any number of faults.                    *)
(***************************************************************************)
EXTENDS Files, SequenceTheorems, WellFoundedInduction, TLAPS

-----------------------------------------------------------------------------
(* A file is its chunks put together *)

LEMMA LeastNat ==
  ASSUME NEW S, S \subseteq Nat, S # {}
  PROVE  \E n \in S : \A m \in S : n <= m
<1> DEFINE R == {ss \in Nat \X Nat : ss[1] < ss[2]}
<1>1. IsWellFoundedOn(R, Nat)
  BY NatLessThanWellFounded DEF OpToRel
<1>2. PICK n \in S : \A m \in S : ~(<<m, n>> \in R)
  <2> HIDE DEF R
  <2> QED BY <1>1, WFMin
<1>3. ASSUME NEW m \in S PROVE n <= m
  <2>1. <<m, n>> \in Nat \X Nat /\ ~(<<m, n>> \in R)
    BY <1>2
  <2>2. ~(m < n)
    BY <2>1
  <2> QED BY <2>2
<1> QED BY <1>3

LEMMA FlattenIs ==
  ASSUME NEW s, Len(s) \in Nat \ {0}, NEW g,
         g = [i \in 1 .. Len(s) |-> IF i = 1 THEN s[i] ELSE g[i - 1] \o s[i]]
  PROVE  FlattenSeq(s) = g[Len(s)]
<1> DEFINE n == Len(s)
           f == CHOOSE h : h = [i \in 1 .. n |-> IF i = 1 THEN s[i] ELSE h[i - 1] \o s[i]]
<1>1. f = [i \in 1 .. n |-> IF i = 1 THEN s[i] ELSE f[i - 1] \o s[i]]
  OBVIOUS
<1>2. FlattenSeq(s) = f[n]
  BY DEF FlattenSeq
<1>3. ASSUME NEW i \in 1 .. n, f[i] # g[i]
      PROVE  FALSE
  <2> HIDE DEF f
  <2> DEFINE D == {j \in 1 .. n : f[j] # g[j]}
  <2>1. PICK j \in D : \A m \in D : j <= m
    <3>1. i \in D
      BY <1>3
    <3>2. D \subseteq Nat
      OBVIOUS
    <3> HIDE DEF D
    <3> QED BY <3>1, <3>2, LeastNat
  <2>2. j \in 1 .. n /\ f[j] # g[j]
    OBVIOUS
  <2>3. CASE j = 1
    <3>1. f[j] = s[j] /\ g[j] = s[j]
      BY <1>1, <2>2, <2>3
    <3> QED BY <3>1, <2>2
  <2>4. CASE j # 1
    <3>1. j - 1 \in 1 .. n /\ ~(j <= j - 1)
      BY <2>2, <2>4
    <3>2. f[j - 1] = g[j - 1]
      BY <2>1, <3>1
    <3>3. f[j] = f[j - 1] \o s[j] /\ g[j] = g[j - 1] \o s[j]
      BY <1>1, <2>2, <2>4
    <3> QED BY <3>2, <3>3, <2>2
  <2> QED BY <2>3, <2>4
<1>4. n \in 1 .. n
  OBVIOUS
<1> QED BY <1>2, <1>3, <1>4
LEMMA Division ==
  ASSUME NEW l \in Nat, NEW c \in Nat \ {0}, NEW n, n = (l + c - 1) \div c
  PROVE  n \in Nat /\ l <= n * c /\ (n - 1) * c < l
  BY SMTT(30)

LEMMA ChunkCount ==
  ASSUME NEW b \in Seq(Nat), NEW n, n = (Len(b) + ChunkSize - 1) \div ChunkSize
  PROVE  /\ n \in Nat /\ Len(b) <= n * ChunkSize
         /\ n = 0 <=> b = <<>>
         /\ \A i \in 1 .. n : (i - 1) * ChunkSize \in Nat /\ (i - 1) * ChunkSize < Len(b)
<1> DEFINE c == ChunkSize
           l == Len(b)
<1>1. c \in Nat \ {0} /\ l \in Nat /\ (l = 0 <=> b = <<>>)
  BY FilesAssumption
<1>2. n \in Nat /\ l <= n * c /\ (n - 1) * c < l
  <2>1. n = (l + c - 1) \div c
    OBVIOUS
  <2> HIDE DEF c, l
  <2> QED BY <1>1, <2>1, Division
<1>3. n = 0 <=> l = 0
  <2> HIDE DEF c, l
  <2>1. l = 0 => (n - 1) * c < 0
    BY <1>2
  <2>2. ASSUME l = 0, n # 0 PROVE FALSE
    <3>1. n - 1 \in Nat
      BY <1>2, <2>2
    <3>2. (n - 1) * c >= 0
      BY <3>1, <1>1, SMTT(30)
    <3> QED BY <3>2, <2>1, <2>2, <1>1
  <2>3. n = 0 => n * c = 0
    BY <1>1
  <2> QED BY <1>1, <1>2, <2>2, <2>3
<1>4. ASSUME NEW i \in 1 .. n
      PROVE  (i - 1) * c \in Nat /\ (i - 1) * c < l
  <2> HIDE DEF c, l
  <2>1. (i - 1) * c \in Nat
    BY <1>1, <1>2, SMTT(30)
  <2>2. (i - 1) * c <= (n - 1) * c
    <3>1. i - 1 \in Nat /\ n - 1 \in Nat /\ i - 1 <= n - 1
      BY <1>2
    <3> QED BY <3>1, <1>1, SMTT(30)
  <2>3. (n - 1) * c \in Int /\ (i - 1) * c \in Int
    BY <1>1, <1>2, SMTT(30)
  <2> QED BY <2>1, <2>2, <2>3, <1>1, <1>2
<1> QED BY <1>1, <1>2, <1>3, <1>4

LEMMA ChunksAreSeqs ==
  ASSUME NEW b \in Seq(Nat)
  PROVE  ChunkData(b) \in Seq(Seq(Nat))
<1> DEFINE n == (Len(b) + ChunkSize - 1) \div ChunkSize
<1>1. n \in Nat
  BY ChunkCount
<1>2. ASSUME NEW i \in 1 .. n
      PROVE  SubSeq(b, (i - 1) * ChunkSize + 1, IF i * ChunkSize < Len(b) THEN i * ChunkSize ELSE Len(b)) \in Seq(Nat)
  <2>1. (i - 1) * ChunkSize \in Nat
    BY ChunkCount
  <2>2. i * ChunkSize \in Nat /\ Len(b) \in Nat
    BY <1>1, FilesAssumption, SMTT(30)
  <2> DEFINE from == (i - 1) * ChunkSize + 1
             to == IF i * ChunkSize < Len(b) THEN i * ChunkSize ELSE Len(b)
  <2>3. from \in Int /\ from >= 1 /\ to \in Int /\ to <= Len(b)
    BY <2>1, <2>2
  <2>4. \A j \in from .. to : b[j] \in Nat
    <3> HIDE DEF from, to
    <3> QED BY <2>3
  <2> HIDE DEF from, to
  <2>5. SubSeq(b, from, to) \in Seq(Nat)
    BY <2>3, <2>4, SubSeqProperties
  <2> QED BY <2>5 DEF from, to
<1>3. ChunkData(b) \in [1 .. n -> Seq(Nat)]
  BY <1>2 DEF ChunkData
<1> HIDE DEF n
<1> QED BY <1>1, <1>3, SeqDef

LEMMA ChunkDomain ==
  ASSUME NEW b \in Seq(Nat)
  PROVE  /\ Len(ChunkData(b)) = (Len(b) + ChunkSize - 1) \div ChunkSize
         /\ Len(ChunkData(b)) \in Nat
         /\ DOMAIN ChunkData(b) = 1 .. Len(ChunkData(b))
<1> DEFINE n == (Len(b) + ChunkSize - 1) \div ChunkSize
<1>1. n \in Nat
  BY ChunkCount
<1>2. DOMAIN ChunkData(b) = 1 .. n
  BY DEF ChunkData
<1>3. DOMAIN ChunkData(b) = 1 .. Len(ChunkData(b)) /\ Len(ChunkData(b)) \in Nat
  BY ChunksAreSeqs, LenProperties
<1> DEFINE m == Len(ChunkData(b))
<1>4. n = m
  <2>0. 1 .. n = 1 .. m /\ n \in Nat /\ m \in Nat
    BY <1>1, <1>2, <1>3
  <2> HIDE DEF n, m
  <2>1. \A i \in Nat : i >= 1 /\ i <= n <=> i >= 1 /\ i <= m
    BY <2>0
  <2>2. CASE n > m
    BY <2>0, <2>1, <2>2
  <2>3. CASE m > n
    BY <2>0, <2>1, <2>3
  <2> QED BY <2>0, <2>2, <2>3
<1> QED BY <1>3, <1>4

LEMMA ChunksMakeTheFile ==
  ASSUME NEW b \in Seq(Nat)
  PROVE  FlattenSeq(ChunkData(b)) = b
<1> DEFINE s == ChunkData(b)
           n == Len(s)
           To(i) == IF i * ChunkSize < Len(b) THEN i * ChunkSize ELSE Len(b)
           g == [i \in 1 .. n |-> SubSeq(b, 1, To(i))]
<1>1. n \in Nat /\ DOMAIN s = 1 .. n /\ Len(b) <= n * ChunkSize /\ (n = 0 <=> b = <<>>)
  BY ChunkCount, ChunkDomain
<1>2. \A i \in 1 .. n : s[i] = SubSeq(b, (i - 1) * ChunkSize + 1, To(i))
  BY ChunkDomain DEF ChunkData
<1>3. CASE n = 0
  BY <1>1, <1>3 DEF FlattenSeq
<1>4. CASE n # 0
  <2>1. ASSUME NEW i \in 1 .. n
        PROVE  g[i] = IF i = 1 THEN s[i] ELSE g[i - 1] \o s[i]
    <3>1. CASE i = 1
      <4>1. (i - 1) * ChunkSize + 1 = 1
        BY <3>1, FilesAssumption
      <4> QED BY <1>2, <3>1, <4>1
    <3>2. CASE i # 1
      <4> DEFINE k == (i - 1) * ChunkSize
      <4>1. k \in Nat /\ k < Len(b) /\ i - 1 \in 1 .. n
        BY <3>2, ChunkCount, ChunkDomain
      <4>2. To(i - 1) = k
        BY <4>1
      <4>3. i * ChunkSize = k + ChunkSize
        <5>1. i \in Int /\ ChunkSize \in Int
          BY FilesAssumption, <1>1
        <5> QED BY <5>1, SMTT(30)
      <4>4. To(i) \in k .. Len(b)
        BY <4>1, <4>3, FilesAssumption
      <4>5. SubSeq(b, 1, k) \o SubSeq(b, k + 1, To(i)) = SubSeq(b, 1, To(i))
        <5> HIDE DEF k, To
        <5>1. 1 \in 1 .. Len(b) + 1 /\ k \in 1 - 1 .. Len(b)
          BY <4>1
        <5> QED BY <5>1, <4>4, ConcatAdjacentSubSeq
      <4>6. g[i] = SubSeq(b, 1, To(i)) /\ g[i - 1] = SubSeq(b, 1, k)
        BY <4>1, <4>2
      <4>7. s[i] = SubSeq(b, k + 1, To(i))
        BY <1>2
      <4> HIDE DEF g, s, To, k
      <4> QED BY <4>5, <4>6, <4>7, <3>2
    <3> QED BY <3>1, <3>2
  <2>2. g = [i \in 1 .. n |-> IF i = 1 THEN s[i] ELSE g[i - 1] \o s[i]]
    <3> DEFINE h == [i \in 1 .. n |-> IF i = 1 THEN s[i] ELSE g[i - 1] \o s[i]]
    <3>1. \A i \in 1 .. n : g[i] = h[i]
      <4> HIDE DEF g, s, n
      <4> QED BY <2>1
    <3>2. g = [i \in 1 .. n |-> g[i]]
      OBVIOUS
    <3> HIDE DEF g, s, n
    <3> QED BY <3>1, <3>2
  <2>3. FlattenSeq(s) = g[n]
    <3>1. Len(s) \in Nat \ {0}
      BY <1>1, <1>4
    <3> HIDE DEF g, s
    <3> QED BY <2>2, <3>1, FlattenIs
  <2>4. To(n) = Len(b)
    <3>1. n * ChunkSize \in Nat /\ Len(b) \in Nat
      BY <1>1, FilesAssumption, SMTT(30)
    <3> QED BY <1>1, <3>1
  <2>5. g[n] = SubSeq(b, 1, Len(b))
    <3>1. n \in 1 .. n
      BY <1>1, <1>4
    <3> QED BY <2>4, <3>1
  <2> HIDE DEF g, s
  <2> QED BY <2>3, <2>5, SubSeqFull DEF s
<1> QED BY <1>3, <1>4

-----------------------------------------------------------------------------
(* The inductive invariant *)

Manifests == {ManifestOf(b) : b \in Contents} \cup {Missing}

DownloadType ==
  [at : {"idle", "fetching", "done", "failed"}, manifest : Manifests,
   of : Uploads \cup {Missing}, chunks : Seq(Seq(Nat)), honest : BOOLEAN, whole : BOOLEAN]

UploadType == [at : {"idle", "sending", "failed", "done"}, sent : Nat, accepted : BOOLEAN]

TypeInv ==
  /\ data \in [Uploads -> Contents]
  /\ upload \in [Uploads -> UploadType]
  /\ chain \in Seq(Uploads \cup {Missing}) /\ api \in 1 .. Len(chain)
  /\ download \in [Downloads -> DownloadType]
  /\ faults \in [losses : Nat, drops : Nat]

\* What the node keeps is chunks of uploaded files, under their own content and index.
KeptInv ==
  \A key \in DOMAIN node : \E b \in Contents : \E i \in DOMAIN ChunkData(b) :
    key = <<HashOf(b), i>> /\ node[key] = ChunkData(b)[i]

\* The node has the chunks with these indexes of the upload's file.
Has(u, n) == \A i \in 1 .. n : <<HashOf(data[u]), i>> \in DOMAIN node

\* What an upload sent the node has, until the node loses something.
SentInv ==
  \A u \in Uploads :
    /\ upload[u].sent <= Len(ChunkData(data[u]))
    /\ upload[u].at = "done" => upload[u].sent = Len(ChunkData(data[u]))
    /\ faults.losses = 0 => Has(u, upload[u].sent)

\* A download has the manifest of an upload of the chain; the first chunks of its
\* file too, while the node was honest and had them all.
ReadInv(d) ==
  LET r == download[d]
  IN  /\ r.at = "idle" => r.chunks = <<>> /\ ~r.whole
      /\ r.at \in {"fetching", "done"} =>
           r.of \in Uploads \cap Range(chain) /\ r.manifest = ManifestOf(data[r.of])
      /\ r.at = "done" => Accepts(r.manifest, r.chunks)
      /\ r.whole /\ r.honest => r.at # "failed"
      /\ r.whole /\ r.honest /\ r.at = "fetching" =>
           /\ Has(r.of, Len(ChunkData(data[r.of])))
           /\ Len(r.chunks) <= Len(ChunkData(data[r.of]))
           /\ \A i \in 1 .. Len(r.chunks) : r.chunks[i] = ChunkData(data[r.of])[i]

ReadsInv == \A d \in Downloads : ReadInv(d)

IInv == TypeInv /\ KeptInv /\ SentInv /\ ReadsInv

LEMMA ManifestIs ==
  ASSUME NEW b
  PROVE  /\ ManifestOf(b).content = HashOf(b) /\ ManifestOf(b).count = Len(ChunkData(b))
         /\ ManifestOf(b).root = MerkleRoot([i \in DOMAIN ChunkData(b) |-> HashOf(ChunkData(b)[i])])
BY DEF ManifestOf

LEMMA KeptAreSeqs ==
  ASSUME KeptInv, NEW key \in DOMAIN node
  PROVE  node[key] \in Seq(Nat)
<1>1. PICK b \in Contents : \E i \in DOMAIN ChunkData(b) : node[key] = ChunkData(b)[i]
  BY DEF KeptInv
<1>2. b \in Seq(Nat)
  BY FilesAssumption
<1> QED BY <1>1, <1>2, ChunksAreSeqs, ElementOfSeq, ChunkDomain

\* A file's chunk is found under its content and index, and under no other's.
LEMMA KeptIs ==
  ASSUME KeptInv, NEW b \in Contents, NEW i, <<HashOf(b), i>> \in DOMAIN node
  PROVE  node[<<HashOf(b), i>>] = ChunkData(b)[i]
<1> DEFINE key == <<HashOf(b), i>>
<1>1. PICK bb \in Contents :
        \E j \in DOMAIN ChunkData(bb) : key = <<HashOf(bb), j>> /\ node[key] = ChunkData(bb)[j]
  BY DEF KeptInv
<1>2. PICK j \in DOMAIN ChunkData(bb) : key = <<HashOf(bb), j>> /\ node[key] = ChunkData(bb)[j]
  BY <1>1
<1>3. bb = b /\ j = i
  BY <1>2 DEF HashOf
<1> QED BY <1>2, <1>3

-----------------------------------------------------------------------------
(* Every step keeps the types *)

LEMMA TypeStep ==
  ASSUME TypeInv, KeptInv, [Next]_vars
  PROVE  TypeInv'
<1> USE DEF TypeInv
<1>1. CASE UNCHANGED vars
  BY <1>1 DEF vars
<1>2. ASSUME NEW u \in Uploads, SubmitManifest(u)
      PROVE  TypeInv'
  <2>1. PICK answer : AfterSubmit(u, answer)
    BY <1>2 DEF SubmitManifest
  <2>2. \A at \in {"sending", "failed"}, accepted \in BOOLEAN :
          [upload[u] EXCEPT !.at = at, !.accepted = accepted] \in UploadType
    BY DEF UploadType
  <2>3. upload' \in [Uploads -> UploadType]
    BY <2>1, <2>2 DEF AfterSubmit
  <2> QED BY <1>2, <2>3 DEF SubmitManifest
<1>3. ASSUME NEW u \in Uploads, ResubmitManifest(u)
      PROVE  TypeInv'
  BY <1>3 DEF ResubmitManifest
<1>4. ASSUME NEW u \in Uploads, SendChunk(u)
      PROVE  TypeInv'
  <2>1. upload' = [upload EXCEPT ![u].sent = upload[u].sent + 1] \/ upload' = [upload EXCEPT ![u].at = "failed"]
    BY <1>4 DEF SendChunk
  <2>2. /\ [upload[u] EXCEPT !.sent = upload[u].sent + 1] \in UploadType
        /\ [upload[u] EXCEPT !.at = "failed"] \in UploadType
    <3>1. upload[u] \in UploadType
      OBVIOUS
    <3>2. upload[u].sent + 1 \in Nat
      BY <3>1 DEF UploadType
    <3> QED BY <3>1, <3>2 DEF UploadType
  <2>3. upload' \in [Uploads -> UploadType]
    BY <2>1, <2>2
  <2> QED BY <1>4, <2>3 DEF SendChunk
<1>5. ASSUME NEW u \in Uploads, UploadReturns(u)
      PROVE  TypeInv'
  <2>1. [upload[u] EXCEPT !.at = "done"] \in UploadType
    BY DEF UploadType
  <2>2. upload' \in [Uploads -> UploadType]
    BY <1>5, <2>1 DEF UploadReturns
  <2> QED BY <1>5, <2>2 DEF UploadReturns
<1>6. ASSUME NEW d \in Deletes, SubmitDelete(d)
      PROVE  TypeInv'
  BY <1>6 DEF SubmitDelete
<1>7. ASSUME NEW tx, Include(tx)
      PROVE  TypeInv'
  <2> DEFINE m == IF tx \in Uploads THEN tx ELSE Missing
  <2>1. chain' = Append(chain, m) /\ m \in Uploads \cup {Missing}
    BY <1>7 DEF Include
  <2>2. chain' \in Seq(Uploads \cup {Missing}) /\ Len(chain') = Len(chain) + 1
    BY <2>1, AppendProperties
  <2>3. Len(chain) \in Nat
    OBVIOUS
  <2> QED BY <1>7, <2>2, <2>3 DEF Include
<1>8. ASSUME NEW tx, DropFromPool(tx)
      PROVE  TypeInv'
  BY <1>8 DEF DropFromPool
<1>9. CASE ApiFollows
  <2>1. Len(chain) \in Nat
    OBVIOUS
  <2> QED BY <1>9, <2>1 DEF ApiFollows
<1>10. CASE NodeLoses
  <2>1. \A d \in Downloads : [download[d] EXCEPT !.honest = FALSE] \in DownloadType
    BY DEF DownloadType
  <2>2. download' \in [Downloads -> DownloadType]
    BY <1>10, <2>1 DEF NodeLoses
  <2> QED BY <1>10, <2>2 DEF NodeLoses
<1>11. ASSUME NEW d \in Downloads, ReadManifest(d)
       PROVE  TypeInv'
  <2>1. chain[api] \in Uploads \cup {Missing}
    OBVIOUS
  <2>2. chain[api] \in Uploads => data[chain[api]] \in Contents
    OBVIOUS
  <2> DEFINE c == chain[api]
             r == [download[d] EXCEPT !.at = "fetching", !.of = c, !.manifest = ManifestOf(data[c]),
                                      !.honest = @ /\ faults.losses = 0, !.whole = upload[c].at = "done"]
  <2>a. download[d] \in DownloadType
    OBVIOUS
  <2>b. ASSUME c # Missing
        PROVE  r \in DownloadType
    <3>1. c \in Uploads /\ ManifestOf(data[c]) \in Manifests
      BY <2>1, <2>2, <2>b DEF Manifests
    <3>2. (download[d].honest /\ faults.losses = 0) \in BOOLEAN /\ (upload[c].at = "done") \in BOOLEAN
      BY <2>a DEF DownloadType
    <3> HIDE DEF c
    <3> QED BY <2>a, <3>1, <3>2 DEF DownloadType
  <2>c. [download[d] EXCEPT !.at = "failed"] \in DownloadType
    BY <2>a DEF DownloadType
  <2>d. download' = [download EXCEPT ![d] = IF c = Missing THEN [download[d] EXCEPT !.at = "failed"] ELSE r]
    <3> HIDE DEF TypeInv
    <3> QED BY <1>11 DEF ReadManifest
  <2> HIDE DEF r
  <2>3. download' \in [Downloads -> DownloadType]
    BY <2>b, <2>c, <2>d
  <2> QED BY <1>11, <2>3 DEF ReadManifest
<1>12. ASSUME NEW d \in Downloads, FetchChunk(d)
       PROVE  TypeInv'
  <2> DEFINE key == <<download[d].manifest.content, Len(download[d].chunks) + 1>>
  <2>1. download[d] \in DownloadType /\ download[d].chunks \in Seq(Seq(Nat))
    BY DEF DownloadType
  <2>2. CASE key \in DOMAIN node /\ download' = [download EXCEPT ![d].chunks = Append(@, node[key])] /\ UNCHANGED faults
    <3>1. Append(download[d].chunks, node[key]) \in Seq(Seq(Nat))
      BY <2>1, <2>2, KeptAreSeqs, AppendProperties
    <3>2. [download[d] EXCEPT !.chunks = Append(@, node[key])] \in DownloadType
      BY <2>1, <3>1 DEF DownloadType
    <3>3. download' \in [Downloads -> DownloadType]
      BY <2>2, <3>2
    <3> QED BY <1>12, <2>2, <3>3 DEF FetchChunk
  <2>3. CASE download' = [download EXCEPT ![d].at = "failed"] /\ UNCHANGED faults
    <3>1. [download[d] EXCEPT !.at = "failed"] \in DownloadType
      BY <2>1 DEF DownloadType
    <3>2. download' \in [Downloads -> DownloadType]
      BY <2>3, <3>1
    <3> QED BY <1>12, <2>3, <3>2 DEF FetchChunk
  <2>4. ASSUME NEW chunk \in Noise, faults' = [faults EXCEPT !.losses = @ + 1],
               download' = [download EXCEPT ![d].chunks = Append(@, chunk), ![d].honest = FALSE]
        PROVE  TypeInv'
    <3>1. Append(download[d].chunks, chunk) \in Seq(Seq(Nat))
      BY <2>1, FilesAssumption, AppendProperties
    <3>2. [download[d] EXCEPT !.chunks = Append(@, chunk), !.honest = FALSE] \in DownloadType
      BY <2>1, <3>1 DEF DownloadType
    <3>3. download' \in [Downloads -> DownloadType]
      BY <2>4, <3>2
    <3>4. faults' \in [losses : Nat, drops : Nat]
      BY <2>4
    <3>5. UNCHANGED <<data, upload, chain, api>>
      BY <1>12 DEF FetchChunk
    <3> QED BY <3>3, <3>4, <3>5
  <2> HIDE DEF TypeInv
  <2> QED BY <1>12, <2>2, <2>3, <2>4 DEF FetchChunk
<1>13. ASSUME NEW d \in Downloads, DownloadReturns(d)
       PROVE  TypeInv'
  <2>1. \A at \in {"done", "failed"} : [download[d] EXCEPT !.at = at] \in DownloadType
    BY DEF DownloadType
  <2>2. download' \in [Downloads -> DownloadType]
    BY <1>13, <2>1 DEF DownloadReturns
  <2> QED BY <1>13, <2>2 DEF DownloadReturns
<1> QED BY <1>1, <1>2, <1>3, <1>4, <1>5, <1>6, <1>7, <1>8, <1>9, <1>10, <1>11, <1>12, <1>13 DEF Next

-----------------------------------------------------------------------------
(* Every step keeps what the node has true to its keys *)

LEMMA KeptStep ==
  ASSUME TypeInv, KeptInv, [Next]_vars
  PROVE  KeptInv'
<1>1. CASE UNCHANGED node
  BY <1>1 DEF KeptInv
<1>2. ASSUME NEW u \in Uploads, SendChunk(u)
      PROVE  KeptInv'
  <2> DEFINE b == data[u]
             i == upload[u].sent + 1
             key == <<HashOf(b), i>>
  <2>1. b \in Contents /\ upload[u].sent \in Nat /\ i <= Len(ChunkData(b))
    <3>1. b \in Contents /\ upload[u].sent \in Nat
      BY DEF TypeInv, UploadType
    <3>2. i <= Len(ChunkData(b))
      BY <1>2 DEF SendChunk
    <3> QED BY <3>1, <3>2
  <2>2. i \in DOMAIN ChunkData(b)
    BY <2>1, ChunkDomain, FilesAssumption
  <2>3. node' = node \/ node' = Kept(key, ChunkData(b)[i])
    BY <1>2 DEF SendChunk
  <2>4. CASE node' = Kept(key, ChunkData(b)[i])
    <3>1. ASSUME NEW k \in DOMAIN node'
          PROVE  \E bb \in Contents : \E j \in DOMAIN ChunkData(bb) :
                   k = <<HashOf(bb), j>> /\ node'[k] = ChunkData(bb)[j]
      <4>1. CASE k = key
        <5>1. node'[k] = ChunkData(b)[i]
          BY <2>4, <4>1 DEF Kept
        <5> QED BY <2>1, <2>2, <4>1, <5>1
      <4>2. CASE k # key
        <5>1. k \in DOMAIN node /\ node'[k] = node[k]
          BY <2>4, <3>1, <4>2 DEF Kept
        <5> QED BY <5>1 DEF KeptInv
      <4> QED BY <4>1, <4>2
    <3> QED BY <3>1 DEF KeptInv
  <2> QED BY <1>1, <2>3, <2>4
<1>3. CASE NodeLoses
  <2>1. PICK c : node' = [x \in DOMAIN node \ {c} |-> node[x]]
    BY <1>3 DEF NodeLoses
  <2>2. \A k \in DOMAIN node' : k \in DOMAIN node /\ node'[k] = node[k]
    BY <2>1
  <2> QED BY <2>2 DEF KeptInv
<1>4. UNCHANGED node \/ NodeLoses \/ \E u \in Uploads : SendChunk(u)
  BY DEF Next, vars, SubmitManifest, ResubmitManifest, UploadReturns, SubmitDelete, Include, DropFromPool,
         ApiFollows, ReadManifest, FetchChunk, DownloadReturns
<1> QED BY <1>1, <1>2, <1>3, <1>4

-----------------------------------------------------------------------------
(* Every step keeps what was sent in the node, if nothing is lost *)

LEMMA SentStep ==
  ASSUME TypeInv, KeptInv, SentInv, [Next]_vars
  PROVE  SentInv'
<1>1. \A u \in Uploads : upload[u] \in UploadType /\ data[u] \in Contents
  BY DEF TypeInv
<1>2. ASSUME UNCHANGED <<data, faults>>, DOMAIN node \subseteq DOMAIN node', NEW u \in Uploads,
             upload'[u] = upload[u]
      PROVE  /\ upload'[u].sent <= Len(ChunkData(data'[u]))
             /\ upload'[u].at = "done" => upload'[u].sent = Len(ChunkData(data'[u]))
             /\ faults'.losses = 0 => Has(u, upload[u].sent)'
  BY <1>2 DEF SentInv, Has
<1>3. CASE UNCHANGED <<data, upload, node>> /\ (faults'.losses = 0 => faults.losses = 0)
  BY <1>3 DEF SentInv, Has
<1>4. ASSUME NEW u \in Uploads, SubmitManifest(u)
      PROVE  SentInv'
  <2>1. PICK answer : AfterSubmit(u, answer)
    BY <1>4 DEF SubmitManifest
  <2>2. UNCHANGED <<data, node, faults>>
    BY <1>4 DEF SubmitManifest
  <2>3. ASSUME NEW v \in Uploads
        PROVE  upload'[v].sent = upload[v].sent /\ (upload'[v].at = "done" => upload[v].at = "done")
    <3>1. upload \in [Uploads -> UploadType]
      BY DEF TypeInv
    <3>2. CASE v = u
      BY <2>1, <3>1, <3>2 DEF AfterSubmit, UploadType
    <3>3. CASE v # u
      BY <2>1, <3>1, <3>3 DEF AfterSubmit
    <3> QED BY <3>2, <3>3
  <2> QED BY <2>2, <2>3 DEF SentInv, Has
<1>5. ASSUME NEW u \in Uploads, SendChunk(u)
      PROVE  SentInv'
  <2> DEFINE i == upload[u].sent + 1
             key == <<HashOf(data[u]), i>>
  <2>1. UNCHANGED <<data, faults>> /\ i <= Len(ChunkData(data[u])) /\ upload[u].at = "sending"
    BY <1>5 DEF SendChunk
  <2>2. upload \in [Uploads -> UploadType]
    BY DEF TypeInv
  <2>3. /\ DOMAIN node \subseteq DOMAIN node'
        /\ \/ upload' = [upload EXCEPT ![u].sent = i] /\ key \in DOMAIN node'
           \/ upload' = [upload EXCEPT ![u].at = "failed"]
    BY <1>5 DEF SendChunk, Kept
  <2>4. ASSUME NEW v \in Uploads
        PROVE  /\ upload'[v].sent <= Len(ChunkData(data'[v]))
               /\ upload'[v].at = "done" => upload'[v].sent = Len(ChunkData(data'[v]))
               /\ faults'.losses = 0 => \A j \in 1 .. upload'[v].sent : <<HashOf(data'[v]), j>> \in DOMAIN node'
    <3>1. CASE v # u
      <4>1. upload'[v] = upload[v]
        BY <2>2, <2>3, <3>1
      <4> QED BY <1>2, <2>1, <2>3, <4>1 DEF Has
    <3>2. CASE v = u /\ upload' = [upload EXCEPT ![u].sent = i] /\ key \in DOMAIN node'
      <4>1. upload'[v].sent = i /\ upload'[v].at = "sending"
        BY <2>1, <2>2, <3>2 DEF UploadType
      <4>2. upload[u].sent \in Nat
        BY <1>1 DEF UploadType
      <4>3. faults.losses = 0 => \A j \in 1 .. upload[u].sent : <<HashOf(data[u]), j>> \in DOMAIN node'
        BY <2>3 DEF SentInv, Has
      <4>4. \A j \in 1 .. i : j = i \/ j \in 1 .. upload[u].sent
        BY <4>2
      <4>5. faults.losses = 0 => \A j \in 1 .. i : <<HashOf(data[u]), j>> \in DOMAIN node'
        BY <3>2, <4>3, <4>4
      <4> HIDE DEF i
      <4> QED BY <2>1, <3>2, <4>1, <4>5
    <3>3. CASE v = u /\ upload' = [upload EXCEPT ![u].at = "failed"]
      <4>1. upload'[v].sent = upload[u].sent /\ upload'[v].at = "failed"
        BY <2>2, <3>3 DEF UploadType
      <4> QED BY <2>1, <2>3, <3>3, <4>1 DEF SentInv, Has
    <3> QED BY <2>3, <3>1, <3>2, <3>3
  <2> QED BY <2>4 DEF SentInv, Has
<1>6. ASSUME NEW u \in Uploads, UploadReturns(u)
      PROVE  SentInv'
  <2>1. upload \in [Uploads -> UploadType]
    BY DEF TypeInv
  <2>2. /\ UNCHANGED <<data, node, faults>> /\ upload' = [upload EXCEPT ![u].at = "done"]
        /\ upload[u].sent = Len(ChunkData(data[u]))
    BY <1>6 DEF UploadReturns
  <2>3. ASSUME NEW v \in Uploads
        PROVE  /\ upload'[v].sent = upload[v].sent
               /\ upload'[v].at = "done" => upload[v].at = "done" \/ v = u
    <3>1. CASE v = u
      BY <2>1, <2>2, <3>1 DEF UploadType
    <3>2. CASE v # u
      BY <2>1, <2>2, <3>2
    <3> QED BY <3>1, <3>2
  <2> QED BY <2>2, <2>3 DEF SentInv, Has
<1>7. CASE NodeLoses
  <2>1. UNCHANGED <<data, upload>> /\ faults' = [faults EXCEPT !.losses = @ + 1] /\ faults.losses \in Nat
    BY <1>7 DEF NodeLoses, TypeInv
  <2>2. faults'.losses # 0
    BY <2>1 DEF TypeInv
  <2> QED BY <2>1, <2>2 DEF SentInv, Has
<1>8. ASSUME NEW tx, DropFromPool(tx)
      PROVE  SentInv'
  <2>1. faults'.losses = faults.losses
    BY <1>8 DEF DropFromPool, TypeInv
  <2> QED BY <1>3, <1>8, <2>1 DEF DropFromPool
<1>9. ASSUME NEW d \in Downloads, FetchChunk(d)
      PROVE  SentInv'
  <2>1. faults' = faults \/ faults' = [faults EXCEPT !.losses = @ + 1]
    BY <1>9 DEF FetchChunk
  <2>2. faults'.losses = 0 => faults.losses = 0
    BY <2>1 DEF TypeInv
  <2> QED BY <1>3, <1>9, <2>2 DEF FetchChunk
<1>10. \/ UNCHANGED <<data, upload, node, faults>> \/ NodeLoses
       \/ \E u \in Uploads : SubmitManifest(u) \/ SendChunk(u) \/ UploadReturns(u)
       \/ \E tx : DropFromPool(tx)
       \/ \E d \in Downloads : FetchChunk(d)
  BY DEF Next, vars, ResubmitManifest, SubmitDelete, Include, ApiFollows, ReadManifest, DownloadReturns
<1> QED BY <1>3, <1>4, <1>5, <1>6, <1>7, <1>8, <1>9, <1>10

-----------------------------------------------------------------------------
(* Every step keeps each download to one file of the chain *)

\* Of a download that does not step, as long as the chain and the node forget nothing.
LEMMA ReadKeeps ==
  ASSUME NEW d \in Downloads, ReadInv(d), download'[d] = download[d], data' = data,
         Range(chain) \subseteq Range(chain'), DOMAIN node \subseteq DOMAIN node'
  PROVE  ReadInv(d)'
<1>1. ASSUME NEW u, NEW n, Has(u, n)
      PROVE  \A i \in 1 .. n : <<HashOf(data'[u]), i>> \in DOMAIN node'
  BY <1>1 DEF Has
<1> QED BY <1>1 DEF ReadInv, Has

LEMMA ChainGrows ==
  ASSUME TypeInv, NEW tx, Include(tx)
  PROVE  Range(chain) \subseteq Range(chain')
<1> DEFINE S == Uploads \cup {Missing}
           m == IF tx \in Uploads THEN tx ELSE Missing
<1>1. chain \in Seq(S) /\ m \in S /\ chain' = Append(chain, m)
  BY DEF TypeInv, Include
<1> HIDE DEF S, m
<1>2. chain' \in Seq(S) /\ Len(chain') = Len(chain) + 1 /\ \A i \in 1 .. Len(chain) : chain'[i] = chain[i]
  BY <1>1, AppendProperties
<1>3. DOMAIN chain = 1 .. Len(chain) /\ DOMAIN chain' = 1 .. Len(chain) + 1 /\ Len(chain) \in Nat
  BY <1>1, <1>2
<1> QED BY <1>2, <1>3 DEF Range

LEMMA ReadStep ==
  ASSUME IInv, [Next]_vars
  PROVE  ReadsInv'
<1>0. /\ TypeInv /\ KeptInv /\ SentInv /\ download \in [Downloads -> DownloadType]
      /\ \A d \in Downloads : ReadInv(d) /\ download[d] \in DownloadType
  BY DEF IInv, TypeInv, ReadsInv
<1>1. ASSUME NEW d \in Downloads, UNCHANGED download, UNCHANGED <<data, chain, node>>
      PROVE  ReadInv(d)'
  BY <1>0, <1>1, ReadKeeps
<1>2. ASSUME NEW tx, Include(tx), NEW d \in Downloads
      PROVE  ReadInv(d)'
  <2>1. UNCHANGED <<data, node, download>>
    BY <1>2 DEF Include
  <2> QED BY <1>0, <1>2, <2>1, ChainGrows, ReadKeeps
<1>3. ASSUME NEW u \in Uploads, SendChunk(u), NEW d \in Downloads
      PROVE  ReadInv(d)'
  <2>1. UNCHANGED <<data, chain, download>> /\ DOMAIN node \subseteq DOMAIN node'
    BY <1>3 DEF SendChunk, Kept
  <2> QED BY <1>0, <2>1, ReadKeeps
<1>4. ASSUME NodeLoses, NEW d \in Downloads
      PROVE  ReadInv(d)'
  <2>1. UNCHANGED <<data, chain>> /\ download'[d] = [download[d] EXCEPT !.honest = FALSE]
    BY <1>4 DEF NodeLoses
  <2>2. /\ download'[d].at = download[d].at /\ download'[d].manifest = download[d].manifest
        /\ download'[d].of = download[d].of /\ download'[d].chunks = download[d].chunks
        /\ download'[d].whole = download[d].whole /\ ~download'[d].honest
    BY <1>0, <2>1 DEF DownloadType
  <2> QED BY <1>0, <2>1, <2>2 DEF ReadInv
<1>5. ASSUME NEW e \in Downloads, ReadManifest(e) \/ FetchChunk(e) \/ DownloadReturns(e),
             NEW d \in Downloads, d # e
      PROVE  ReadInv(d)'
  <2>1. UNCHANGED <<data, chain, node>> /\ download'[d] = download[d]
    BY <1>0, <1>5 DEF ReadManifest, FetchChunk, DownloadReturns
  <2> QED BY <1>0, <2>1, ReadKeeps
<1>6. ASSUME NEW d \in Downloads, ReadManifest(d)
      PROVE  ReadInv(d)'
  <2> DEFINE r == download[d]
             u == chain[api]
  <2>1. UNCHANGED <<data, chain, node>> /\ r.at = "idle" /\ r.chunks = <<>> /\ ~r.whole
    BY <1>0, <1>6 DEF ReadManifest, ReadInv
  <2>2. u \in Uploads \cup {Missing} /\ u \in Range(chain)
    <3>1. chain \in Seq(Uploads \cup {Missing}) /\ api \in 1 .. Len(chain)
      BY <1>0 DEF TypeInv
    <3>2. api \in DOMAIN chain
      BY <3>1
    <3> QED BY <3>1, <3>2 DEF Range
  <2>3. CASE u = Missing
    <3>1. download'[d] = [r EXCEPT !.at = "failed"]
      BY <1>0, <1>6, <2>3 DEF ReadManifest
    <3>2. download'[d].at = "failed" /\ ~download'[d].whole
      BY <1>0, <2>1, <3>1 DEF DownloadType
    <3> QED BY <3>2 DEF ReadInv
  <2>4. CASE u # Missing
    <3>1. download'[d] = [r EXCEPT !.at = "fetching", !.of = u, !.manifest = ManifestOf(data[u]),
                                   !.honest = r.honest /\ faults.losses = 0, !.whole = upload[u].at = "done"]
      BY <1>0, <1>6, <2>4 DEF ReadManifest
    <3>2. u \in Uploads
      BY <2>2, <2>4
    <3>3. r \in DownloadType
      BY <1>0
    <3>4. /\ download'[d].at = "fetching" /\ download'[d].of = u /\ download'[d].manifest = ManifestOf(data[u])
          /\ download'[d].chunks = <<>> /\ (download'[d].whole => upload[u].at = "done")
          /\ (download'[d].honest => faults.losses = 0)
      <4> HIDE DEF r, u
      <4> QED BY <2>1, <3>1, <3>3 DEF DownloadType
    <3>5. upload[u].at = "done" /\ faults.losses = 0 =>
            \A j \in 1 .. Len(ChunkData(data[u])) : <<HashOf(data[u]), j>> \in DOMAIN node
      BY <1>0, <3>2 DEF SentInv, Has
    <3>6. Len(ChunkData(data[u])) \in Nat
      BY <1>0, <3>2, ChunkDomain, FilesAssumption DEF TypeInv
    <3>7. Len(<<>>) = 0
      OBVIOUS
    <3> HIDE DEF r, u
    <3> QED BY <2>1, <2>2, <3>2, <3>4, <3>5, <3>6, <3>7 DEF ReadInv, Has
  <2> QED BY <2>3, <2>4
<1>7. ASSUME NEW d \in Downloads, FetchChunk(d)
      PROVE  ReadInv(d)'
  <2> DEFINE r == download[d]
             i == Len(r.chunks) + 1
             b == data[r.of]
             key == <<r.manifest.content, i>>
  <2>1. /\ UNCHANGED <<data, chain, node>> /\ r.at = "fetching" /\ i <= r.manifest.count
    BY <1>7 DEF FetchChunk
  <2>2. r \in DownloadType /\ ReadInv(d)
    BY <1>0
  <2>3. r.of \in Uploads \cap Range(chain) /\ r.manifest = ManifestOf(b) /\ b \in Contents
    BY <1>0, <2>1, <2>2 DEF ReadInv, TypeInv
  <2>4. key = <<HashOf(b), i>> /\ i <= Len(ChunkData(b)) /\ i \in Nat \ {0} /\ r.chunks \in Seq(Seq(Nat))
    <3>1. r.chunks \in Seq(Seq(Nat))
      BY <2>2 DEF DownloadType
    <3>2. Len(r.chunks) \in Nat
      BY <3>1
    <3>3. r.manifest.content = HashOf(b) /\ r.manifest.count = Len(ChunkData(b))
      BY <2>3, ManifestIs
    <3> HIDE DEF r, b
    <3> QED BY <2>1, <3>1, <3>2, <3>3
  <2>5. CASE key \in DOMAIN node /\ download' = [download EXCEPT ![d].chunks = Append(@, node[key])]
    <3>1. /\ download'[d].at = r.at /\ download'[d].manifest = r.manifest /\ download'[d].of = r.of
          /\ download'[d].chunks = Append(r.chunks, node[key])
          /\ download'[d].whole = r.whole /\ download'[d].honest = r.honest
      BY <1>0, <2>5 DEF DownloadType
    <3>2. node[key] = ChunkData(b)[i] /\ node[key] \in Seq(Nat)
      BY <1>0, <2>3, <2>4, <2>5, KeptIs, KeptAreSeqs
    <3>3. /\ Len(download'[d].chunks) = i /\ download'[d].chunks[i] = ChunkData(b)[i]
          /\ \A j \in 1 .. Len(r.chunks) : download'[d].chunks[j] = r.chunks[j]
      BY <2>4, <3>1, <3>2, AppendProperties
    <3>4. ASSUME r.whole /\ r.honest, NEW j \in 1 .. i
          PROVE  download'[d].chunks[j] = ChunkData(b)[j]
      <4>1. j = i \/ j \in 1 .. Len(r.chunks)
        BY <2>4
      <4>2. \A k \in 1 .. Len(r.chunks) : r.chunks[k] = ChunkData(b)[k]
        BY <2>1, <2>2, <3>4 DEF ReadInv
      <4> QED BY <3>3, <4>1, <4>2
    <3>5. r.whole /\ r.honest => \A j \in 1 .. Len(ChunkData(b)) : <<HashOf(b), j>> \in DOMAIN node
      BY <2>1, <2>2 DEF ReadInv, Has
    <3>6. data'[download'[d].of] = b
      BY <2>1, <3>1
    <3> HIDE DEF r, i, b, key
    <3> QED BY <2>1, <2>3, <2>4, <3>1, <3>3, <3>4, <3>5, <3>6 DEF ReadInv, Has
  <2>6. CASE key \notin DOMAIN node /\ download' = [download EXCEPT ![d].at = "failed"]
    <3>1. ~(r.whole /\ r.honest)
      <4>1. r.whole /\ r.honest => Has(r.of, Len(ChunkData(b)))
        BY <2>1, <2>2 DEF ReadInv
      <4>2. i \in 1 .. Len(ChunkData(b))
        <5>1. Len(ChunkData(b)) \in Nat
          BY <2>3, ChunkDomain, FilesAssumption
        <5> HIDE DEF i, b
        <5> QED BY <2>4, <5>1
      <4> QED BY <2>4, <2>6, <4>1, <4>2 DEF Has
    <3>2. download'[d].at = "failed" /\ download'[d].whole = r.whole /\ download'[d].honest = r.honest
      BY <1>0, <2>6 DEF DownloadType
    <3> QED BY <3>1, <3>2 DEF ReadInv
  <2>7. ASSUME NEW chunk \in Noise, download' = [download EXCEPT ![d].chunks = Append(@, chunk), ![d].honest = FALSE]
        PROVE  ReadInv(d)'
    <3>1. /\ download'[d].at = r.at /\ download'[d].manifest = r.manifest /\ download'[d].of = r.of
          /\ ~download'[d].honest
      BY <1>0, <2>7 DEF DownloadType
    <3> QED BY <2>1, <2>3, <3>1 DEF ReadInv
  <2> QED BY <1>7, <2>5, <2>6, <2>7 DEF FetchChunk
<1>8. ASSUME NEW d \in Downloads, DownloadReturns(d)
      PROVE  ReadInv(d)'
  <2> DEFINE r == download[d]
             b == data[r.of]
  <2>1. /\ UNCHANGED <<data, chain, node>> /\ r.at = "fetching" /\ Len(r.chunks) = r.manifest.count
        /\ download' = [download EXCEPT ![d].at = IF Accepts(r.manifest, r.chunks) THEN "done" ELSE "failed"]
    BY <1>8 DEF DownloadReturns
  <2>2. r \in DownloadType /\ ReadInv(d)
    BY <1>0
  <2>3. r.of \in Uploads \cap Range(chain) /\ r.manifest = ManifestOf(b) /\ b \in Contents
    BY <1>0, <2>1, <2>2 DEF ReadInv, TypeInv
  <2>4. /\ download'[d].manifest = r.manifest /\ download'[d].of = r.of /\ download'[d].chunks = r.chunks
        /\ download'[d].whole = r.whole /\ download'[d].honest = r.honest
        /\ download'[d].at = IF Accepts(r.manifest, r.chunks) THEN "done" ELSE "failed"
    BY <1>0, <2>1 DEF DownloadType
  <2>5. r.whole /\ r.honest => Accepts(r.manifest, r.chunks)
    <3> SUFFICES ASSUME r.whole /\ r.honest PROVE Accepts(r.manifest, r.chunks)
      OBVIOUS
    <3>1. r.chunks \in Seq(Seq(Nat)) /\ b \in Seq(Nat)
      BY <2>2, <2>3, FilesAssumption DEF DownloadType
    <3>2. ChunkData(b) \in Seq(Seq(Nat)) /\ Len(r.chunks) = Len(ChunkData(b))
      BY <2>1, <2>3, <3>1, ChunksAreSeqs, ManifestIs
    <3>3. \A j \in 1 .. Len(r.chunks) : r.chunks[j] = ChunkData(b)[j]
      BY <2>1, <2>2 DEF ReadInv
    <3>4. r.chunks = ChunkData(b)
      <4> HIDE DEF r, b
      <4> QED BY <3>1, <3>2, <3>3, SeqEqual
    <3>5. FlattenSeq(r.chunks) = b
      BY <3>1, <3>4, ChunksMakeTheFile
    <3>6. MerkleRoot([j \in DOMAIN r.chunks |-> HashOf(r.chunks[j])]) = ManifestOf(b).root
      BY <3>4, ManifestIs
    <3>7. HashOf(FlattenSeq(r.chunks)) = ManifestOf(b).content
      BY <3>5, ManifestIs
    <3> QED BY <2>3, <3>6, <3>7 DEF Accepts
  <2> HIDE DEF r, b
  <2> QED BY <2>1, <2>3, <2>4, <2>5 DEF ReadInv, b
<1>9. ASSUME NEW d \in Downloads
      PROVE  ReadInv(d)'
  <2>1. \/ UNCHANGED <<data, chain, node, download>> \/ NodeLoses
        \/ \E u \in Uploads : SendChunk(u)
        \/ \E tx : Include(tx)
        \/ \E e \in Downloads : ReadManifest(e) \/ FetchChunk(e) \/ DownloadReturns(e)
    BY DEF Next, vars, SubmitManifest, ResubmitManifest, UploadReturns, SubmitDelete, DropFromPool, ApiFollows
  <2> QED BY <1>1, <1>2, <1>3, <1>4, <1>5, <1>6, <1>7, <1>8, <2>1
<1> QED BY <1>9 DEF ReadsInv

-----------------------------------------------------------------------------
(* The theorems *)

LEMMA InitIInv == Init => IInv
<1> SUFFICES ASSUME Init PROVE IInv
  OBVIOUS
<1>1. TypeInv
  <2>1. <<Missing>> \in Seq(Uploads \cup {Missing}) /\ Len(<<Missing>>) = 1
    OBVIOUS
  <2>2. <<>> \in Seq(Seq(Nat))
    OBVIOUS
  <2>3. \A d \in Downloads : download[d] \in DownloadType
    BY <2>2 DEF Init, DownloadType, Manifests
  <2>4. download \in [Downloads -> DownloadType]
    BY <2>3 DEF Init
  <2>5. upload \in [Uploads -> UploadType]
    <3>1. [at |-> "idle", sent |-> 0, accepted |-> FALSE] \in UploadType
      BY DEF UploadType
    <3> QED BY <3>1 DEF Init
  <2>6. chain = <<Missing>> /\ api = 1 /\ faults \in [losses : Nat, drops : Nat]
    BY DEF Init
  <2>7. data \in [Uploads -> Contents]
    BY DEF Init
  <2> QED BY <2>1, <2>4, <2>5, <2>6, <2>7 DEF TypeInv
<1>2. KeptInv
  BY DEF Init, KeptInv
<1>3. SentInv
  <2>1. ASSUME NEW u \in Uploads
        PROVE  Len(ChunkData(data[u])) \in Nat
    BY ChunkDomain, FilesAssumption DEF Init
  <2> QED BY <2>1 DEF Init, SentInv, Has
<1>4. ReadsInv
  BY DEF Init, ReadsInv, ReadInv
<1> QED BY <1>1, <1>2, <1>3, <1>4 DEF IInv

LEMMA NextIInv == IInv /\ [Next]_vars => IInv'
BY TypeStep, KeptStep, SentStep, ReadStep DEF IInv

\* A download that returns gives the whole of one file whose manifest the chain
\* accepted, whatever the node answers and whatever is uploaded or deleted
\* meanwhile: the content hash of a download's manifest is that of one upload.
THEOREM DownloadsAreCommitted == Spec => []DownloadedIsCommitted
<1>1. IInv => DownloadedIsCommitted
  <2> SUFFICES ASSUME IInv, NEW d \in Downloads, download[d].at = "done"
               PROVE  \E u \in Uploads \cap Range(chain) : FlattenSeq(download[d].chunks) = data[u]
    BY DEF DownloadedIsCommitted
  <2> DEFINE r == download[d]
  <2>1. /\ r.of \in Uploads \cap Range(chain) /\ r.manifest = ManifestOf(data[r.of])
        /\ Accepts(r.manifest, r.chunks)
    BY DEF IInv, ReadsInv, ReadInv
  <2>2. HashOf(FlattenSeq(r.chunks)) = HashOf(data[r.of])
    BY <2>1, ManifestIs DEF Accepts
  <2>3. FlattenSeq(r.chunks) = data[r.of]
    BY <2>2 DEF HashOf
  <2> QED BY <2>1, <2>3
<1> QED BY InitIInv, NextIInv, <1>1, PTL DEF Spec

\* A file whose upload returned before the manifest was read is read back whole,
\* unless the node loses or forges a chunk, whatever its length and the size of
\* the chunks, and however uploads and deletes of the key interleave.
THEOREM ReturnedUploadsAreReadable == Spec => []ReturnedIsReadable
<1>1. IInv => ReturnedIsReadable
  BY DEF IInv, ReadsInv, ReadInv, ReturnedIsReadable
<1> QED BY InitIInv, NextIInv, <1>1, PTL DEF Spec
=============================================================================
