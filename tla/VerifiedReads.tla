--------------------------- MODULE VerifiedReads ----------------------------
(***************************************************************************)
(* Verified reads of one key (data/index.ts: getVerifiedData, and          *)
(* getMultiple, which proves absent a key the API does not have), against  *)
(* the light client they create on first use (light-client/client.ts:      *)
(* trust-on-first-use, getLatestChainHeight, getVerifiedRootHashAtHeight). *)
(*                                                                         *)
(* The API server is external: an honest node at its own height, asked for *)
(* the value and for its proof in two requests.  What a proof proves is    *)
(* the state at its height, whose root is that state (RpcChain); decoding  *)
(* and hashing a proof is not modelled here.                               *)
(***************************************************************************)
EXTENDS ConsensusHeader

CONSTANTS
  Readers,        \* reads that run at the same time
  Absent,         \* the state without the key
  FirstValues,    \* bound: the states the chain may be in when the reads begin
  MaxLag,         \* lightClient.maxProofLagBlocks
  MaxFaults,      \* bound: requests that fail
  NoInit, NoReader,
  Pending         \* the answer of an endpoint that has not answered

ASSUME ReadsAssumption ==
  /\ MaxLag \in Nat /\ MaxFaults \in Nat
  /\ Absent \in Values /\ FirstValues \subseteq Values /\ Pending \notin Nat
  /\ NoReader \notin Readers /\ NoInit \notin [next : Nat, answers : [Endpoints -> Nat]]

VARIABLES
  api,      \* the API node's height
  pc,       \* where each read is
  data,     \* what /data answered
  proof,    \* the height of the proof /proof answered
  heights,  \* what each endpoint's /status answered: Pending, a height, or 0 for a failure
  began,    \* the endpoints' heights when /status was first asked (for the properties)
  ep,       \* the endpoint asked for the root
  outcome,  \* what the read returned or threw
  client,   \* this.lightClient: the height it first trusted, or 0
  init,     \* the initialisation each read started, or NoInit
  joined,   \* the read whose initialisation a read awaits (lightClientInitPromise)
  faults

callVars == <<pc, outcome, data, proof, ep>>
statusVars == <<heights, began>>
clientVars == <<client, init, joined>>
vars == <<chainVars, api, callVars, statusVars, clientVars, faults>>

Outcomes == {"none", "value", "absent", "failed", "changed", "ahead", "stale", "mismatch"}

NoHeights == [e \in Endpoints |-> Pending]
NoneBegan == [e \in Endpoints |-> 0]

Init ==
  /\ ChainInit /\ state[1] \in FirstValues
  /\ api = 1
  /\ pc = [r \in Readers |-> "idle"]
  /\ data = [r \in Readers |-> Absent]
  /\ proof = [r \in Readers |-> 0]
  /\ heights = [r \in Readers |-> NoHeights]
  /\ began = [r \in Readers |-> NoneBegan]
  /\ ep = [r \in Readers |-> 1]
  /\ outcome = [r \in Readers |-> "none"]
  /\ client = 0
  /\ init = [r \in Readers |-> NoInit]
  /\ joined = [r \in Readers |-> NoReader]
  /\ faults = 0

Fault == faults < MaxFaults /\ faults' = faults + 1

\* The reads of R return or throw; their local variables are gone.
Finish(R, result) ==
  /\ pc' = [r \in Readers |-> IF r \in R THEN "done" ELSE pc[r]]
  /\ outcome' = [r \in Readers |-> IF r \in R THEN result ELSE outcome[r]]
  /\ data' = [r \in Readers |-> IF r \in R THEN Absent ELSE data[r]]
  /\ proof' = [r \in Readers |-> IF r \in R THEN 0 ELSE proof[r]]
  /\ ep' = [r \in Readers |-> IF r \in R THEN 1 ELSE ep[r]]

\* The reads of R go on to ask for the chain's latest height.
AskHeights(R) ==
  /\ pc' = [r \in Readers |-> IF r \in R THEN "status" ELSE pc[r]]
  /\ began' = [r \in Readers |-> IF r \in R THEN seen ELSE began[r]]

-----------------------------------------------------------------------------
(* The value and its proof *)

\* GET /data: the value, or that there is none (which getMultiple then has
\* proved).
GetData(r) ==
  /\ pc[r] = "idle"
  /\ \/ /\ data' = [data EXCEPT ![r] = state[api]]
        /\ pc' = [pc EXCEPT ![r] = "data"]
        /\ UNCHANGED <<outcome, proof, ep, faults>>
     \/ Fault /\ Finish({r}, "failed")
  /\ UNCHANGED <<chainVars, api, statusVars, clientVars>>

\* The initialisation under way (lightClientInitPromise).
InFlight == {s \in Readers : init[s] # NoInit}

\* (With the bug of looking for a client only, not for one being made.)
JoinLightClientUnshared(r) ==
  \/ client # 0 /\ AskHeights({r}) /\ UNCHANGED clientVars
  \/ /\ client = 0
     /\ init' = [init EXCEPT ![r] = [next |-> 1, answers |-> [e \in Endpoints |-> 0]]]
     /\ joined' = [joined EXCEPT ![r] = r]
     /\ pc' = [pc EXCEPT ![r] = "waiting"]
     /\ UNCHANGED <<client, began>>

\* getOrCreateLightClient: the client, or the initialisation in flight, or a new
\* one.
JoinLightClient(r) ==
  \/ client # 0 /\ AskHeights({r}) /\ UNCHANGED clientVars
  \/ /\ client = 0
     /\ \/ /\ \E s \in InFlight : joined' = [joined EXCEPT ![r] = s]
           /\ UNCHANGED init
        \/ /\ InFlight = {}
           /\ init' = [init EXCEPT ![r] = [next |-> 1, answers |-> [e \in Endpoints |-> 0]]]
           /\ joined' = [joined EXCEPT ![r] = r]
     /\ pc' = [pc EXCEPT ![r] = "waiting"]
     /\ UNCHANGED <<client, began>>

\* (With the bug of not binding the value to the proof.)
GetProofUnbound(r) ==
  /\ pc[r] = "data"
  /\ proof' = [proof EXCEPT ![r] = api]
  /\ JoinLightClient(r)
  /\ UNCHANGED <<outcome, data, ep, faults, chainVars, api, heights>>

\* GET /proof, and the proof bound to the value read before: it must prove that
\* value, or its absence. The state may have changed in between.
GetProof(r) ==
  /\ pc[r] = "data"
  /\ \/ /\ state[api] = data[r]
        /\ proof' = [proof EXCEPT ![r] = api]
        /\ JoinLightClient(r)
        /\ UNCHANGED <<outcome, data, ep, faults>>
     \/ /\ \/ state[api] # data[r] /\ Finish({r}, "changed") /\ UNCHANGED faults
           \/ Fault /\ Finish({r}, "failed")
        /\ UNCHANGED <<began, clientVars>>
  /\ UNCHANGED <<chainVars, api, heights>>

-----------------------------------------------------------------------------
(* The light client's trust on first use *)

\* The endpoints are asked one after the other for their latest header. After
\* the last, the client is there for every read that waits, or they all throw.
InitStep(s) ==
  /\ init[s] # NoInit
  /\ \E h \in {seen[init[s].next], 0} :
       LET next == init[s].next
           answers == [init[s].answers EXCEPT ![next] = h]
           waiting == {r \in Readers : joined[r] = s}
           found == ConsensusHeights(answers)
       IN  /\ IF h = 0 THEN Fault ELSE UNCHANGED faults
           /\ \/ /\ next < NumEndpoints
                 /\ init' = [init EXCEPT ![s] = [next |-> next + 1, answers |-> answers]]
                 /\ UNCHANGED <<client, joined, callVars, began>>
              \/ /\ next = NumEndpoints
                 /\ init' = [init EXCEPT ![s] = NoInit]
                 /\ joined' = [r \in Readers |-> IF r \in waiting THEN NoReader ELSE joined[r]]
                 /\ \/ /\ client' \in found /\ AskHeights(waiting)
                       /\ UNCHANGED <<outcome, data, proof, ep>>
                    \/ found = {} /\ Finish(waiting, "failed") /\ UNCHANGED <<client, began>>
  /\ UNCHANGED <<chainVars, api, heights>>

-----------------------------------------------------------------------------
(* The height and the root *)

\* getLatestChainHeight asks every endpoint's /status at once.
StatusAnswer(r, e) ==
  /\ pc[r] = "status" /\ heights[r][e] = Pending
  /\ \E h \in {seen[e], 0} :
       /\ heights' = [heights EXCEPT ![r][e] = h]
       /\ IF h = 0 THEN Fault ELSE UNCHANGED faults
  /\ UNCHANGED <<chainVars, api, callVars, began, clientVars>>

Answering(r) == {e \in Endpoints : heights[r][e] # 0}

\* (With the bug of taking half of the answers for a majority.)
NeededHalf(n) == IF MinValidators > n \div 2 THEN MinValidators ELSE n \div 2

\* The number of endpoints that must have reached a height: a majority of those
\* that answer, and at least MinValidators.
Needed(n) ==
  LET majority == n \div 2 + 1
  IN  IF MinValidators > majority THEN MinValidators ELSE majority

\* The Needed-th of the heights, highest first.
Reached(r) ==
  LET atLeast(h) == {e \in Answering(r) : heights[r][e] >= h}
      needed == Needed(Cardinality(Answering(r)))
  IN  CHOOSE h \in 1 .. Tip :
        Cardinality(atLeast(h)) >= needed /\ Cardinality(atLeast(h + 1)) < needed

\* verifyRootAtHeight once every endpoint has answered or failed.
CheckHeight(r) ==
  /\ pc[r] = "status" /\ \A e \in Endpoints : heights[r][e] # Pending
  /\ LET enough == Answering(r) # {} /\ Cardinality(Answering(r)) >= MinValidators
         latest == IF client > Reached(r) THEN client ELSE Reached(r)
     IN  \/ ~enough /\ Finish({r}, "failed")
         \/ enough /\ proof[r] > latest + 1 /\ Finish({r}, "ahead")
         \/ enough /\ latest > proof[r] + MaxLag /\ Finish({r}, "stale")
         \/ /\ enough /\ proof[r] <= latest + 1 /\ latest <= proof[r] + MaxLag
            /\ pc' = [pc EXCEPT ![r] = "root"]
            /\ UNCHANGED <<outcome, data, proof, ep>>
  /\ heights' = [heights EXCEPT ![r] = NoHeights]
  /\ began' = [began EXCEPT ![r] = NoneBegan]
  /\ UNCHANGED <<chainVars, api, clientVars, faults>>

\* (With the bug of falling back to the latest app hash /status gives.)
RootAfterOrLatest(e, h) == {AppHash(IF seen[e] > h THEN h + 1 ELSE seen[e])}

\* The app hash endpoint e gives for the state after block h: that of the header
\* of block h + 1, once it has that block; until then fetchAppHashForHeight
\* asks again.
RootAfter(e, h) == IF seen[e] > h THEN {AppHash(h + 1)} ELSE {}

ReadRoot(r) ==
  /\ pc[r] = "root"
  /\ \E root \in RootAfter(ep[r], proof[r]) :
       Finish({r}, IF root # state[proof[r]] THEN "mismatch"
                   ELSE IF data[r] = Absent THEN "absent" ELSE "value")
  /\ UNCHANGED <<chainVars, api, statusVars, clientVars, faults>>

\* An endpoint does not answer, or its deadline passes: the next one is asked.
NextEndpoint(r) ==
  /\ pc[r] = "root"
  /\ \/ /\ ep[r] < NumEndpoints
        /\ ep' = [ep EXCEPT ![r] = @ + 1]
        /\ UNCHANGED <<pc, outcome, data, proof>>
     \/ ep[r] = NumEndpoints /\ Finish({r}, "failed")
  /\ UNCHANGED <<chainVars, api, statusVars, clientVars, faults>>

-----------------------------------------------------------------------------
ApiFollows ==
  /\ api < Tip /\ api' = api + 1
  /\ UNCHANGED <<chainVars, callVars, statusVars, clientVars, faults>>

ChainStep ==
  /\ Produce \/ \E e \in Endpoints : Follow(e)
  /\ UNCHANGED <<api, callVars, statusVars, clientVars, faults>>

Read(r) ==
  \/ GetData(r) \/ GetProof(r) \/ InitStep(r) \/ CheckHeight(r)
  \/ ReadRoot(r) \/ NextEndpoint(r)
  \/ \E e \in Endpoints : StatusAnswer(r, e)

Next == (\E r \in Readers : Read(r)) \/ ApiFollows \/ ChainStep

Spec == Init /\ [][Next]_vars

-----------------------------------------------------------------------------
(* Properties *)

\* Type correctness.
TypeOK ==
  /\ ChainTypeOK
  /\ api \in 1 .. Tip
  /\ pc \in [Readers -> {"idle", "data", "waiting", "status", "root", "done"}]
  /\ data \in [Readers -> Values]
  /\ proof \in [Readers -> 0 .. Tip]
  /\ heights \in [Readers -> [Endpoints -> (0 .. Tip) \cup {Pending}]]
  /\ began \in [Readers -> [Endpoints -> 0 .. Tip]]
  /\ ep \in [Readers -> Endpoints]
  /\ outcome \in [Readers -> Outcomes]
  /\ client \in 0 .. Tip
  /\ init \in [Readers -> [next : Endpoints, answers : [Endpoints -> 0 .. Tip]] \cup {NoInit}]
  /\ joined \in [Readers -> Readers \cup {NoReader}]
  /\ faults \in 0 .. MaxFaults

Returned(r) == pc[r] # "done" /\ outcome'[r] \in {"value", "absent"}

\* A value is returned, and a key left out as absent, only if that is the state
\* at the verified height, although the value and its proof are two answers
\* between which the key may be written (getVerifiedData, getMultiple).
VerifiedValue ==
  [][\A r \in Readers : Returned(r) =>
       /\ data[r] = state[proof[r]]
       /\ outcome'[r] = "absent" <=> data[r] = Absent
    ]_vars

\* A proof the chain's own state gives is never refused for its root, however
\* far the endpoint asked is behind (the "silent mismatch that the caller
\* misattributes to a bad proof" of tests/light-client-app-hash.test.ts).
HonestProofMatches == \A r \in Readers : outcome[r] # "mismatch"

\* The endpoints that answered and had reached height h when first asked.
HadReached(r, h) == {e \in Answering(r) : began[r][e] >= h}

\* A majority of the answers, and at least MinValidators.
Enough(r, E) ==
  2 * Cardinality(E) > Cardinality(Answering(r)) /\ Cardinality(E) >= MinValidators

\* A proof more than MaxLag blocks behind what a majority of the endpoints that
\* answer had reached when they were asked is refused, whatever the chain, the
\* endpoints and the client do meanwhile. One is refused as ahead only if no
\* majority had come near it, and as stale only if a majority, or the header
\* the client started from, has gone past it: one endpoint that lags, or is
\* alone in front, moves nothing.
RangeFollowsMajority ==
  [][\A r \in Readers : pc[r] = "status" =>
       /\ pc'[r] = "root" => ~Enough(r, HadReached(r, proof[r] + MaxLag + 1))
       /\ outcome'[r] = "ahead" => ~Enough(r, HadReached(r, proof[r] - 1))
       /\ outcome'[r] = "stale" =>
            \/ Enough(r, {e \in Endpoints : seen[e] > proof[r] + MaxLag})
            \/ client > proof[r] + MaxLag
    ]_vars

\* Concurrent first reads share one light client: one initialisation at a time,
\* none once there is a client, and no read waits for one that has ended.
OneClient ==
  /\ Cardinality(InFlight) <= 1
  /\ client # 0 => InFlight = {}
  /\ \A r \in Readers : pc[r] = "waiting" => joined[r] \in InFlight
=============================================================================
