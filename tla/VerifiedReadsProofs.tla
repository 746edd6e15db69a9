------------------------ MODULE VerifiedReadsProofs -------------------------
(***************************************************************************)
(* Proofs about VerifiedReads, for any reads, endpoints, values, lag and   *)
(* number of failures.                                                     *)
(***************************************************************************)
EXTENDS VerifiedReads, FiniteSetTheorems, SequenceTheorems, WellFoundedInduction, TLAPS

-----------------------------------------------------------------------------
(* The inductive invariant *)

InitType == [next : Endpoints, answers : [Endpoints -> Nat]]

ReadsTypeInv ==
  /\ state \in Seq(Values) /\ Tip >= 1 /\ seen \in [Endpoints -> Nat] /\ api \in 1 .. Tip
  /\ pc \in [Readers -> {"idle", "data", "waiting", "status", "root", "done"}]
  /\ data \in [Readers -> Values] /\ proof \in [Readers -> Nat]
  /\ outcome \in [Readers -> Outcomes \ {"mismatch"}]
  /\ init \in [Readers -> InitType \cup {NoInit}]
  /\ joined \in [Readers -> Readers \cup {NoReader}]

\* The proof a read goes on with proves what it read before.
Bound(r) ==
  pc[r] \in {"waiting", "status", "root"} => proof[r] \in 1 .. Tip /\ data[r] = state[proof[r]]

\* A read waits for an initialisation under way, and only a read that waits does.
Waits(r) ==
  IF pc[r] = "waiting" THEN joined[r] \in Readers /\ init[joined[r]] # NoInit
  ELSE joined[r] = NoReader

Silent(r) == pc[r] # "done" => outcome[r] = "none"

OneInit ==
  /\ \A s, t \in Readers : init[s] # NoInit /\ init[t] # NoInit => s = t
  /\ client # 0 => \A s \in Readers : init[s] = NoInit

ReadsInv ==
  /\ ReadsTypeInv /\ OneInit
  /\ \A r \in Readers : Bound(r) /\ Waits(r) /\ Silent(r)

LEMMA InitReadsInv == Init => ReadsInv
<1> SUFFICES ASSUME Init PROVE ReadsInv
  OBVIOUS
<1>1. PICK v \in Values : state = [h \in 1 .. 1 |-> v]
  BY DEF Init, ChainInit
<1>2. state \in Seq(Values) /\ Tip = 1
  <2>1. state = <<v>>
    BY <1>1
  <2> QED BY <2>1 DEF Tip
<1>3. ReadsTypeInv
  BY <1>2, ReadsAssumption, ChainAssumption DEF Init, ChainInit, ReadsTypeInv, Outcomes
<1> QED BY <1>3 DEF Init, ReadsInv, OneInit, Bound, Waits, Silent

-----------------------------------------------------------------------------
(* What the parts of a step do *)

\* The parts of a read's state that its invariant reads, the chain aside.
SameRead(r) ==
  /\ pc'[r] = pc[r] /\ data'[r] = data[r] /\ proof'[r] = proof[r]
  /\ outcome'[r] = outcome[r] /\ joined'[r] = joined[r]

\* A read that is over waits for nothing and has nothing bound.
LEMMA FinishDoes ==
  ASSUME ReadsInv, NEW R, NEW result \in Outcomes \ {"mismatch"}, Finish(R, result)
  PROVE  /\ pc' \in [Readers -> {"idle", "data", "waiting", "status", "root", "done"}]
         /\ data' \in [Readers -> Values] /\ proof' \in [Readers -> Nat]
         /\ outcome' \in [Readers -> Outcomes \ {"mismatch"}]
         /\ \A r \in Readers : r \in R => pc'[r] = "done"
         /\ \A r \in Readers : r \notin R =>
              /\ pc'[r] = pc[r] /\ data'[r] = data[r] /\ proof'[r] = proof[r]
              /\ outcome'[r] = outcome[r]
BY ReadsAssumption DEF Finish, ReadsInv, ReadsTypeInv

\* Steps that leave the chain, the client and its initialisation alone and end
\* one read that does not wait, or move it between points where it need not.
LEMMA OneReadKeeps ==
  ASSUME ReadsInv, NEW r \in Readers, ReadsTypeInv', UNCHANGED <<chainVars, client, init, joined>>,
         pc[r] # "waiting", pc'[r] # "waiting", Bound(r)', Silent(r)',
         \A q \in Readers : q # r => SameRead(q)
  PROVE  ReadsInv'
<1> USE DEF ReadsInv
<1>1. OneInit'
  BY DEF OneInit
<1>2. ASSUME NEW q \in Readers, q # r PROVE Bound(q)' /\ Waits(q)' /\ Silent(q)'
  BY <1>2 DEF SameRead, Bound, Waits, Silent, Tip, chainVars
<1>3. Waits(r)'
  BY DEF Waits
<1> QED BY <1>1, <1>2, <1>3

LEMMA FinishOneKeeps ==
  ASSUME ReadsInv, NEW r \in Readers, pc[r] # "waiting", NEW result \in Outcomes \ {"mismatch"},
         Finish({r}, result), UNCHANGED <<chainVars, api, client, init, joined>>
  PROVE  ReadsInv'
<1>1. /\ pc' \in [Readers -> {"idle", "data", "waiting", "status", "root", "done"}]
      /\ data' \in [Readers -> Values] /\ proof' \in [Readers -> Nat]
      /\ outcome' \in [Readers -> Outcomes \ {"mismatch"}]
      /\ pc'[r] = "done"
      /\ \A q \in Readers : q # r =>
           /\ pc'[q] = pc[q] /\ data'[q] = data[q] /\ proof'[q] = proof[q]
           /\ outcome'[q] = outcome[q]
  BY FinishDoes
<1>2. ReadsTypeInv'
  BY <1>1 DEF ReadsInv, ReadsTypeInv, chainVars, Tip
<1>3. Bound(r)' /\ Silent(r)'
  BY <1>1 DEF Bound, Silent
<1>4. \A q \in Readers : q # r => SameRead(q)
  BY <1>1 DEF SameRead
<1> QED BY <1>1, <1>2, <1>3, <1>4, OneReadKeeps

-----------------------------------------------------------------------------
(* Each step keeps it *)

LEMMA GetDataKeeps ==
  ASSUME ReadsInv, NEW r \in Readers, GetData(r)
  PROVE  ReadsInv'
<1>1. pc[r] = "idle" /\ UNCHANGED <<chainVars, api, client, init, joined>>
  BY DEF GetData, clientVars
<1>2. CASE /\ data' = [data EXCEPT ![r] = state[api]] /\ pc' = [pc EXCEPT ![r] = "data"]
           /\ UNCHANGED <<outcome, proof>>
  <2>1. state[api] \in Values
    BY ElementOfSeq DEF ReadsInv, ReadsTypeInv, Tip
  <2>2. ReadsTypeInv'
    BY <1>1, <1>2, <2>1 DEF ReadsInv, ReadsTypeInv, chainVars, Tip
  <2>3. pc'[r] = "data" /\ outcome'[r] = outcome[r]
    BY <1>2 DEF ReadsInv, ReadsTypeInv
  <2>4. Bound(r)' /\ Silent(r)'
    BY <1>1, <2>3 DEF Bound, Silent, ReadsInv
  <2>5. \A q \in Readers : q # r => SameRead(q)
    BY <1>1, <1>2 DEF SameRead, ReadsInv, ReadsTypeInv
  <2> QED BY <1>1, <2>2, <2>3, <2>4, <2>5, OneReadKeeps
<1>3. CASE Finish({r}, "failed")
  BY <1>1, <1>3, FinishOneKeeps DEF Outcomes
<1> QED BY <1>2, <1>3 DEF GetData

\* getOrCreateLightClient leaves one initialisation, which the read waits for.
LEMMA JoinDoes ==
  ASSUME ReadsInv, NEW r \in Readers, pc[r] = "data", JoinLightClient(r)
  PROVE  /\ init' \in [Readers -> InitType \cup {NoInit}]
         /\ joined' \in [Readers -> Readers \cup {NoReader}]
         /\ pc' \in [Readers -> {"idle", "data", "waiting", "status", "root", "done"}]
         /\ pc'[r] \in {"waiting", "status"}
         /\ OneInit' /\ Waits(r)'
         /\ \A q \in Readers : init[q] # NoInit => init'[q] # NoInit
         /\ \A q \in Readers : q # r => pc'[q] = pc[q] /\ joined'[q] = joined[q]
<1> USE ChainAssumption, ReadsAssumption DEF ReadsInv, ReadsTypeInv
<1>1. joined[r] = NoReader
  BY DEF Waits
<1>2. CASE client # 0 /\ AskHeights({r}) /\ UNCHANGED clientVars
  BY <1>1, <1>2 DEF AskHeights, clientVars, OneInit, Waits
<1>3. CASE /\ client = 0 /\ \E s \in InFlight : joined' = [joined EXCEPT ![r] = s]
           /\ UNCHANGED init /\ pc' = [pc EXCEPT ![r] = "waiting"] /\ UNCHANGED client
  <2>1. PICK s \in Readers : init[s] # NoInit /\ joined' = [joined EXCEPT ![r] = s]
    BY <1>3 DEF InFlight
  <2> QED BY <1>3, <2>1 DEF OneInit, Waits
<1>4. CASE /\ client = 0 /\ InFlight = {} /\ UNCHANGED client
           /\ init' = [init EXCEPT ![r] = [next |-> 1, answers |-> [e \in Endpoints |-> 0]]]
           /\ joined' = [joined EXCEPT ![r] = r] /\ pc' = [pc EXCEPT ![r] = "waiting"]
  <2>1. PICK n : n = [next |-> 1, answers |-> [e \in Endpoints |-> 0]]
    OBVIOUS
  <2>2. n \in InitType /\ n # NoInit
    <3>1. 1 \in Endpoints /\ [e \in Endpoints |-> 0] \in [Endpoints -> Nat]
      BY DEF Endpoints
    <3>2. n \in InitType /\ n \in [next : Nat, answers : [Endpoints -> Nat]]
      BY <2>1, <3>1 DEF InitType
    <3> QED BY <3>2
  <2>3. \A s \in Readers : init[s] = NoInit
    BY <1>4 DEF InFlight
  <2>4. init' \in [Readers -> InitType \cup {NoInit}] /\ \A s \in Readers : init'[s] # NoInit <=> s = r
    BY <1>4, <2>1, <2>2, <2>3
  <2> QED BY <1>4, <2>3, <2>4 DEF OneInit, Waits
<1> QED BY <1>2, <1>3, <1>4 DEF JoinLightClient

LEMMA GetProofKeeps ==
  ASSUME ReadsInv, NEW r \in Readers, GetProof(r)
  PROVE  ReadsInv'
<1>1. pc[r] = "data" /\ UNCHANGED <<chainVars, api>>
  BY DEF GetProof
<1>2. CASE /\ state[api] = data[r] /\ proof' = [proof EXCEPT ![r] = api]
           /\ JoinLightClient(r) /\ UNCHANGED <<outcome, data>>
  <2>1. /\ init' \in [Readers -> InitType \cup {NoInit}]
        /\ joined' \in [Readers -> Readers \cup {NoReader}]
        /\ pc' \in [Readers -> {"idle", "data", "waiting", "status", "root", "done"}]
        /\ pc'[r] \in {"waiting", "status"}
        /\ OneInit' /\ Waits(r)'
        /\ \A q \in Readers : init[q] # NoInit => init'[q] # NoInit
        /\ \A q \in Readers : q # r => pc'[q] = pc[q] /\ joined'[q] = joined[q]
    BY <1>1, <1>2, JoinDoes
  <2>2. ReadsTypeInv'
    <3>1. api \in Nat /\ proof' \in [Readers -> Nat]
      BY <1>2 DEF ReadsInv, ReadsTypeInv, Tip
    <3> QED BY <1>1, <1>2, <2>1, <3>1 DEF ReadsInv, ReadsTypeInv, chainVars, Tip
  <2>3. proof'[r] = api /\ \A q \in Readers : q # r => proof'[q] = proof[q]
    BY <1>2 DEF ReadsInv, ReadsTypeInv
  <2>4. Bound(r)' /\ Silent(r)'
    BY <1>1, <1>2, <2>3 DEF Bound, Silent, ReadsInv, ReadsTypeInv, chainVars, Tip
  <2>5. ASSUME NEW q \in Readers, q # r PROVE Bound(q)' /\ Waits(q)' /\ Silent(q)'
    BY <1>1, <1>2, <2>1, <2>3, <2>5 DEF Bound, Waits, Silent, ReadsInv, chainVars, Tip
  <2> QED BY <2>1, <2>2, <2>4, <2>5 DEF ReadsInv
<1>3. CASE /\ Finish({r}, "changed") \/ Finish({r}, "failed")
           /\ UNCHANGED clientVars
  BY <1>1, <1>3, FinishOneKeeps DEF Outcomes, clientVars
<1> QED BY <1>2, <1>3 DEF GetProof

LEMMA InitStepKeeps ==
  ASSUME ReadsInv, NEW s \in Readers, InitStep(s)
  PROVE  ReadsInv'
<1> USE ReadsAssumption, ChainAssumption DEF ReadsInv
<1> DEFINE next == init[s].next
           waiting == {r \in Readers : joined[r] = s}
<1>1. init[s] # NoInit /\ init[s] \in InitType /\ UNCHANGED <<chainVars, api>>
  BY DEF InitStep, ReadsTypeInv
<1>2. PICK h \in {seen[next], 0} :
        LET answers == [init[s].answers EXCEPT ![next] = h]
            found == ConsensusHeights(answers)
        IN  \/ /\ next < NumEndpoints
               /\ init' = [init EXCEPT ![s] = [next |-> next + 1, answers |-> answers]]
               /\ UNCHANGED <<client, joined, callVars, began>>
            \/ /\ init' = [init EXCEPT ![s] = NoInit]
               /\ joined' = [r \in Readers |-> IF r \in waiting THEN NoReader ELSE joined[r]]
               /\ \/ AskHeights(waiting) /\ UNCHANGED <<outcome, data, proof, ep>>
                  \/ Finish(waiting, "failed") /\ UNCHANGED client
  BY DEF InitStep
<1>3. CASE /\ next < NumEndpoints
           /\ init' = [init EXCEPT ![s] =
                         [next |-> next + 1, answers |-> [init[s].answers EXCEPT ![next] = h]]]
           /\ UNCHANGED <<client, joined, callVars, began>>
  <2>1. PICK n : n = [next |-> next + 1, answers |-> [init[s].answers EXCEPT ![next] = h]]
    OBVIOUS
  <2>2. n \in InitType /\ n # NoInit
    <3>1. next \in Endpoints /\ init[s].answers \in [Endpoints -> Nat]
      BY <1>1 DEF InitType
    <3>2. h \in Nat
      BY <3>1 DEF ReadsTypeInv
    <3>3. next + 1 \in Endpoints /\ next + 1 \in Nat
      BY <1>3, <3>1 DEF Endpoints
    <3>4. n \in InitType /\ n \in [next : Nat, answers : [Endpoints -> Nat]]
      BY <2>1, <3>1, <3>2, <3>3 DEF InitType
    <3> QED BY <3>4
  <2>3. /\ init' \in [Readers -> InitType \cup {NoInit}]
        /\ \A q \in Readers : init'[q] # NoInit <=> init[q] # NoInit
    BY <1>1, <1>3, <2>1, <2>2 DEF ReadsTypeInv
  <2>4. ReadsTypeInv'
    BY <1>1, <1>3, <2>3 DEF ReadsTypeInv, chainVars, callVars, Tip
  <2> QED BY <1>1, <1>3, <2>3, <2>4 DEF OneInit, Bound, Waits, Silent, chainVars, callVars, Tip, ReadsTypeInv
<1>4. CASE /\ init' = [init EXCEPT ![s] = NoInit]
           /\ joined' = [r \in Readers |-> IF r \in waiting THEN NoReader ELSE joined[r]]
           /\ \/ AskHeights(waiting) /\ UNCHANGED <<outcome, data, proof, ep>>
              \/ Finish(waiting, "failed") /\ UNCHANGED client
  <2>1. /\ init' \in [Readers -> InitType \cup {NoInit}]
        /\ \A q \in Readers : init'[q] = NoInit
    BY <1>1, <1>4 DEF ReadsTypeInv, OneInit
  <2>2. /\ joined' \in [Readers -> Readers \cup {NoReader}]
        /\ \A q \in Readers : pc[q] = "waiting" <=> q \in waiting
    BY <1>1, <1>4 DEF ReadsTypeInv, Waits, OneInit
  <2>3. \A q \in Readers : joined'[q] = NoReader
    BY <1>4, <2>2 DEF Waits
  <2>4. CASE AskHeights(waiting) /\ UNCHANGED <<outcome, data, proof, ep>>
    <3>1. /\ pc' \in [Readers -> {"idle", "data", "waiting", "status", "root", "done"}]
          /\ \A q \in Readers : pc'[q] = IF pc[q] = "waiting" THEN "status" ELSE pc[q]
      BY <2>2, <2>4 DEF AskHeights, ReadsTypeInv
    <3>2. ReadsTypeInv'
      BY <1>1, <2>1, <2>2, <2>4, <3>1 DEF ReadsTypeInv, chainVars, Tip
    <3>3. ASSUME NEW q \in Readers PROVE Bound(q)' /\ Waits(q)' /\ Silent(q)'
      BY <1>1, <2>3, <2>4, <3>1 DEF Bound, Waits, Silent, chainVars, Tip
    <3> QED BY <2>1, <3>2, <3>3 DEF OneInit
  <2>5. CASE Finish(waiting, "failed")
    <3>1. /\ pc' \in [Readers -> {"idle", "data", "waiting", "status", "root", "done"}]
          /\ data' \in [Readers -> Values] /\ proof' \in [Readers -> Nat]
          /\ outcome' \in [Readers -> Outcomes \ {"mismatch"}]
          /\ \A q \in Readers : q \in waiting => pc'[q] = "done"
          /\ \A q \in Readers : q \notin waiting =>
               /\ pc'[q] = pc[q] /\ data'[q] = data[q] /\ proof'[q] = proof[q]
               /\ outcome'[q] = outcome[q]
      <4>1. "failed" \in Outcomes \ {"mismatch"}
        BY DEF Outcomes
      <4> HIDE DEF waiting
      <4> QED BY <2>5, <4>1, FinishDoes
    <3>2. ReadsTypeInv'
      BY <1>1, <2>1, <2>2, <3>1 DEF ReadsTypeInv, chainVars, Tip
    <3>3. ASSUME NEW q \in Readers PROVE Bound(q)' /\ Waits(q)' /\ Silent(q)'
      BY <1>1, <2>2, <2>3, <3>1 DEF Bound, Waits, Silent, chainVars, Tip
    <3> QED BY <2>1, <3>2, <3>3 DEF OneInit
  <2> QED BY <1>4, <2>4, <2>5
<1> QED BY <1>2, <1>3, <1>4

LEMMA StatusAnswerKeeps ==
  ASSUME ReadsInv, NEW r \in Readers, NEW e \in Endpoints, StatusAnswer(r, e)
  PROVE  ReadsInv'
BY DEF StatusAnswer, ReadsInv, ReadsTypeInv, OneInit, Bound, Waits, Silent, chainVars,
       callVars, clientVars, Tip

LEMMA CheckHeightKeeps ==
  ASSUME ReadsInv, NEW r \in Readers, CheckHeight(r)
  PROVE  ReadsInv'
<1>1. pc[r] = "status" /\ UNCHANGED <<chainVars, api, client, init, joined>>
  BY DEF CheckHeight, clientVars
<1>2. ASSUME NEW result \in {"failed", "ahead", "stale"}, Finish({r}, result)
      PROVE  ReadsInv'
  BY <1>1, <1>2, FinishOneKeeps DEF Outcomes
<1>3. CASE pc' = [pc EXCEPT ![r] = "root"] /\ UNCHANGED <<outcome, data, proof>>
  <2>1. ReadsTypeInv'
    BY <1>1, <1>3 DEF ReadsInv, ReadsTypeInv, chainVars, Tip
  <2>2. pc'[r] = "root"
    BY <1>3 DEF ReadsInv, ReadsTypeInv
  <2>3. Bound(r)' /\ Silent(r)'
    BY <1>1, <1>3, <2>2 DEF Bound, Silent, ReadsInv, chainVars, Tip
  <2>4. \A q \in Readers : q # r => SameRead(q)
    BY <1>1, <1>3 DEF SameRead, ReadsInv, ReadsTypeInv
  <2> QED BY <1>1, <2>1, <2>2, <2>3, <2>4, OneReadKeeps
<1> QED BY <1>2, <1>3 DEF CheckHeight

\* The header after block proof[r] carries the state the read's proof shows: a
\* read that gets an answer for it does not end in a mismatch.
LEMMA RootMatches ==
  ASSUME ReadsInv, NEW r \in Readers, ReadRoot(r)
  PROVE  Finish({r}, IF data[r] = Absent THEN "absent" ELSE "value")
<1>1. pc[r] = "root"
  BY DEF ReadRoot
<1>2. proof[r] \in Nat /\ proof[r] >= 1
  BY <1>1 DEF ReadsInv, ReadsTypeInv, Bound, Tip
<1>3. AppHash(proof[r] + 1) = state[proof[r]]
  BY <1>2 DEF AppHash
<1>4. \A root \in RootAfter(ep[r], proof[r]) : root = state[proof[r]]
  BY <1>3 DEF RootAfter
<1> QED BY <1>4 DEF ReadRoot

LEMMA ReadRootKeeps ==
  ASSUME ReadsInv, NEW r \in Readers, ReadRoot(r)
  PROVE  ReadsInv'
<1>1. pc[r] = "root" /\ UNCHANGED <<chainVars, api, client, init, joined>>
  BY DEF ReadRoot, clientVars
<1>2. (IF data[r] = Absent THEN "absent" ELSE "value") \in Outcomes \ {"mismatch"}
  BY DEF Outcomes
<1> QED BY <1>1, <1>2, RootMatches, FinishOneKeeps

LEMMA NextEndpointKeeps ==
  ASSUME ReadsInv, NEW r \in Readers, NextEndpoint(r)
  PROVE  ReadsInv'
<1>1. pc[r] = "root" /\ UNCHANGED <<chainVars, api, client, init, joined>>
  BY DEF NextEndpoint, clientVars
<1>2. CASE UNCHANGED <<pc, outcome, data, proof>>
  BY <1>1, <1>2 DEF ReadsInv, ReadsTypeInv, OneInit, Bound, Waits, Silent, chainVars, Tip
<1>3. CASE Finish({r}, "failed")
  BY <1>1, <1>3, FinishOneKeeps DEF Outcomes
<1> QED BY <1>2, <1>3 DEF NextEndpoint

\* Blocks are only added, so what was bound to a height stays bound to it.
LEMMA ChainKeeps ==
  ASSUME ReadsInv, state' \in Seq(Values), Tip' >= Tip,
         \A h \in 1 .. Tip : state'[h] = state[h], seen' \in [Endpoints -> Nat],
         api' \in 1 .. Tip', UNCHANGED <<callVars, clientVars>>
  PROVE  ReadsInv'
<1>1. Tip \in Nat /\ Tip' \in Nat
  BY LenProperties DEF ReadsInv, ReadsTypeInv, Tip
<1>2. ReadsTypeInv'
  BY <1>1 DEF ReadsInv, ReadsTypeInv, callVars, clientVars
<1>3. ASSUME NEW r \in Readers PROVE Bound(r)' /\ Waits(r)' /\ Silent(r)'
  BY <1>1 DEF ReadsInv, Bound, Waits, Silent, callVars, clientVars
<1> QED BY <1>2, <1>3 DEF ReadsInv, OneInit, clientVars

LEMMA EnvironmentKeeps ==
  ASSUME ReadsInv, ApiFollows \/ ChainStep
  PROVE  ReadsInv'
<1>1. Tip \in Nat
  BY LenProperties DEF ReadsInv, ReadsTypeInv, Tip
<1>2. CASE ApiFollows
  <2>1. state' = state /\ seen' = seen /\ Tip' = Tip /\ api' \in 1 .. Tip'
    BY <1>1, <1>2 DEF ApiFollows, ReadsInv, ReadsTypeInv, chainVars, Tip
  <2> QED BY <1>1, <1>2, <2>1, ChainKeeps DEF ApiFollows, ReadsInv, ReadsTypeInv
<1>3. CASE ChainStep
  <2>1. CASE Produce
    <3>1. PICK v \in Values : state' = Append(state, v)
      BY <2>1 DEF Produce
    <3>2. /\ state' \in Seq(Values) /\ Tip' = Tip + 1
          /\ \A h \in 1 .. Tip : state'[h] = state[h]
      BY <3>1, AppendProperties DEF ReadsInv, ReadsTypeInv, Tip
    <3>3. api' \in 1 .. Tip'
      BY <1>1, <1>3, <3>2 DEF ChainStep, ReadsInv, ReadsTypeInv
    <3>4. Tip' >= Tip /\ seen' \in [Endpoints -> Nat] /\ UNCHANGED <<callVars, clientVars>>
      BY <1>1, <1>3, <2>1, <3>2 DEF ChainStep, Produce, ReadsInv, ReadsTypeInv
    <3> QED BY <3>2, <3>3, <3>4, ChainKeeps
  <2>2. CASE \E e \in Endpoints : Follow(e)
    <3>1. state' = state /\ Tip' = Tip /\ api' = api /\ seen' \in [Endpoints -> Nat]
      BY <1>3, <2>2 DEF ChainStep, Follow, ReadsInv, ReadsTypeInv, Tip
    <3> QED BY <1>1, <1>3, <3>1, ChainKeeps DEF ChainStep, ReadsInv, ReadsTypeInv
  <2> QED BY <1>3, <2>1, <2>2 DEF ChainStep
<1> QED BY <1>2, <1>3

LEMMA ReadsInvStep == ReadsInv /\ [Next]_vars => ReadsInv'
<1> SUFFICES ASSUME ReadsInv, [Next]_vars PROVE ReadsInv'
  OBVIOUS
<1>1. ASSUME NEW r \in Readers, Read(r) PROVE ReadsInv'
  BY <1>1, GetDataKeeps, GetProofKeeps, InitStepKeeps, CheckHeightKeeps, ReadRootKeeps,
     NextEndpointKeeps, StatusAnswerKeeps DEF Read
<1>2. CASE ApiFollows \/ ChainStep
  BY <1>2, EnvironmentKeeps
<1>3. CASE UNCHANGED vars
  BY <1>3 DEF vars, chainVars, callVars, clientVars, ReadsInv, ReadsTypeInv, OneInit, Bound,
              Waits, Silent, Tip
<1> QED BY <1>1, <1>2, <1>3 DEF Next

\* In every state the reads are bound to their proofs and wait for one client.
LEMMA ReadsInvariant == Spec => []ReadsInv
BY InitReadsInv, ReadsInvStep, PTL DEF Spec

-----------------------------------------------------------------------------
(* What it gives *)

\* A proof that the chain's own state gives is never refused for its root, for
\* any number of endpoints, each as far behind as it likes (fetchAppHashForHeight).
THEOREM HonestNeverMismatch == Spec => []HonestProofMatches
<1>1. ReadsInv => HonestProofMatches
  BY DEF ReadsInv, ReadsTypeInv, HonestProofMatches
<1> QED BY <1>1, ReadsInvariant, PTL

\* However many reads come first together, they share one light client
\* (lightClientInitPromise in getOrCreateLightClient).
THEOREM ClientIsShared == Spec => []OneClient
<1>1. ASSUME ReadsInv PROVE OneClient
  <2>1. Cardinality(InFlight) <= 1
    <3>1. CASE InFlight = {}
      BY <3>1, FS_EmptySet
    <3>2. CASE InFlight # {}
      <4>1. PICK s : s \in InFlight
        BY <3>2
      <4>2. InFlight = {s}
        BY <1>1, <4>1 DEF ReadsInv, OneInit, InFlight
      <4> QED BY <4>2, FS_Singleton
    <3> QED BY <3>1, <3>2
  <2>2. client # 0 => InFlight = {}
    BY <1>1 DEF ReadsInv, OneInit, InFlight
  <2>3. \A r \in Readers : pc[r] = "waiting" => joined[r] \in InFlight
    BY <1>1 DEF ReadsInv, Waits, InFlight
  <2> QED BY <2>1, <2>2, <2>3 DEF OneClient
<1> QED BY <1>1, ReadsInvariant, PTL

\* Only a read whose root matched returns, and what it returns is the state at
\* the height of its proof (getVerifiedData, getMultiple).
LEMMA ReturnsBound ==
  ASSUME ReadsInv, [Next]_vars, NEW r \in Readers, Returned(r)
  PROVE  data[r] = state[proof[r]] /\ (outcome'[r] = "absent" <=> data[r] = Absent)
<1>1. outcome[r] = "none" /\ outcome[r] # outcome'[r]
  BY DEF ReadsInv, Silent, Returned
<1>2. ASSUME NEW R, NEW result, Finish(R, result), result \notin {"value", "absent"}
      PROVE  FALSE
  BY <1>1, <1>2 DEF Finish, Returned
<1>3. ASSUME NEW q \in Readers, Read(q) PROVE ReadRoot(q) /\ q = r
  <2>1. ~GetData(q)
    BY <1>1, <1>2 DEF GetData
  <2>2. ~GetProof(q)
    BY <1>1, <1>2 DEF GetProof
  <2>3. ~InitStep(q)
    BY <1>1, <1>2 DEF InitStep, callVars
  <2>4. ~CheckHeight(q)
    BY <1>1, <1>2 DEF CheckHeight
  <2>5. ~NextEndpoint(q)
    BY <1>1, <1>2 DEF NextEndpoint
  <2>6. ~\E e \in Endpoints : StatusAnswer(q, e)
    BY <1>1 DEF StatusAnswer, callVars
  <2>7. ReadRoot(q)
    BY <1>3, <2>1, <2>2, <2>3, <2>4, <2>5, <2>6 DEF Read
  <2>8. Finish({q}, IF data[q] = Absent THEN "absent" ELSE "value")
    BY <2>7, RootMatches
  <2> QED BY <1>1, <2>7, <2>8 DEF Finish
<1>4. ReadRoot(r)
  BY <1>1, <1>3 DEF Next, ApiFollows, ChainStep, vars, callVars
<1>5. Finish({r}, IF data[r] = Absent THEN "absent" ELSE "value")
  BY <1>4, RootMatches
<1>6. outcome'[r] = IF data[r] = Absent THEN "absent" ELSE "value"
  BY <1>5 DEF Finish
<1>7. data[r] = state[proof[r]]
  BY <1>4 DEF ReadRoot, ReadsInv, Bound
<1> QED BY <1>6, <1>7

\* A value is returned, and a key left out as absent, only if that is the state
\* at the verified height, for any interleaving of the reads with the chain.
THEOREM ReturnsVerified == Spec => VerifiedValue
<1>1. ReadsInv /\ [Next]_vars =>
        [\A r \in Readers : Returned(r) =>
           /\ data[r] = state[proof[r]]
           /\ outcome'[r] = "absent" <=> data[r] = Absent]_vars
  BY ReturnsBound
<1> QED BY <1>1, ReadsInvariant, PTL DEF Spec, VerifiedValue

-----------------------------------------------------------------------------
(* The heights a read has heard of *)

\* While a read asks for the latest height, what an endpoint has answered lies
\* between what it had when it was first asked and what it has by now.
Asked(r) ==
  IF pc[r] = "status"
  THEN \A e \in Endpoints : /\ began[r][e] \in 1 .. seen[e]
                            /\ heights[r][e] \in {Pending, 0} \cup (began[r][e] .. seen[e])
  ELSE heights[r] = NoHeights

HeightsTypeInv ==
  /\ heights \in [Readers -> [Endpoints -> Nat \cup {Pending}]]
  /\ began \in [Readers -> [Endpoints -> Nat]]
  /\ client \in Nat /\ \A e \in Endpoints : seen[e] \in 1 .. Tip

HeightsInv == HeightsTypeInv /\ \A r \in Readers : Asked(r)

LEMMA InitHeightsInv == Init => HeightsInv
<1> SUFFICES ASSUME Init PROVE HeightsInv
  OBVIOUS
<1>1. Tip = 1
  BY InitReadsInv DEF Init, ChainInit, Tip
<1>2. HeightsTypeInv
  BY <1>1 DEF Init, ChainInit, HeightsTypeInv, NoHeights, NoneBegan
<1> QED BY <1>2 DEF Init, HeightsInv, Asked

\* What a step does to a read: it goes on as it was, begins to ask, or is past
\* asking.
GoesOn(r) ==
  /\ heights'[r] = heights[r] /\ began'[r] = began[r]
  /\ pc'[r] = "status" <=> pc[r] = "status"

Begins(r) ==
  /\ heights'[r] = heights[r] /\ began'[r] = seen
  /\ pc[r] # "status" /\ pc'[r] = "status"

IsPast(r) == heights'[r] = NoHeights /\ pc'[r] # "status"

\* Endpoints only move forward, so what was heard of stays between the two.
LEMMA AskedKept ==
  ASSUME ReadsInv, HeightsInv, HeightsTypeInv', NEW r \in Readers,
         \A e \in Endpoints : seen'[e] >= seen[e],
         GoesOn(r) \/ Begins(r) \/ IsPast(r)
  PROVE  Asked(r)'
<1> USE DEF HeightsInv, HeightsTypeInv
<1>1. \A e \in Endpoints : seen[e] \in Nat /\ seen'[e] \in Nat
  BY DEF Tip
<1>2. CASE GoesOn(r)
  BY <1>1, <1>2 DEF GoesOn, Asked
<1>3. CASE Begins(r)
  BY <1>1, <1>3 DEF Begins, Asked, NoHeights
<1>4. CASE IsPast(r)
  BY <1>4 DEF IsPast, Asked
<1> QED BY <1>2, <1>3, <1>4

LEMMA HeightsKept ==
  ASSUME ReadsInv, HeightsInv, HeightsTypeInv', UNCHANGED seen,
         \A r \in Readers : GoesOn(r) \/ Begins(r) \/ IsPast(r)
  PROVE  HeightsInv'
<1>1. \A e \in Endpoints : seen'[e] >= seen[e]
  BY DEF HeightsInv, HeightsTypeInv, Tip
<1> QED BY <1>1, AskedKept DEF HeightsInv

LEMMA FinishGoesOn ==
  ASSUME ReadsInv, NEW R, NEW result, Finish(R, result), UNCHANGED statusVars,
         \A r \in R \cap Readers : pc[r] # "status"
  PROVE  \A r \in Readers : GoesOn(r)
BY DEF Finish, GoesOn, statusVars, ReadsInv, ReadsTypeInv

\* The reads that ask for the heights begin to; the others go on.
LEMMA AskingBegins ==
  ASSUME ReadsInv, HeightsInv, NEW R, AskHeights(R), UNCHANGED heights,
         \A r \in R \cap Readers : pc[r] # "status"
  PROVE  /\ began' \in [Readers -> [Endpoints -> Nat]]
         /\ \A r \in Readers : GoesOn(r) \/ Begins(r)
BY DEF AskHeights, GoesOn, Begins, ReadsInv, ReadsTypeInv, HeightsInv, HeightsTypeInv

LEMMA GetDataHears ==
  ASSUME ReadsInv, HeightsInv, NEW r \in Readers, GetData(r)
  PROVE  HeightsInv'
<1>1. HeightsTypeInv' /\ UNCHANGED <<seen, statusVars>> /\ pc[r] = "idle"
  BY DEF GetData, HeightsInv, HeightsTypeInv, statusVars, clientVars, chainVars, Tip
<1>2. \A q \in Readers : GoesOn(q)
  <2>1. CASE pc' = [pc EXCEPT ![r] = "data"]
    BY <1>1, <2>1 DEF GoesOn, statusVars, ReadsInv, ReadsTypeInv
  <2>2. CASE Finish({r}, "failed")
    BY <1>1, <2>2, FinishGoesOn
  <2> QED BY <2>1, <2>2 DEF GetData
<1> QED BY <1>1, <1>2, HeightsKept

LEMMA GetProofHears ==
  ASSUME ReadsInv, HeightsInv, NEW r \in Readers, GetProof(r)
  PROVE  HeightsInv'
<1>1. UNCHANGED <<seen, heights>> /\ Tip' = Tip /\ pc[r] = "data"
  BY DEF GetProof, chainVars, Tip
<1>2. client' = client
  BY DEF GetProof, JoinLightClient, clientVars
<1>3. /\ began' \in [Readers -> [Endpoints -> Nat]]
      /\ \A q \in Readers : GoesOn(q) \/ Begins(q)
  <2>1. CASE AskHeights({r})
    BY <1>1, <2>1, AskingBegins
  <2>2. CASE pc' = [pc EXCEPT ![r] = "waiting"] /\ UNCHANGED began
    BY <1>1, <2>2 DEF GoesOn, ReadsInv, ReadsTypeInv, HeightsInv, HeightsTypeInv
  <2>3. CASE (Finish({r}, "changed") \/ Finish({r}, "failed")) /\ UNCHANGED began
    BY <1>1, <2>3, FinishGoesOn DEF statusVars, HeightsInv, HeightsTypeInv
  <2> QED BY <2>1, <2>2, <2>3 DEF GetProof, JoinLightClient
<1>4. HeightsTypeInv'
  BY <1>1, <1>2, <1>3 DEF HeightsInv, HeightsTypeInv
<1> QED BY <1>1, <1>3, <1>4, HeightsKept

LEMMA InitStepHears ==
  ASSUME ReadsInv, HeightsInv, NEW s \in Readers, InitStep(s)
  PROVE  HeightsInv'
<1> DEFINE waiting == {r \in Readers : joined[r] = s}
<1>1. UNCHANGED <<seen, heights>> /\ Tip' = Tip /\ init[s] \in InitType
  BY DEF InitStep, chainVars, Tip, ReadsInv, ReadsTypeInv
<1>2. \A r \in waiting \cap Readers : pc[r] # "status"
  <2>1. \A r \in waiting : joined[r] # NoReader
    BY ReadsAssumption
  <2> QED BY <2>1 DEF ReadsInv, Waits
<1>3. PICK h \in {seen[init[s].next], 0} :
        LET answers == [init[s].answers EXCEPT ![init[s].next] = h]
            found == ConsensusHeights(answers)
        IN  \/ UNCHANGED <<client, callVars, began>>
            \/ client' \in found /\ AskHeights(waiting)
            \/ Finish(waiting, "failed") /\ UNCHANGED <<client, began>>
  BY DEF InitStep
<1>4. CASE UNCHANGED <<client, callVars, began>>
  <2>1. HeightsTypeInv' /\ \A r \in Readers : GoesOn(r)
    BY <1>1, <1>4 DEF HeightsInv, HeightsTypeInv, GoesOn, callVars
  <2> QED BY <1>1, <2>1, HeightsKept
<1>5. CASE /\ client' \in ConsensusHeights([init[s].answers EXCEPT ![init[s].next] = h])
           /\ AskHeights(waiting)
  <2>1. PICK answers : answers = [init[s].answers EXCEPT ![init[s].next] = h]
    OBVIOUS
  <2>2. answers \in [Endpoints -> Nat]
    <3>1. init[s].next \in Endpoints /\ init[s].answers \in [Endpoints -> Nat]
      BY <1>1 DEF InitType
    <3>2. h \in Nat
      BY <3>1 DEF HeightsInv, HeightsTypeInv
    <3> QED BY <2>1, <3>1, <3>2
  <2>3. client' \in Nat
    BY <1>5, <2>1, <2>2 DEF ConsensusHeights, MostCommon
  <2>4. /\ began' \in [Readers -> [Endpoints -> Nat]]
        /\ \A r \in Readers : GoesOn(r) \/ Begins(r)
    <3> HIDE DEF waiting
    <3> QED BY <1>1, <1>2, <1>5, AskingBegins
  <2>5. HeightsTypeInv'
    BY <1>1, <2>3, <2>4 DEF HeightsInv, HeightsTypeInv
  <2> QED BY <1>1, <2>4, <2>5, HeightsKept
<1>6. CASE Finish(waiting, "failed") /\ UNCHANGED <<client, began>>
  <2>1. HeightsTypeInv'
    BY <1>1, <1>6 DEF HeightsInv, HeightsTypeInv
  <2>2. \A r \in Readers : GoesOn(r)
    <3> HIDE DEF waiting
    <3> QED BY <1>1, <1>2, <1>6, FinishGoesOn DEF statusVars
  <2> QED BY <1>1, <2>1, <2>2, HeightsKept
<1> QED BY <1>3, <1>4, <1>5, <1>6

LEMMA StatusAnswerHears ==
  ASSUME ReadsInv, HeightsInv, NEW r \in Readers, NEW e \in Endpoints, StatusAnswer(r, e)
  PROVE  HeightsInv'
<1> USE DEF HeightsInv, HeightsTypeInv
<1>1. /\ pc[r] = "status" /\ UNCHANGED <<seen, pc, began, client>> /\ Tip' = Tip
      /\ \E h \in {seen[e], 0} : heights' = [heights EXCEPT ![r][e] = h]
  BY DEF StatusAnswer, chainVars, callVars, clientVars, Tip
<1>2. seen[e] \in Nat /\ began[r][e] <= seen[e]
  BY <1>1 DEF Asked, Tip
<1>3. HeightsTypeInv'
  BY <1>1, <1>2
<1>4. Asked(r)'
  <2>1. heights'[r][e] \in {0} \cup (began[r][e] .. seen[e])
    BY <1>1, <1>2
  <2>2. \A f \in Endpoints : f # e => heights'[r][f] = heights[r][f]
    BY <1>1
  <2> QED BY <1>1, <2>1, <2>2 DEF Asked
<1>5. ASSUME NEW q \in Readers, q # r PROVE Asked(q)'
  <2>1. heights'[q] = heights[q]
    BY <1>1, <1>5
  <2> QED BY <1>1, <2>1 DEF Asked
<1> QED BY <1>3, <1>4, <1>5

LEMMA CheckHeightHears ==
  ASSUME ReadsInv, HeightsInv, NEW r \in Readers, CheckHeight(r)
  PROVE  HeightsInv'
<1>1. /\ UNCHANGED <<seen, client>> /\ Tip' = Tip
      /\ heights' = [heights EXCEPT ![r] = NoHeights]
      /\ began' = [began EXCEPT ![r] = NoneBegan]
  BY DEF CheckHeight, chainVars, clientVars, Tip
<1>2. HeightsTypeInv'
  BY <1>1 DEF HeightsInv, HeightsTypeInv, NoHeights, NoneBegan
<1>3. pc'[r] # "status" /\ \A q \in Readers : q # r => pc'[q] = pc[q]
  BY DEF CheckHeight, Finish, ReadsInv, ReadsTypeInv
<1>4. \A q \in Readers : GoesOn(q) \/ IsPast(q)
  BY <1>1, <1>3 DEF GoesOn, IsPast, HeightsInv, HeightsTypeInv
<1> QED BY <1>1, <1>2, <1>4, HeightsKept

LEMMA RootStepHears ==
  ASSUME ReadsInv, HeightsInv, NEW r \in Readers, ReadRoot(r) \/ NextEndpoint(r)
  PROVE  HeightsInv'
<1>1. HeightsTypeInv' /\ UNCHANGED <<seen, statusVars>> /\ pc[r] = "root"
  BY DEF ReadRoot, NextEndpoint, HeightsInv, HeightsTypeInv, statusVars, clientVars, chainVars, Tip
<1>2. ASSUME NEW result, Finish({r}, result) PROVE \A q \in Readers : GoesOn(q)
  BY <1>1, <1>2, FinishGoesOn
<1>3. CASE UNCHANGED pc
  BY <1>1, <1>3, HeightsKept DEF GoesOn, statusVars
<1>4. CASE \A q \in Readers : GoesOn(q)
  BY <1>1, <1>4, HeightsKept
<1> QED BY <1>2, <1>3, <1>4 DEF ReadRoot, NextEndpoint

LEMMA EnvironmentHears ==
  ASSUME ReadsInv, HeightsInv, ApiFollows \/ ChainStep
  PROVE  HeightsInv'
<1> USE DEF HeightsInv, HeightsTypeInv
<1>1. UNCHANGED <<callVars, statusVars, client>> /\ \A r \in Readers : GoesOn(r)
  BY DEF ApiFollows, ChainStep, callVars, statusVars, clientVars, GoesOn
<1>2. Tip \in Nat
  BY LenProperties DEF ReadsInv, ReadsTypeInv, Tip
<1>3. \A e \in Endpoints : seen'[e] >= seen[e] /\ seen'[e] \in 1 .. Tip'
  <2>1. CASE UNCHANGED chainVars
    BY <1>2, <2>1 DEF chainVars, Tip
  <2>2. CASE Produce
    <3>1. Tip' = Tip + 1 /\ seen' = seen
      BY <2>2, AppendProperties DEF Produce, ReadsInv, ReadsTypeInv, Tip
    <3> QED BY <1>2, <3>1
  <2>3. ASSUME NEW f \in Endpoints, Follow(f)
        PROVE  \A e \in Endpoints : seen'[e] >= seen[e] /\ seen'[e] \in 1 .. Tip'
    <3>1. Tip' = Tip /\ seen[f] < Tip /\ seen' = [seen EXCEPT ![f] = seen[f] + 1]
      BY <2>3 DEF Follow, Tip
    <3> QED BY <1>2, <3>1 DEF ReadsInv, ReadsTypeInv
  <2> QED BY <2>1, <2>2, <2>3 DEF ApiFollows, ChainStep
<1>4. HeightsTypeInv'
  BY <1>1, <1>3 DEF statusVars
<1>5. \A r \in Readers : Asked(r)'
  BY <1>1, <1>3, <1>4, AskedKept
<1> QED BY <1>4, <1>5

LEMMA HeightsInvariant == Spec => [](ReadsInv /\ HeightsInv)
<1>1. ASSUME ReadsInv, HeightsInv, [Next]_vars PROVE HeightsInv'
  <2>1. ASSUME NEW r \in Readers, Read(r) PROVE HeightsInv'
    BY <1>1, <2>1, GetDataHears, GetProofHears, InitStepHears, StatusAnswerHears,
       CheckHeightHears, RootStepHears DEF Read
  <2>2. CASE ApiFollows \/ ChainStep
    BY <1>1, <2>2, EnvironmentHears
  <2>3. CASE UNCHANGED vars
    BY <1>1, <2>3 DEF vars, chainVars, callVars, statusVars, clientVars, HeightsInv,
                      HeightsTypeInv, Asked, Tip
  <2> QED BY <1>1, <2>1, <2>2, <2>3 DEF Next
<1> QED BY <1>1, InitHeightsInv, ReadsInvariant, PTL DEF Spec

-----------------------------------------------------------------------------
(* The height a majority has reached *)

AtLeast(r, h) == {e \in Answering(r) : heights[r][e] >= h}

NeededOf(r) == Needed(Cardinality(Answering(r)))

AllAnswered(r) ==
  /\ \A e \in Endpoints : heights[r][e] # Pending
  /\ Answering(r) # {} /\ Cardinality(Answering(r)) >= MinValidators

LEMMA SomeEndpoints ==
  ASSUME NEW E, E \subseteq Endpoints
  PROVE  IsFiniteSet(E) /\ Cardinality(E) \in Nat
<1>1. IsFiniteSet(Endpoints)
  BY FS_Interval, ChainAssumption DEF Endpoints
<1> QED BY <1>1, FS_Subset, FS_CardinalityType

LEMMA MoreEndpoints ==
  ASSUME NEW E, E \subseteq Endpoints, NEW D, D \subseteq E
  PROVE  Cardinality(D) <= Cardinality(E)
BY SomeEndpoints, FS_Subset

\* The needed number is a majority of the answers, and not more than there are.
LEMMA NeededIsMajority ==
  ASSUME NEW r \in Readers, AllAnswered(r)
  PROVE  /\ NeededOf(r) \in 1 .. Cardinality(Answering(r))
         /\ \A n \in Nat : n >= NeededOf(r) <=>
              2 * n > Cardinality(Answering(r)) /\ n >= MinValidators
<1>1. Answering(r) \subseteq Endpoints
  BY DEF Answering
<1>2. PICK n : n = Cardinality(Answering(r))
  OBVIOUS
<1>3. n \in Nat
  BY <1>1, <1>2, SomeEndpoints
<1>4. n # 0
  BY <1>1, <1>2, SomeEndpoints, FS_EmptySet DEF AllAnswered
<1>5. MinValidators \in Nat /\ n >= MinValidators
  BY <1>2, MinValidatorsAssumption, ChainAssumption DEF AllAnswered
<1>6. n \div 2 \in Nat /\ (2 * (n \div 2) = n \/ 2 * (n \div 2) + 1 = n)
  BY <1>3
<1>7. NeededOf(r) = IF MinValidators > n \div 2 + 1 THEN MinValidators ELSE n \div 2 + 1
  BY <1>2 DEF NeededOf, Needed
<1>8. NeededOf(r) \in 1 .. n
  BY <1>3, <1>4, <1>5, <1>6, <1>7
<1>9. \A k \in Nat : k >= NeededOf(r) <=> 2 * k > n /\ k >= MinValidators
  BY <1>3, <1>5, <1>6, <1>7
<1> QED BY <1>2, <1>8, <1>9

LEMMA LeastHeight ==
  ASSUME NEW S, S \subseteq Nat, S # {}
  PROVE  \E h \in S : \A g \in S : h <= g
<1> DEFINE R == {ss \in Nat \X Nat : ss[1] < ss[2]}
<1>1. IsWellFoundedOn(R, Nat)
  BY NatLessThanWellFounded DEF OpToRel
<1>2. PICK h \in S : \A g \in S : ~(<<g, h>> \in R)
  <2> HIDE DEF R
  <2> QED BY <1>1, WFMin
<1>3. \A g \in S : h <= g
  <2> TAKE g \in S
  <2>1. <<g, h>> \in Nat \X Nat /\ ~(<<g, h>> \in R)
    BY <1>2
  <2> QED BY <2>1
<1> QED BY <1>3

\* What an endpoint that answered has answered.
LEMMA AnswersAreHeights ==
  ASSUME HeightsInv, NEW r \in Readers, pc[r] = "status", AllAnswered(r),
         NEW e \in Answering(r)
  PROVE  /\ e \in Endpoints /\ began[r][e] \in Nat /\ seen[e] \in 1 .. Tip
         /\ heights[r][e] \in Nat \ {0}
         /\ began[r][e] <= heights[r][e] /\ heights[r][e] <= seen[e]
BY DEF HeightsInv, HeightsTypeInv, Asked, Answering, AllAnswered, Tip

\* Once every endpoint has answered or failed, there is a highest height that
\* the needed number of them have (the sorted heights' needed-th).
LEMMA ReachedIs ==
  ASSUME ReadsInv, HeightsInv, NEW r \in Readers, pc[r] = "status", AllAnswered(r)
  PROVE  /\ Reached(r) \in 1 .. Tip
         /\ Cardinality(AtLeast(r, Reached(r))) >= NeededOf(r)
         /\ Cardinality(AtLeast(r, Reached(r) + 1)) < NeededOf(r)
<1>1. Tip \in Nat /\ Tip >= 1
  BY LenProperties DEF ReadsInv, ReadsTypeInv, Tip
<1>2. \A h : AtLeast(r, h) \subseteq Endpoints /\ Cardinality(AtLeast(r, h)) \in Nat
  <2>1. \A h : AtLeast(r, h) \subseteq Endpoints
    BY DEF AtLeast, Answering
  <2> QED BY <2>1, SomeEndpoints
<1>3. NeededOf(r) \in Nat /\ NeededOf(r) >= 1 /\ NeededOf(r) <= Cardinality(Answering(r))
  <2>1. Cardinality(Answering(r)) \in Nat
    BY SomeEndpoints DEF Answering
  <2> QED BY <2>1, NeededIsMajority
<1> DEFINE Few == {h \in Nat : h >= 1 /\ Cardinality(AtLeast(r, h + 1)) < NeededOf(r)}
<1>4. Tip \in Few
  <2>1. AtLeast(r, Tip + 1) = {}
    <3>1. \A e \in Answering(r) : ~(heights[r][e] >= Tip + 1)
      BY <1>1, AnswersAreHeights
    <3> QED BY <3>1 DEF AtLeast
  <2> QED BY <1>1, <1>3, <2>1, FS_EmptySet
<1>5. PICK h \in Few : \A g \in Few : h <= g
  <2>1. Few \subseteq Nat /\ Few # {}
    BY <1>4
  <2> HIDE DEF Few
  <2> QED BY <2>1, LeastHeight
<1>6. h \in 1 .. Tip
  BY <1>1, <1>4, <1>5
<1>7. Cardinality(AtLeast(r, h)) >= NeededOf(r)
  <2>1. CASE h = 1
    <3>1. AtLeast(r, 1) = Answering(r)
      <4>1. \A e \in Answering(r) : heights[r][e] >= 1
        BY AnswersAreHeights
      <4> QED BY <4>1 DEF AtLeast
    <3> QED BY <1>3, <2>1, <3>1, SomeEndpoints DEF Answering
  <2>2. CASE h # 1
    <3>1. h - 1 \in Nat /\ h - 1 >= 1 /\ ~(h <= h - 1) /\ (h - 1) + 1 = h
      BY <1>6, <2>2
    <3>2. h - 1 \notin Few
      BY <1>5, <3>1
    <3> QED BY <1>2, <1>3, <3>1, <3>2
  <2> QED BY <2>1, <2>2
<1>8. \E g \in 1 .. Tip :
        Cardinality(AtLeast(r, g)) >= NeededOf(r) /\ Cardinality(AtLeast(r, g + 1)) < NeededOf(r)
  BY <1>5, <1>6, <1>7
<1>9. Reached(r) = CHOOSE g \in 1 .. Tip :
        Cardinality(AtLeast(r, g)) >= NeededOf(r) /\ Cardinality(AtLeast(r, g + 1)) < NeededOf(r)
  BY DEF Reached, AtLeast, NeededOf
<1> QED BY <1>8, <1>9

\* A majority of endpoints that had a height when they were asked is among those
\* that answer at least it: the height reached is not below it.
LEMMA MajorityIsHeard ==
  ASSUME ReadsInv, HeightsInv, NEW r \in Readers, pc[r] = "status", AllAnswered(r),
         NEW h \in Int, h > Reached(r)
  PROVE  ~Enough(r, HadReached(r, h))
<1> SUFFICES ASSUME Enough(r, HadReached(r, h)) PROVE FALSE
  OBVIOUS
<1>1. Reached(r) \in Nat /\ Cardinality(AtLeast(r, Reached(r) + 1)) < NeededOf(r)
  BY ReachedIs DEF Tip
<1>2. HadReached(r, h) \subseteq AtLeast(r, Reached(r) + 1)
  BY <1>1, AnswersAreHeights DEF HadReached, AtLeast
<1>3. AtLeast(r, Reached(r) + 1) \subseteq Endpoints /\ HadReached(r, h) \subseteq Endpoints
  BY DEF AtLeast, HadReached, Answering
<1>4. Cardinality(HadReached(r, h)) <= Cardinality(AtLeast(r, Reached(r) + 1))
  BY <1>2, <1>3, MoreEndpoints
<1>5. Cardinality(HadReached(r, h)) >= NeededOf(r)
  BY <1>3, SomeEndpoints, NeededIsMajority DEF Enough
<1>6. Cardinality(HadReached(r, h)) \in Nat /\ Cardinality(AtLeast(r, Reached(r) + 1)) \in Nat
  BY <1>3, SomeEndpoints
<1>7. Cardinality(Answering(r)) \in Nat
  BY SomeEndpoints DEF Answering
<1>8. NeededOf(r) \in Nat
  BY <1>7, NeededIsMajority
<1> QED BY <1>1, <1>4, <1>5, <1>6, <1>8

\* The height reached is one a majority of the endpoints that answered has.
LEMMA ReachedByMajority ==
  ASSUME ReadsInv, HeightsInv, NEW r \in Readers, pc[r] = "status", AllAnswered(r),
         NEW h \in Int, Reached(r) > h
  PROVE  Enough(r, {e \in Endpoints : seen[e] > h})
<1> DEFINE Above == {e \in Endpoints : seen[e] > h}
<1>1. Reached(r) \in Nat /\ Cardinality(AtLeast(r, Reached(r))) >= NeededOf(r)
  BY ReachedIs DEF Tip
<1>2. AtLeast(r, Reached(r)) \subseteq Above
  BY <1>1, AnswersAreHeights DEF AtLeast, Tip
<1>3. Cardinality(AtLeast(r, Reached(r))) <= Cardinality(Above)
  BY <1>2, MoreEndpoints
<1>4. Cardinality(AtLeast(r, Reached(r))) \in Nat /\ Cardinality(Above) \in Nat
  BY <1>2, SomeEndpoints
<1>5. Cardinality(Answering(r)) \in Nat
  BY SomeEndpoints DEF Answering
<1>6. NeededOf(r) \in Nat
  BY <1>5, NeededIsMajority
<1>7. Cardinality(Above) >= NeededOf(r)
  BY <1>1, <1>3, <1>4, <1>6
<1> QED BY <1>4, <1>7, NeededIsMajority DEF Enough

\* Only the range check takes a read that asks for the heights to the root, or
\* refuses its proof for its height.
LEMMA OnlyCheckHeightDecides ==
  ASSUME ReadsInv, HeightsInv, [Next]_vars, NEW r \in Readers, pc[r] = "status",
         pc'[r] = "root" \/ outcome'[r] \in {"ahead", "stale"}
  PROVE  CheckHeight(r)
<1>1. outcome[r] = "none"
  BY DEF ReadsInv, Silent
<1>2. ~(pc'[r] = pc[r] /\ outcome'[r] = outcome[r])
  BY <1>1
<1>3. ASSUME NEW R, NEW result, Finish(R, result), r \in R
      PROVE  result \in {"ahead", "stale"}
  BY <1>3 DEF Finish
<1>4. ASSUME NEW R, NEW result, Finish(R, result), r \notin R
      PROVE  FALSE
  BY <1>2, <1>4 DEF Finish
<1>5. ASSUME NEW q \in Readers, Read(q) PROVE CheckHeight(q) /\ q = r
  <2>1. ~GetData(q)
    BY <1>2, <1>3, <1>4 DEF GetData, ReadsInv, ReadsTypeInv
  <2>2. ~GetProof(q)
    BY <1>2, <1>3, <1>4 DEF GetProof, JoinLightClient, AskHeights, ReadsInv, ReadsTypeInv
  <2>3. ~InitStep(q)
    BY <1>2, <1>3, <1>4 DEF InitStep, AskHeights, callVars
  <2>4. ~ReadRoot(q)
    <3> SUFFICES ASSUME ReadRoot(q) PROVE FALSE
      OBVIOUS
    <3>1. Finish({q}, IF data[q] = Absent THEN "absent" ELSE "value") /\ q # r
      BY RootMatches DEF ReadRoot
    <3> QED BY <1>4, <3>1
  <2>5. ~NextEndpoint(q)
    BY <1>2, <1>3, <1>4 DEF NextEndpoint
  <2>6. ~\E e \in Endpoints : StatusAnswer(q, e)
    BY <1>2 DEF StatusAnswer, callVars
  <2>7. CheckHeight(q)
    BY <1>5, <2>1, <2>2, <2>3, <2>4, <2>5, <2>6 DEF Read
  <2>8. q = r
    BY <1>2, <1>4, <2>7 DEF CheckHeight, ReadsInv, ReadsTypeInv
  <2> QED BY <2>7, <2>8
<1> QED BY <1>2, <1>5 DEF Next, ApiFollows, ChainStep, vars, callVars

\* What the range check decides, by the height a majority has.
LEMMA CheckHeightDecides ==
  ASSUME ReadsInv, HeightsInv, NEW r \in Readers, CheckHeight(r)
  PROVE  /\ pc'[r] = "root" =>
              AllAnswered(r) /\ Reached(r) <= proof[r] + MaxLag
         /\ outcome'[r] = "ahead" => AllAnswered(r) /\ proof[r] > Reached(r) + 1
         /\ outcome'[r] = "stale" =>
              AllAnswered(r) /\ (Reached(r) > proof[r] + MaxLag \/ client > proof[r] + MaxLag)
<1>1. pc[r] = "status" /\ outcome[r] = "none"
  BY DEF CheckHeight, ReadsInv, Silent
<1>2. CASE ~(Answering(r) # {} /\ Cardinality(Answering(r)) >= MinValidators)
  BY <1>2 DEF CheckHeight, Finish
<1>3. CASE Answering(r) # {} /\ Cardinality(Answering(r)) >= MinValidators
  <2>1. AllAnswered(r)
    BY <1>3 DEF CheckHeight, AllAnswered
  <2>2. Reached(r) \in Nat /\ proof[r] \in Nat /\ client \in Nat /\ MaxLag \in Nat
    BY <1>1, <2>1, ReachedIs, ReadsAssumption DEF ReadsInv, ReadsTypeInv, HeightsInv, HeightsTypeInv, Tip
  <2>3. PICK latest : latest = IF client > Reached(r) THEN client ELSE Reached(r)
    OBVIOUS
  <2>4. \/ proof[r] > latest + 1 /\ Finish({r}, "ahead")
        \/ latest > proof[r] + MaxLag /\ Finish({r}, "stale")
        \/ /\ proof[r] <= latest + 1 /\ latest <= proof[r] + MaxLag
           /\ pc' = [pc EXCEPT ![r] = "root"] /\ outcome' = outcome
    BY <1>3, <2>3 DEF CheckHeight
  <2>5. CASE proof[r] > latest + 1 /\ Finish({r}, "ahead")
    <3>1. pc'[r] = "done" /\ outcome'[r] = "ahead"
      BY <2>5 DEF Finish
    <3> QED BY <2>1, <2>2, <2>3, <2>5, <3>1
  <2>6. CASE latest > proof[r] + MaxLag /\ Finish({r}, "stale")
    <3>1. pc'[r] = "done" /\ outcome'[r] = "stale"
      BY <2>6 DEF Finish
    <3> QED BY <2>1, <2>2, <2>3, <2>6, <3>1
  <2>7. CASE /\ proof[r] <= latest + 1 /\ latest <= proof[r] + MaxLag
             /\ pc' = [pc EXCEPT ![r] = "root"] /\ outcome' = outcome
    BY <1>1, <2>1, <2>2, <2>3, <2>7
  <2> QED BY <2>4, <2>5, <2>6, <2>7
<1> QED BY <1>2, <1>3

\* The heights a proof may have follow the majority of the endpoints that
\* answer, for any endpoints, minimum, lag and interleaving (verifyRootAtHeight
\* over getLatestHeightFromValidators).
THEOREM RangeIsTheMajoritys == Spec => RangeFollowsMajority
<1>1. ASSUME ReadsInv, HeightsInv, [Next]_vars, NEW r \in Readers, pc[r] = "status"
      PROVE  /\ pc'[r] = "root" => ~Enough(r, HadReached(r, proof[r] + MaxLag + 1))
             /\ outcome'[r] = "ahead" => ~Enough(r, HadReached(r, proof[r] - 1))
             /\ outcome'[r] = "stale" =>
                  \/ Enough(r, {e \in Endpoints : seen[e] > proof[r] + MaxLag})
                  \/ client > proof[r] + MaxLag
  <2>1. proof[r] \in Nat /\ MaxLag \in Nat
    BY <1>1, ReadsAssumption DEF ReadsInv, ReadsTypeInv
  <2>2. CASE ~CheckHeight(r)
    BY <1>1, <2>2, OnlyCheckHeightDecides
  <2>3. CASE CheckHeight(r)
    <3>1. AllAnswered(r) => Reached(r) \in Nat
      BY <1>1, ReachedIs DEF Tip
    <3>2. ASSUME pc'[r] = "root" PROVE ~Enough(r, HadReached(r, proof[r] + MaxLag + 1))
      <4>1. AllAnswered(r) /\ proof[r] + MaxLag + 1 > Reached(r) /\ proof[r] + MaxLag + 1 \in Int
        BY <1>1, <2>1, <2>3, <3>1, <3>2, CheckHeightDecides
      <4> QED BY <1>1, <4>1, MajorityIsHeard
    <3>3. ASSUME outcome'[r] = "ahead" PROVE ~Enough(r, HadReached(r, proof[r] - 1))
      <4>1. AllAnswered(r) /\ proof[r] - 1 > Reached(r) /\ proof[r] - 1 \in Int
        BY <1>1, <2>1, <2>3, <3>1, <3>3, CheckHeightDecides
      <4> QED BY <1>1, <4>1, MajorityIsHeard
    <3>4. ASSUME outcome'[r] = "stale"
          PROVE  \/ Enough(r, {e \in Endpoints : seen[e] > proof[r] + MaxLag})
                 \/ client > proof[r] + MaxLag
      <4>1. AllAnswered(r) /\ (Reached(r) > proof[r] + MaxLag \/ client > proof[r] + MaxLag)
        BY <1>1, <2>3, <3>4, CheckHeightDecides
      <4>2. proof[r] + MaxLag \in Int
        BY <2>1
      <4> QED BY <1>1, <4>1, <4>2, ReachedByMajority
    <3> QED BY <3>2, <3>3, <3>4
  <2> QED BY <2>2, <2>3
<1>2. ReadsInv /\ HeightsInv /\ [Next]_vars =>
        [\A r \in Readers : pc[r] = "status" =>
           /\ pc'[r] = "root" => ~Enough(r, HadReached(r, proof[r] + MaxLag + 1))
           /\ outcome'[r] = "ahead" => ~Enough(r, HadReached(r, proof[r] - 1))
           /\ outcome'[r] = "stale" =>
                \/ Enough(r, {e \in Endpoints : seen[e] > proof[r] + MaxLag})
                \/ client > proof[r] + MaxLag]_vars
  BY <1>1
<1> QED BY <1>2, HeightsInvariant, PTL DEF Spec, RangeFollowsMajority
=============================================================================
