------------------------- MODULE TxSubmissionProofs -------------------------
(***************************************************************************)
(* Proofs about TxSubmission, for any writes, window, hold, retries and    *)
(* number of foreign transactions.                                         *)
(***************************************************************************)
EXTENDS TxSubmission, TLAPS

-----------------------------------------------------------------------------
(* The operators on nonce states *)

LEMMA StateFields ==
  ASSUME NEW s \in NonceStates
  PROVE  /\ s.base \in Nat
         /\ \A n \in s.used : n \in Nat /\ n > s.base /\ n <= s.base + Window
BY AllocatorAssumption DEF NonceStates

LEMMA StateMade ==
  ASSUME NEW b \in Nat, NEW U,
         \A n \in U : n \in Nat /\ n > b /\ n <= b + Window
  PROVE  [base |-> b, used |-> U] \in NonceStates
BY AllocatorAssumption DEF NonceStates

\* Merging keeps the window and everything either report marks used.
LEMMA MergeKeeps ==
  ASSUME NEW a \in NonceStates, NEW b \in NonceStates
  PROVE  /\ MergeStates(a, b) \in NonceStates
         /\ \A n \in Nat :
              IsUsed(MergeStates(a, b), n) <=> IsUsed(a, n) \/ IsUsed(b, n)
<1> DEFINE base == IF a.base >= b.base THEN a.base ELSE b.base
           U == UsedAbove(a, base) \cup UsedAbove(b, base)
<1>1. MergeStates(a, b) = [base |-> base, used |-> U]
  BY DEF MergeStates
<1>2. base \in Nat /\ base >= a.base /\ base >= b.base
  BY StateFields
<1>3. \A n \in U : n \in Nat /\ n > base /\ n <= base + Window
  BY <1>2, StateFields, AllocatorAssumption DEF UsedAbove
<1>4. MergeStates(a, b) \in NonceStates
  <2> HIDE DEF base, U
  <2> QED BY <1>1, <1>2, <1>3, StateMade
<1>5. ASSUME NEW n \in Nat
      PROVE  IsUsed(MergeStates(a, b), n) <=> IsUsed(a, n) \/ IsUsed(b, n)
  BY <1>1, <1>2, StateFields DEF IsUsed, UsedAbove
<1> QED BY <1>4, <1>5

\* refresh(): what a report leaves as the newest state.
LEMMA SeenKeeps ==
  ASSUME latest \in NonceStates \cup {NoState},
         NEW r \in NonceStates \cup {NoState}
  PROVE  /\ Seen(r) \in NonceStates \cup {NoState}
         /\ latest # NoState =>
              /\ Seen(r) # NoState
              /\ \A n \in Nat : IsUsed(latest, n) => IsUsed(Seen(r), n)
<1>1. CASE r = NoState
  BY <1>1 DEF Seen
<1>2. CASE r # NoState /\ latest = NoState
  BY <1>2 DEF Seen
<1>3. CASE r # NoState /\ latest # NoState
  <2>1. Seen(r) = MergeStates(latest, r) /\ latest \in NonceStates /\ r \in NonceStates
    BY <1>3 DEF Seen
  <2> QED BY <2>1, MergeKeeps, AllocatorAssumption
<1> QED BY <1>1, <1>2, <1>3

-----------------------------------------------------------------------------
(* The operations of the allocator *)

LEMMA ReleaseType ==
  ASSUME AllocatorTypeOK, NEW n, Release(n)
  PROVE  AllocatorTypeOK'
BY DEF AllocatorTypeOK, Release, WithoutHold

LEMMA HoldType ==
  ASSUME AllocatorTypeOK, NEW n \in Nat, Hold(n)
  PROVE  AllocatorTypeOK'
BY AllocatorAssumption DEF AllocatorTypeOK, Hold, WithHold

LEMMA ElapseType ==
  ASSUME AllocatorTypeOK, Elapse
  PROVE  AllocatorTypeOK'
BY AllocatorAssumption DEF AllocatorTypeOK, Elapse

\* The holds refresh() keeps.
LEMMA KeptType ==
  ASSUME AllocatorTypeOK, NEW s \in NonceStates
  PROVE  /\ Kept(s, taken) \in [DOMAIN Kept(s, taken) -> 0 .. HoldTime]
         /\ DOMAIN Kept(s, taken) \subseteq Nat
         /\ \A n \in DOMAIN taken :
              ~IsUsed(s, n) /\ taken[n] < HoldTime =>
                n \in DOMAIN Kept(s, taken) /\ Kept(s, taken)[n] = taken[n]
BY DEF AllocatorTypeOK, Kept

LEMMA TakeType ==
  ASSUME AllocatorTypeOK, NEW r \in NonceStates \cup {NoState},
         NEW n, Take(r, n)
  PROVE  AllocatorTypeOK' /\ n \in Nat /\ n > 0
<1>1. Seen(r) \in NonceStates
  BY SeenKeeps DEF Take, AllocatorTypeOK
<1>2. n \in Nat /\ n > 0
  BY <1>1, StateFields, AllocatorAssumption DEF Take, Free
<1>3. latest' = Seen(r) /\ taken' = WithHold(Kept(Seen(r), taken), n)
  BY DEF Take
<1>4. AllocatorTypeOK'
  BY <1>1, <1>2, <1>3, KeptType, AllocatorAssumption DEF AllocatorTypeOK, WithHold
<1> QED BY <1>2, <1>4

LEMMA TakeFromFullWindowType ==
  ASSUME AllocatorTypeOK, NEW r \in NonceStates \cup {NoState}, TakeFromFullWindow(r)
  PROVE  AllocatorTypeOK'
<1>1. Seen(r) \in NonceStates
  BY SeenKeeps DEF TakeFromFullWindow, AllocatorTypeOK
<1>2. latest' = Seen(r) /\ taken' = Kept(Seen(r), taken)
  BY DEF TakeFromFullWindow
<1> QED BY <1>1, <1>2, KeptType DEF AllocatorTypeOK

LEMMA SettleType ==
  ASSUME AllocatorTypeOK, NEW n \in Nat, NEW keeps, Settle(n, keeps)
  PROVE  AllocatorTypeOK'
BY HoldType, ReleaseType DEF Settle

-----------------------------------------------------------------------------
(* Type correctness *)

\* A block spends nonces only: nothing used becomes unused.
LEMMA SpendKeeps ==
  ASSUME chain \in NonceStates, NEW n \in Nat, Spend(n)
  PROVE  /\ chain' \in NonceStates
         /\ chain.base <= chain'.base
         /\ \A m \in Nat : IsUsed(chain, m) => IsUsed(chain', m)
<1>1. PICK b \in chain.base .. (chain.base + Window) :
        chain' = [base |-> b, used |-> {m \in chain.used \cup {n} : m > b}]
  BY DEF Spend
<1>2. n <= chain.base + Window
  BY DEF Spend
<1>3. b \in Nat /\ b >= chain.base
  BY StateFields, AllocatorAssumption
<1>4. \A m \in {m \in chain.used \cup {n} : m > b} :
        m \in Nat /\ m > b /\ m <= b + Window
  BY <1>2, <1>3, StateFields, AllocatorAssumption
<1>5. chain' \in NonceStates
  BY <1>1, <1>3, <1>4, StateMade
<1> QED BY <1>1, <1>3, <1>5, StateFields DEF IsUsed

\* A write is the transaction of the call that signs it.
LEMMA WritesAreCalls ==
  Writes \subseteq Calls /\ Managed \cup CallerWrites \cup Registrations \subseteq Writes
BY DEF Calls, Writes

LEMMA InitType == Init => TypeOK
<1> SUFFICES ASSUME Init PROVE TypeOK
  OBVIOUS
<1>1. chain \in NonceStates
  BY AllocatorAssumption DEF Init, NonceStates
<1>2. AllocatorTypeOK
  BY DEF Init, AllocatorInit, AllocatorTypeOK
<1> QED BY <1>1, <1>2, SubmissionAssumption, AllocatorAssumption
        DEF Init, TypeOK, Control, Outcomes, Answers, Calls

LEMMA TypeStep == TypeOK /\ [Next]_vars => TypeOK'
<1> SUFFICES ASSUME TypeOK, [Next]_vars PROVE TypeOK'
  OBVIOUS
<1> USE SubmissionAssumption, AllocatorAssumption, WritesAreCalls
<1>0. AllocatorTypeOK /\ \A w \in Calls : nonce[w] \in Nat
  BY DEF TypeOK
<1>1. ASSUME NEW w \in Calls, ReadNonceState(w) PROVE TypeOK'
  <2>1. PICK used \in {chain.used, {}} :
          report' = [report EXCEPT ![w] = [base |-> chain.base, used |-> used]]
    BY <1>1 DEF ReadNonceState
  <2>2. [base |-> chain.base, used |-> used] \in NonceStates
    BY StateFields, StateMade DEF TypeOK
  <2> QED BY <1>1, <2>1, <2>2 DEF ReadNonceState, TypeOK, allocatorVars, clientVars, serverVars, Control, Outcomes, Answers, AllocatorTypeOK
<1>2. ASSUME NEW w \in Calls, of[w] \in Writes,
             NEW r \in NonceStates \cup {NoState}, TakeWith(w, r)
      PROVE  TypeOK'
  <2>1. CASE TakeFromFullWindow(r) /\ UNCHANGED nonce
    <3>1. AllocatorTypeOK'
      BY <1>0, <2>1, TakeFromFullWindowType
    <3> QED BY <1>2, <2>1, <3>1 DEF TakeWith, TypeOK, allocatorVars, clientVars, serverVars, Control, Outcomes, Answers
  <2>2. CASE \E n \in Free(Seen(r), Kept(Seen(r), taken)) :
               Take(r, n) /\ nonce' = [nonce EXCEPT ![w] = n]
    <3>1. PICK n : Take(r, n) /\ nonce' = [nonce EXCEPT ![w] = n]
      BY <2>2
    <3>2. AllocatorTypeOK' /\ n \in Nat
      BY <1>0, <3>1, TakeType
    <3> QED BY <1>2, <3>1, <3>2 DEF TakeWith, TypeOK, allocatorVars, clientVars, serverVars, Control, Outcomes, Answers
  <2> QED BY <1>2, <2>1, <2>2 DEF TakeWith
<1>3. ASSUME NEW w \in Calls, TakeNonce(w) PROVE TypeOK'
  BY <1>2, <1>3 DEF TakeNonce, TypeOK
<1>4. ASSUME NEW w \in Calls, TakeUnread(w) PROVE TypeOK'
  <2>1. CASE TakeWith(w, NoState)
    BY <1>2, <1>4, <2>1 DEF TakeUnread, TypeOK
  <2>2. CASE ~TakeWith(w, NoState)
    BY <1>4, <2>2 DEF TakeUnread, TypeOK, allocatorVars, clientVars, serverVars, Control, Outcomes, Answers, AllocatorTypeOK
  <2> QED BY <2>1, <2>2
<1>5. ASSUME NEW w \in Calls, Register(w) PROVE TypeOK'
  BY <1>5 DEF Register, TypeOK, allocatorVars, clientVars, serverVars, Control, Outcomes, Answers, AllocatorTypeOK
<1>6. ASSUME NEW w \in Calls, UseParked(w) PROVE TypeOK'
  BY <1>6 DEF UseParked, TypeOK, allocatorVars, clientVars, serverVars, Control, Outcomes, Answers, AllocatorTypeOK
<1>7. ASSUME NEW w \in Calls, FailUnsent(w) PROVE TypeOK'
  <2>1. AllocatorTypeOK'
    BY <1>0, <1>7, ReleaseType DEF FailUnsent, allocatorVars, AllocatorTypeOK
  <2> QED BY <1>7, <2>1 DEF FailUnsent, TypeOK, allocatorVars, clientVars, serverVars, Control, Outcomes, Answers
<1>8. ASSUME NEW w \in Calls, Post(w) PROVE TypeOK'
  <2>1. AllocatorTypeOK'
    BY <1>0, <1>8, HoldType DEF Post
  <2> QED BY <1>8, <2>1 DEF Post, TypeOK, allocatorVars, clientVars, serverVars, Control, Outcomes, Answers
<1>9. ASSUME NEW w \in Calls, AttemptFails(w) PROVE TypeOK'
  <2>1. CASE attempt[w] < Retries(w) /\ RetryLater(w)
    BY <1>9, <2>1 DEF AttemptFails, RetryLater, Retries, TypeOK, allocatorVars, clientVars, serverVars, Control, Outcomes, Answers, AllocatorTypeOK
  <2>2. CASE GiveUp(w)
    BY <1>9, <2>2 DEF AttemptFails, GiveUp, TypeOK, allocatorVars, clientVars, serverVars, Control, Outcomes, Answers, AllocatorTypeOK
  <2> QED BY <1>9, <2>1, <2>2 DEF AttemptFails
<1>10. ASSUME NEW w \in Calls, ReceiveAnswer(w) PROVE TypeOK'
  <2>1. AllocatorTypeOK'
    BY <1>0, <1>10, SettleType DEF ReceiveAnswer, allocatorVars, AllocatorTypeOK
  <2>2. ResultOf(answer[w], repeat[w]) \in Outcomes
    BY DEF ResultOf, Outcomes
  <2> QED BY <1>10, <2>1, <2>2 DEF ReceiveAnswer, TypeOK, clientVars, serverVars,
                                   Control, Answers
<1>11. ASSUME NEW w \in Calls, Resubmit(w) PROVE TypeOK'
  <2>1. PICK d \in Calls :
          /\ pc[d] = "done"
          /\ of' = [of EXCEPT ![w] = of[d]] /\ nonce' = [nonce EXCEPT ![w] = nonce[d]]
          /\ Hold(nonce[d])
    BY <1>11 DEF Resubmit
  <2>2. AllocatorTypeOK' /\ nonce[d] \in Nat /\ of[d] \in Writes /\ w \notin Writes
    BY <1>0, <1>11, <2>1, HoldType DEF Resubmit, TypeOK
  <2> QED BY <1>11, <2>1, <2>2 DEF Resubmit, TypeOK, serverVars, Control
<1>12. ASSUME NEW w \in Calls, HandlePost(w) PROVE TypeOK'
  BY <1>12 DEF HandlePost, Broadcast, TypeOK, allocatorVars, clientVars, serverVars, Control, Outcomes, Answers, AllocatorTypeOK
<1>13. ASSUME NEW w \in Writes, HandleStray(w) PROVE TypeOK'
  BY <1>13 DEF HandleStray, Broadcast, TypeOK, allocatorVars, clientVars, serverVars, Control, Outcomes, Answers, AllocatorTypeOK
<1>14. ASSUME NEW w \in Writes, Include(w) PROVE TypeOK'
  <2>1. chain' \in NonceStates
    BY <1>14, SpendKeeps DEF Include, TypeOK
  <2> QED BY <1>14, <2>1 DEF Include, TypeOK, allocatorVars, clientVars, serverVars, Control, Outcomes, Answers, AllocatorTypeOK
<1>15. ASSUME NEW w \in Writes, DropFromPool(w) \/ LoseCache(w) PROVE TypeOK'
  BY <1>15 DEF DropFromPool, LoseCache, TypeOK, allocatorVars, clientVars, serverVars, Control, Outcomes, Answers, AllocatorTypeOK
<1>16. ASSUME NEW n \in (chain.base + 1) .. (chain.base + Window), ForeignSpend(n)
       PROVE  TypeOK'
  <2>1. chain' \in NonceStates
    BY <1>16, SpendKeeps, StateFields DEF ForeignSpend, TypeOK
  <2> QED BY <1>16, <2>1 DEF ForeignSpend, TypeOK, allocatorVars, clientVars, serverVars, Control, Outcomes, Answers, AllocatorTypeOK
<1>17. CASE Tick
  <2>1. AllocatorTypeOK'
    BY <1>0, <1>17, ElapseType DEF Tick
  <2> QED BY <1>17, <2>1 DEF Tick, TypeOK, allocatorVars, clientVars, serverVars, Control, Outcomes, Answers
<1>18. CASE UNCHANGED vars
  BY <1>18 DEF vars, TypeOK, allocatorVars, clientVars, serverVars, Control, Outcomes, Answers, AllocatorTypeOK
<1> QED BY <1>1, <1>3, <1>4, <1>5, <1>6, <1>7, <1>8, <1>9, <1>10, <1>11, <1>12, <1>13,
           <1>14, <1>15, <1>16, <1>17, <1>18 DEF Next, Call, Server

\* Every variable keeps its type: in particular the newest state seen is always
\* one the window bounds, and holds are on nonces, whatever the interleaving.
THEOREM TypeCorrect == Spec => []TypeOK
<1> QED BY InitType, TypeStep, PTL DEF Spec

-----------------------------------------------------------------------------
(* The newest state seen *)

\* Only take() changes the newest state, to the one its report leaves.
LEMMA TakeSees ==
  ASSUME NEW w, NEW r, TakeWith(w, r)
  PROVE  latest' = Seen(r)
<1>1. ASSUME NEW n, Take(r, n) PROVE latest' = Seen(r)
  BY <1>1 DEF Take
<1>2. ASSUME TakeFromFullWindow(r) PROVE latest' = Seen(r)
  BY <1>2 DEF TakeFromFullWindow
<1> QED BY <1>1, <1>2 DEF TakeWith

LEMMA LatestStep ==
  ASSUME [Next]_vars
  PROVE  latest' = latest \/ \E w \in Calls : latest' = Seen(report[w])
<1>1. ASSUME NEW w \in Calls, TakeNonce(w) PROVE latest' = Seen(report[w])
  BY <1>1, TakeSees DEF TakeNonce
<1>2. ASSUME NEW w \in Calls, TakeUnread(w) PROVE latest' = latest
  <2>1. CASE TakeWith(w, NoState)
    BY <2>1, TakeSees DEF Seen
  <2> QED BY <1>2, <2>1 DEF TakeUnread, allocatorVars
<1>3. ASSUME NEW w \in Calls, ReadNonceState(w) \/ Register(w) \/ UseParked(w)
        \/ FailUnsent(w) \/ Post(w) \/ AttemptFails(w) \/ ReceiveAnswer(w) \/ Resubmit(w)
      PROVE  latest' = latest
  BY <1>3 DEF ReadNonceState, Register, UseParked, FailUnsent, Post, AttemptFails,
              ReceiveAnswer, Resubmit, Release, Hold, Settle, allocatorVars
<1>4. ASSUME NEW w, HandlePost(w) \/ Server(w) PROVE latest' = latest
  BY <1>4 DEF Server, HandlePost, HandleStray, Include, DropFromPool, LoseCache, allocatorVars
<1>5. ASSUME NEW n, ForeignSpend(n) PROVE latest' = latest
  BY <1>5 DEF ForeignSpend, allocatorVars
<1>6. CASE Tick \/ UNCHANGED vars
  BY <1>6 DEF Tick, Elapse, vars, allocatorVars
<1> QED BY <1>1, <1>2, <1>3, <1>4, <1>5, <1>6 DEF Next, Call

\* refresh() and mergeStates never unlearn a used nonce: no older or base-only
\* answer, whenever it arrives, lowers the base or clears a bit.
THEOREM UsedIsNeverForgotten == Spec => SeenUsedStaysSeen
<1> DEFINE Remembers ==
      latest # NoState =>
        /\ latest' # NoState
        /\ \A n \in 1 .. (latest.base + Window) : IsUsed(latest, n) => IsUsed(latest', n)
<1>1. ASSUME TypeOK, [Next]_vars PROVE Remembers
  <2> SUFFICES ASSUME latest # NoState
               PROVE  /\ latest' # NoState
                      /\ \A n \in Nat : IsUsed(latest, n) => IsUsed(latest', n)
    BY <1>1, AllocatorAssumption, StateFields DEF TypeOK, AllocatorTypeOK
  <2>1. CASE latest' = latest
    BY <2>1
  <2>2. ASSUME NEW w \in Calls, latest' = Seen(report[w])
        PROVE  /\ latest' # NoState
               /\ \A n \in Nat : IsUsed(latest, n) => IsUsed(latest', n)
    BY <1>1, <2>2, SeenKeeps DEF TypeOK, AllocatorTypeOK
  <2> QED BY <1>1, <2>1, <2>2, LatestStep
<1> QED BY <1>1, TypeCorrect, PTL DEF Spec, SeenUsedStaysSeen

-----------------------------------------------------------------------------
(* What is seen used is used, and no nonce is above the window *)

\* The chain's state changes only by spending nonces.
LEMMA ChainStep ==
  ASSUME TypeOK, [Next]_vars
  PROVE  /\ chain.base <= chain'.base
         /\ \A m \in Nat : IsUsed(chain, m) => IsUsed(chain', m)
<1>1. CASE chain' = chain
  BY <1>1, StateFields DEF TypeOK
<1>2. ASSUME NEW n \in Nat, Spend(n)
      PROVE  /\ chain.base <= chain'.base
             /\ \A m \in Nat : IsUsed(chain, m) => IsUsed(chain', m)
  BY <1>2, SpendKeeps DEF TypeOK
<1>3. ASSUME NEW w \in Calls, Call(w) PROVE chain' = chain
  BY <1>3 DEF Call, ReadNonceState, TakeNonce, TakeUnread, TakeWith, Register, UseParked,
              FailUnsent, Post, AttemptFails, ReceiveAnswer, Resubmit, serverVars
<1>4. ASSUME NEW w, HandlePost(w) \/ Server(w) PROVE chain' = chain \/ Spend(nonce[w])
  BY <1>4 DEF Server, HandlePost, HandleStray, Include, DropFromPool, LoseCache
<1>5. ASSUME NEW n \in (chain.base + 1) .. (chain.base + Window), ForeignSpend(n)
      PROVE  Spend(n) /\ n \in Nat
  BY <1>5, StateFields, AllocatorAssumption DEF ForeignSpend, TypeOK
<1>6. ASSUME Tick \/ UNCHANGED vars PROVE chain' = chain
  BY <1>6 DEF Tick, vars, serverVars
<1>7. \A w \in Calls : nonce[w] \in Nat
  BY DEF TypeOK
<1>8. Writes \subseteq Calls
  BY WritesAreCalls
<1> QED BY <1>1, <1>2, <1>3, <1>4, <1>5, <1>6, <1>7, <1>8 DEF Next

\* A sound report stays sound as the chain goes on.
LEMMA SoundStays ==
  ASSUME TypeOK, [Next]_vars, NEW s \in NonceStates \cup {NoState}, SoundState(s, chain)
  PROVE  SoundState(s, chain')
<1>1. CASE s = NoState
  BY <1>1 DEF SoundState
<1>2. CASE s # NoState
  <2>1. s \in NonceStates /\ chain.base \in Nat
    BY <1>2, StateFields DEF TypeOK
  <2>2. s.base \in Nat /\ s.base <= chain.base /\ \A n \in s.used : n \in Nat /\ IsUsed(chain, n)
    BY <1>2, <2>1, StateFields DEF SoundState
  <2>3. chain'.base \in Nat
    BY TypeStep, StateFields DEF TypeOK
  <2> QED BY <2>1, <2>2, <2>3, ChainStep DEF SoundState
<1> QED BY <1>1, <1>2

\* Merging sound states gives a sound state.
LEMMA SeenSound ==
  ASSUME NEW c, SoundState(latest, c), latest \in NonceStates \cup {NoState},
         NEW r \in NonceStates \cup {NoState}, SoundState(r, c)
  PROVE  SoundState(Seen(r), c)
<1>1. CASE r = NoState \/ latest = NoState
  BY <1>1 DEF Seen
<1>2. CASE r # NoState /\ latest # NoState
  <2>1. Seen(r) = MergeStates(latest, r)
    BY <1>2 DEF Seen
  <2>2. MergeStates(latest, r).base <= c.base
    BY <1>2 DEF MergeStates, SoundState
  <2>3. \A n \in MergeStates(latest, r).used : n \in latest.used \/ n \in r.used
    BY DEF MergeStates, UsedAbove
  <2> QED BY <1>2, <2>1, <2>2, <2>3 DEF SoundState
<1> QED BY <1>1, <1>2

\* Only a read gives a write a report, of the chain as it is or of its base.
LEMMA ReportStep ==
  ASSUME TypeOK, [Next]_vars, NEW w \in Calls
  PROVE  \/ report'[w] \in {report[w], NoState}
         \/ \E used \in {chain.used, {}} : report'[w] = [base |-> chain.base, used |-> used]
<1>1. ASSUME NEW v \in Calls, ReadNonceState(v)
      PROVE  \/ report'[w] = report[w]
             \/ \E used \in {chain.used, {}} : report'[w] = [base |-> chain.base, used |-> used]
  BY <1>1 DEF ReadNonceState, TypeOK
<1>2. ASSUME NEW v \in Calls, NEW r, TakeWith(v, r)
      PROVE  report'[w] \in {report[w], NoState}
  BY <1>2 DEF TakeWith, TypeOK
<1>3. ASSUME NEW v \in Calls, Call(v), ~ReadNonceState(v)
      PROVE  report'[w] \in {report[w], NoState}
  BY <1>2, <1>3 DEF Call, TakeNonce, TakeUnread, Register, UseParked, FailUnsent, Post,
                    AttemptFails, ReceiveAnswer, Resubmit
<1>4. ASSUME NEW v, HandlePost(v) \/ Server(v) PROVE report' = report
  BY <1>4 DEF Server, HandlePost, HandleStray, Include, DropFromPool, LoseCache, clientVars
<1>5. ASSUME NEW n, ForeignSpend(n) PROVE report' = report
  BY <1>5 DEF ForeignSpend, clientVars
<1>6. ASSUME Tick \/ UNCHANGED vars PROVE report' = report
  BY <1>6 DEF Tick, vars, clientVars
<1> QED BY <1>1, <1>3, <1>4, <1>5, <1>6 DEF Next

\* The reports in hand and the newest state seen only mark nonces the chain has
\* used, whatever the order reads are answered and merged in.
THEOREM SeenIsSound == Spec => []SeenIsUsed
<1>1. Init => SeenIsUsed
  BY DEF Init, AllocatorInit, SeenIsUsed, SoundState
<1>2. ASSUME TypeOK, SeenIsUsed, [Next]_vars PROVE SeenIsUsed'
  <2>1. SoundState(latest', chain')
    <3>1. latest' \in NonceStates \cup {NoState}
      BY <1>2, TypeStep DEF TypeOK, AllocatorTypeOK
    <3>2. ASSUME NEW w \in Calls PROVE SoundState(Seen(report[w]), chain)
      BY <1>2, SeenSound DEF TypeOK, AllocatorTypeOK, SeenIsUsed
    <3>3. SoundState(latest', chain)
      BY <1>2, <3>2, LatestStep DEF SeenIsUsed
    <3> QED BY <1>2, <3>1, <3>3, SoundStays
  <2>2. ASSUME NEW w \in Calls PROVE SoundState(report'[w], chain')
    <3>1. report'[w] \in NonceStates \cup {NoState}
      BY <1>2, TypeStep DEF TypeOK
    <3>2. \A used \in {chain.used, {}} : SoundState([base |-> chain.base, used |-> used], chain)
      BY <1>2, StateFields DEF TypeOK, SoundState, IsUsed
    <3>3. SoundState(report'[w], chain)
      BY <1>2, <3>2, ReportStep DEF SeenIsUsed, SoundState
    <3> QED BY <1>2, <3>1, <3>3, SoundStays
  <2> QED BY <2>1, <2>2 DEF SeenIsUsed
<1> QED BY <1>1, <1>2, TypeCorrect, PTL DEF Spec

\* A call's nonce is taken from the window of the newest state seen, or is the
\* nonce of a registration or of the call it resubmits.
LEMMA NonceStep ==
  ASSUME TypeOK, [Next]_vars, NEW w \in Calls
  PROVE  \/ nonce'[w] \in {nonce[d] : d \in Calls} \cup {1}
         \/ latest' \in NonceStates /\ nonce'[w] <= latest'.base + Window
<1>1. ASSUME NEW v \in Calls, NEW r \in NonceStates \cup {NoState}, TakeWith(v, r)
      PROVE  \/ nonce'[w] = nonce[w]
             \/ latest' \in NonceStates /\ nonce'[w] <= latest'.base + Window
  <2>1. ASSUME NEW n, Take(r, n), nonce' = [nonce EXCEPT ![v] = n]
        PROVE  \/ nonce'[w] = nonce[w]
               \/ latest' \in NonceStates /\ nonce'[w] <= latest'.base + Window
    <3>1. latest' = Seen(r) /\ Seen(r) \in NonceStates
      BY <2>1, SeenKeeps DEF Take, TypeOK, AllocatorTypeOK
    <3>2. n <= latest'.base + Window
      BY <2>1, <3>1, StateFields, AllocatorAssumption DEF Take, Free
    <3> QED BY <2>1, <3>1, <3>2 DEF TypeOK
  <2> QED BY <1>1, <2>1 DEF TakeWith
<1>2. ASSUME NEW v \in Calls, Register(v) PROVE nonce'[w] \in {nonce[w], 1}
  BY <1>2 DEF Register, TypeOK
<1>3. ASSUME NEW v \in Calls, TakeNonce(v) \/ TakeUnread(v)
      PROVE  \/ nonce'[w] = nonce[w]
             \/ latest' \in NonceStates /\ nonce'[w] <= latest'.base + Window
  BY <1>1, <1>3 DEF TakeNonce, TakeUnread, TypeOK
<1>4. ASSUME NEW v,
             HandlePost(v) \/ Server(v) \/ ReadNonceState(v) \/ UseParked(v) \/ FailUnsent(v)
               \/ Post(v) \/ AttemptFails(v) \/ ReceiveAnswer(v)
      PROVE  nonce' = nonce
  BY <1>4 DEF ReadNonceState, UseParked, FailUnsent, Post, AttemptFails, ReceiveAnswer,
              Server, HandlePost, HandleStray, Include, DropFromPool, LoseCache, clientVars
<1>7. ASSUME NEW v \in Calls, Resubmit(v) PROVE nonce'[w] \in {nonce[d] : d \in Calls}
  BY <1>7 DEF Resubmit, TypeOK
<1>5. ASSUME NEW n, ForeignSpend(n) PROVE nonce' = nonce
  BY <1>5 DEF ForeignSpend, clientVars
<1>6. ASSUME Tick \/ UNCHANGED vars PROVE nonce' = nonce
  BY <1>6 DEF Tick, vars, clientVars
<1> QED BY <1>2, <1>3, <1>4, <1>5, <1>6, <1>7 DEF Next, Call

\* No write is ever signed above the window the chain accepts, even when its
\* nonce was taken from an old or partial read.
THEOREM NeverAboveWindow == Spec => []NonceInWindow
<1>1. Init => NonceInWindow
  BY DEF Init, NonceInWindow
<1>2. ASSUME TypeOK, TypeOK', SeenIsUsed', NonceInWindow, [Next]_vars PROVE NonceInWindow'
  <2> SUFFICES ASSUME NEW w \in Calls, nonce'[w] > 0
               PROVE  nonce'[w] <= chain'.base + Window
    BY DEF NonceInWindow
  <2>1. /\ chain.base \in Nat /\ chain'.base \in Nat /\ chain.base <= chain'.base
        /\ \A d \in Calls : nonce[d] \in Nat /\ nonce'[d] \in Nat
    BY <1>2, ChainStep, StateFields DEF TypeOK
  <2>2. ASSUME NEW d \in Calls, nonce'[w] = nonce[d] PROVE nonce'[w] <= chain'.base + Window
    BY <1>2, <2>1, <2>2, AllocatorAssumption DEF NonceInWindow
  <2>3. CASE nonce'[w] = 1
    BY <2>1, <2>3, AllocatorAssumption
  <2>4. CASE latest' \in NonceStates /\ nonce'[w] <= latest'.base + Window
    <3>1. latest'.base \in Nat /\ latest'.base <= chain'.base
      BY <1>2, <2>4, StateFields, AllocatorAssumption DEF SeenIsUsed, SoundState
    <3> QED BY <2>1, <2>4, <3>1, AllocatorAssumption
  <2> QED BY <1>2, <2>2, <2>3, <2>4, NonceStep
<1> QED BY <1>1, <1>2, TypeCorrect, SeenIsSound, PTL DEF Spec

-----------------------------------------------------------------------------
(* What a refusal says of the write's copies *)

\* No copy of the write has landed or still can.
Gone(w) == w \notin landed \cup pool /\ stray[w] = 0

\* Until a write's first post is answered, or after its refusal, no copy of it
\* is left anywhere, unless it was resubmitted; a retry or a resubmission is
\* marked as a repeat, and only a first post is refused over its nonce.
GoneInv(c) ==
  /\ c \in Resubmissions \/ pc[c] = "sleeping" => repeat[c]
  /\ outcome[c] # "none" => pc[c] = "done"
  /\ outcome[c] = "refusedNonce" => ~repeat[c]
  /\ ~repeat[c] /\ ~SentAgain(c) =>
       /\ pc[c] \in {"idle", "read", "parked", "signed", "posted"} => Gone(c)
       /\ pc[c] = "handled" => stray[c] = 0 /\ (answer[c] # "accepted" => Gone(c))
       /\ Refused(c) => Gone(c)

\* The state of a call, and the copies of its write, that GoneInv reads.
SameCopies(c) ==
  /\ pc'[c] = pc[c] /\ repeat'[c] = repeat[c] /\ outcome'[c] = outcome[c]
  /\ answer'[c] = answer[c]
  /\ c \in Writes /\ ~SentAgain(c)' =>
       /\ ~SentAgain(c) /\ stray'[c] = stray[c]
       /\ c \in (landed \cup pool)' => c \in landed \cup pool

LEMMA SameCopiesGone ==
  ASSUME NEW c \in Calls, GoneInv(c), SameCopies(c)
  PROVE  GoneInv(c)'
<1>1. c \in Writes \/ c \in Resubmissions
  BY DEF Calls
<1> QED BY <1>1 DEF GoneInv, Gone, SameCopies, Refused

\* A call that posts another call's transaction is a resubmission of it.
LEMMA OthersAreRepeats ==
  ASSUME TypeOK, NEW v \in Writes, NEW c \in Calls, c # v, of[c] = v
  PROVE  SentAgain(v)
BY DEF TypeOK, Calls, SentAgain

LEMMA SentAgainStays ==
  ASSUME of' = of, NEW v
  PROVE  SentAgain(v)' <=> SentAgain(v)
BY DEF SentAgain

\* A step of one call leaves every other call, and the copies of a write that
\* was not resubmitted, alone.
LEMMA OthersSame ==
  ASSUME TypeOK, NEW c \in Calls, Call(c) \/ HandlePost(c), NEW v \in Calls, v # c
  PROVE  SameCopies(v)
<1>1. ASSUME NEW u, TakeWith(c, u) PROVE SameCopies(v)
  BY <1>1, SentAgainStays DEF TakeWith, serverVars, SameCopies, TypeOK
<1>2. CASE TakeNonce(c) \/ TakeUnread(c)
  BY <1>1, <1>2, SentAgainStays DEF TakeNonce, TakeUnread, serverVars, SameCopies, TypeOK
<1>3. CASE ReadNonceState(c) \/ Register(c) \/ UseParked(c) \/ FailUnsent(c) \/ Post(c)
           \/ ReceiveAnswer(c)
  BY <1>3, SentAgainStays DEF ReadNonceState, Register, UseParked, FailUnsent, Post,
                             ReceiveAnswer, serverVars, SameCopies, TypeOK
<1>4. CASE AttemptFails(c)
  <2>1. /\ pc'[v] = pc[v] /\ repeat'[v] = repeat[v] /\ outcome'[v] = outcome[v]
        /\ answer'[v] = answer[v] /\ UNCHANGED <<of, landed, pool>>
    BY <1>4 DEF AttemptFails, RetryLater, GiveUp, TypeOK
  <2>2. ASSUME v \in Writes, ~SentAgain(v) PROVE stray'[v] = stray[v]
    BY <1>4, <2>2, OthersAreRepeats DEF AttemptFails, TypeOK
  <2> QED BY <2>1, <2>2, SentAgainStays DEF SameCopies
<1>5. CASE HandlePost(c)
  <2>1. /\ pc'[v] = pc[v] /\ repeat' = repeat /\ outcome' = outcome
        /\ answer'[v] = answer[v] /\ UNCHANGED <<of, landed, stray>>
    BY <1>5 DEF HandlePost, TypeOK
  <2>2. ASSUME v \in Writes, ~SentAgain(v), v \in pool' PROVE v \in pool
    BY <1>5, <2>2, OthersAreRepeats DEF HandlePost, Broadcast
  <2> QED BY <2>1, <2>2, SentAgainStays DEF SameCopies
<1>6. CASE Resubmit(c)
  <2>1. ASSUME v \in Writes, SentAgain(v) PROVE SentAgain(v)'
    <3>1. PICK r \in Resubmissions : of[r] = v
      BY <2>1 DEF SentAgain
    <3>2. r # c
      BY <1>6, <2>1, <3>1, SubmissionAssumption DEF Resubmit, TypeOK
    <3>3. of'[r] = of[r]
      BY <1>6, <3>2 DEF Resubmit, TypeOK, Calls
    <3> QED BY <3>1, <3>3 DEF SentAgain
  <2> QED BY <1>6, <2>1 DEF Resubmit, serverVars, SameCopies, TypeOK
<1> QED BY <1>2, <1>3, <1>4, <1>5, <1>6 DEF Call

\* What a call's own steps leave.
LEMMA CallGone ==
  ASSUME TypeOK, NEW c \in Calls, GoneInv(c), Call(c) \/ HandlePost(c)
  PROVE  GoneInv(c)'
<1> USE DEF TypeOK, GoneInv, Gone, Refused, serverVars
<1>0. ~repeat[c] => c \in Writes /\ of[c] = c
  BY DEF Calls
<1>1. CASE ReadNonceState(c) \/ Register(c) \/ UseParked(c) \/ FailUnsent(c)
  BY <1>1, SentAgainStays DEF ReadNonceState, Register, UseParked, FailUnsent
<1>2. ASSUME NEW r, TakeWith(c, r), pc[c] \in {"idle", "read"} PROVE GoneInv(c)'
  BY <1>2, SentAgainStays DEF TakeWith
<1>3. CASE TakeNonce(c) \/ TakeUnread(c)
  BY <1>2, <1>3, SentAgainStays DEF TakeNonce, TakeUnread
<1>4. CASE Post(c)
  BY <1>4, SentAgainStays DEF Post
<1>5. CASE AttemptFails(c)
  <2>1. outcome[c] = "none"
    BY <1>5 DEF AttemptFails
  <2>2. CASE RetryLater(c)
    BY <1>5, <2>1, <2>2 DEF AttemptFails, RetryLater
  <2>3. CASE GiveUp(c)
    BY <1>5, <2>1, <2>3 DEF AttemptFails, GiveUp
  <2> QED BY <1>5, <2>2, <2>3 DEF AttemptFails
<1>6. CASE ReceiveAnswer(c)
  <2>1. /\ pc'[c] = "done" /\ outcome'[c] = ResultOf(answer[c], repeat[c]) /\ pc[c] = "handled"
        /\ UNCHANGED <<repeat, of, landed, pool, stray>>
    BY <1>6 DEF ReceiveAnswer
  <2>2. outcome'[c] = "refusedNonce" => ~repeat[c]
    BY <2>1 DEF ResultOf
  <2>3. outcome'[c] \in {"refused", "refusedNonce"} => answer[c] # "accepted"
    BY <2>1 DEF ResultOf
  <2> QED BY <2>1, <2>2, <2>3, SentAgainStays
<1>7. CASE Resubmit(c)
  BY <1>7 DEF Resubmit
<1>8. CASE HandlePost(c)
  <2>1. /\ pc[c] = "posted" /\ pc' = [pc EXCEPT ![c] = "handled"]
        /\ UNCHANGED <<repeat, of, outcome, landed, stray>>
    BY <1>8 DEF HandlePost
  <2>2. answer'[c] # "accepted" => pool' = pool
    BY <1>8 DEF HandlePost, Broadcast
  <2> QED BY <1>0, <2>1, <2>2, SentAgainStays
<1> QED BY <1>1, <1>3, <1>4, <1>5, <1>6, <1>7, <1>8 DEF Call

\* What the server's steps on a write leave of it and of the other calls.
LEMMA ServerGone ==
  ASSUME TypeOK, NEW w \in Writes, Server(w), NEW c \in Calls, GoneInv(c)
  PROVE  GoneInv(c)'
<1> USE DEF TypeOK, clientVars
<1>1. CASE HandleStray(w) /\ c = w
  BY <1>1, SentAgainStays DEF HandleStray, GoneInv, Gone, Refused
<1>2. CASE HandleStray(w) /\ c # w
  <2>1. SameCopies(c)
    BY <1>2, SentAgainStays DEF HandleStray, Broadcast, SameCopies
  <2> QED BY <2>1, SameCopiesGone
<1>3. CASE Include(w) \/ DropFromPool(w) \/ LoseCache(w)
  <2>1. SameCopies(c)
    BY <1>3, SentAgainStays DEF Include, DropFromPool, LoseCache, SameCopies
  <2> QED BY <2>1, SameCopiesGone
<1> QED BY <1>1, <1>2, <1>3 DEF Server

LEMMA GoneStep ==
  ASSUME TypeOK, \A c \in Calls : GoneInv(c), [Next]_vars
  PROVE  \A c \in Calls : GoneInv(c)'
<1>1. ASSUME NEW d \in Calls, Call(d) \/ HandlePost(d), NEW c \in Calls PROVE GoneInv(c)'
  <2>1. CASE c = d
    BY <1>1, <2>1, CallGone
  <2>2. CASE c # d
    BY <1>1, <2>2, OthersSame, SameCopiesGone
  <2> QED BY <2>1, <2>2
<1>2. ASSUME NEW w \in Writes, Server(w), NEW c \in Calls PROVE GoneInv(c)'
  BY <1>2, ServerGone
<1>3. ASSUME NEW c \in Calls,
             (\E n \in (chain.base + 1) .. (chain.base + Window) : ForeignSpend(n))
               \/ Tick \/ UNCHANGED vars
      PROVE  GoneInv(c)'
  <2>1. SameCopies(c)
    BY <1>3, SentAgainStays DEF ForeignSpend, Tick, vars, clientVars, serverVars, SameCopies
  <2> QED BY <2>1, SameCopiesGone
<1> QED BY <1>1, <1>2, <1>3 DEF Next

LEMMA GoneInvariant == Spec => [](\A c \in Calls : GoneInv(c))
<1>1. Init => \A c \in Calls : GoneInv(c)
  BY DEF Init, GoneInv, Gone, Refused, Calls
<1>2. TypeOK /\ (\A c \in Calls : GoneInv(c)) /\ [Next]_vars => (\A c \in Calls : GoneInv(c))'
  BY GoneStep
<1> QED BY <1>1, <1>2, TypeCorrect, PTL DEF Spec

\* A write refused on its first post can be signed again under another nonce:
\* no copy of it is in the pool, in a block or on its way, whatever was retried,
\* dropped, forgotten or spent meanwhile (submitTxToApi, settle).
THEOREM RefusedIsGone == Spec => []RefusedFirstPostIsGone
<1>1. (\A c \in Calls : GoneInv(c)) => RefusedFirstPostIsGone
  BY WritesAreCalls DEF GoneInv, Gone, RefusedFirstPostIsGone
<1> QED BY <1>1, GoneInvariant, PTL

\* A call whose write landed is never told its nonce was refused, however often
\* the write was retried or resubmitted (repeatFoundItsNonceTaken).
THEOREM LandedIsNotRefused == Spec => []NonceRefusalNeverHidesLanding
<1>1. ASSUME TypeOK, \A c \in Calls : GoneInv(c) PROVE NonceRefusalNeverHidesLanding
  <2> SUFFICES ASSUME NEW c \in Calls, outcome[c] = "refusedNonce",
                      c \in Writes => ~SentAgain(c)
               PROVE  of[c] \notin landed
    BY DEF NonceRefusalNeverHidesLanding
  <2>1. ~repeat[c] /\ c \in Writes
    BY <1>1 DEF GoneInv, Calls
  <2> QED BY <1>1, <2>1 DEF TypeOK, GoneInv, Gone, Refused
<1> QED BY <1>1, GoneInvariant, TypeCorrect, PTL

-----------------------------------------------------------------------------
(* The writes use the allocator as its specification allows *)

Allocator == INSTANCE AllocatorSpec WITH Reports <- NonceStates, Nonces <- Nat

LEMMA TakeIsAllocators ==
  ASSUME TypeOK, NEW w \in Calls, NEW r \in NonceStates \cup {NoState}, TakeWith(w, r)
  PROVE  Allocator!Next
<1>1. ASSUME NEW n, Take(r, n) PROVE Allocator!Next
  <2>1. n \in Nat
    BY <1>1, TakeType DEF TypeOK
  <2>2. Allocator!Take(r, n)
    BY <1>1 DEF Take, Seen, MergeStates, UsedAbove, Kept, Free, IsUsed, WithHold,
                Allocator!Take, Allocator!Seen, Allocator!MergeStates, Allocator!UsedAbove,
                Allocator!Kept, Allocator!Free, Allocator!IsUsed, Allocator!WithHold
  <2> QED BY <2>1, <2>2 DEF Allocator!Next
<1>2. ASSUME TakeFromFullWindow(r) PROVE Allocator!Next
  <2>1. Allocator!TakeFromFullWindow(r)
    BY <1>2 DEF TakeFromFullWindow, Seen, MergeStates, UsedAbove, Kept, Free, IsUsed,
                Allocator!TakeFromFullWindow, Allocator!Seen, Allocator!MergeStates,
                Allocator!UsedAbove, Allocator!Kept, Allocator!Free, Allocator!IsUsed
  <2> QED BY <2>1 DEF Allocator!Next
<1> QED BY <1>1, <1>2 DEF TakeWith

LEMMA HoldIsAllocators ==
  ASSUME NEW n \in Nat, Hold(n) \/ Release(n)
  PROVE  Allocator!Next
<1>1. Allocator!Hold(n) \/ Allocator!Release(n)
  BY DEF Hold, Release, WithHold, WithoutHold, Allocator!Hold, Allocator!Release,
         Allocator!WithHold, Allocator!WithoutHold
<1> QED BY <1>1 DEF Allocator!Next

\* The calls of the consensus client, the file and the privacy operations,
\* interleaved in any way, are operations of one allocator as AllocatorSpec
\* states it: no step of theirs changes a hold or the newest state otherwise.
\* It is the interface NonceBits is proved to implement.
THEOREM WritesUseTheAllocator == Spec => Allocator!Spec
<1>1. Init => Allocator!AllocatorInit
  BY DEF Init, AllocatorInit, Allocator!AllocatorInit
<1>2. ASSUME TypeOK, [Next]_vars PROVE [Allocator!Next]_(Allocator!allocatorVars)
  <2>1. \A w \in Calls : nonce[w] \in Nat /\ report[w] \in NonceStates \cup {NoState}
    BY <1>2 DEF TypeOK
  <2>2. ASSUME NEW w \in Calls, TakeNonce(w) PROVE Allocator!Next
    BY <1>2, <2>1, <2>2, TakeIsAllocators DEF TakeNonce
  <2>3. ASSUME NEW w \in Calls, TakeUnread(w) PROVE Allocator!Next \/ UNCHANGED allocatorVars
    BY <1>2, <2>3, TakeIsAllocators DEF TakeUnread
  <2>4. ASSUME NEW w \in Calls, FailUnsent(w) \/ Post(w) \/ ReceiveAnswer(w) \/ Resubmit(w)
        PROVE  Allocator!Next \/ UNCHANGED allocatorVars
    BY <2>1, <2>4, HoldIsAllocators DEF FailUnsent, Post, ReceiveAnswer, Resubmit, Settle
  <2>5. ASSUME NEW w,
               ReadNonceState(w) \/ Register(w) \/ UseParked(w) \/ AttemptFails(w)
                 \/ HandlePost(w) \/ Server(w)
        PROVE  UNCHANGED allocatorVars
    BY <2>5 DEF ReadNonceState, Register, UseParked, AttemptFails, Server, HandlePost,
                HandleStray, Include, DropFromPool, LoseCache
  <2>6. ASSUME NEW n, ForeignSpend(n) PROVE UNCHANGED allocatorVars
    BY <2>6 DEF ForeignSpend
  <2>7. ASSUME Tick PROVE Allocator!Next
    <3>1. Allocator!Elapse
      BY <2>7 DEF Tick, Elapse, Allocator!Elapse
    <3> QED BY <3>1 DEF Allocator!Next
  <2>8. ASSUME UNCHANGED vars PROVE UNCHANGED allocatorVars
    BY <2>8 DEF vars
  <2>9. Allocator!Next \/ UNCHANGED allocatorVars
    BY <1>2, <2>2, <2>3, <2>4, <2>5, <2>6, <2>7, <2>8 DEF Next, Call
  <2> QED BY <2>9 DEF allocatorVars, Allocator!allocatorVars
<1> QED BY <1>1, <1>2, TypeCorrect, PTL DEF Spec, Allocator!Spec

-----------------------------------------------------------------------------
(* No two writes in flight share a nonce, for any number of writes, any      *)
(* window, hold time and number of retries.                                  *)

\* What the proof assumes of the use of the SDK: an attempt and the wait after
\* it end before the hold does, no write is resubmitted (resubmit_frees_nonce
\* shows why), and every nonce is taken by the call that posts under it.
OnePass ==
  /\ Patience < HoldTime
  /\ Resubmissions = {}
  /\ CallerWrites = {}
  /\ Managed \cap Registrations = {}

-----------------------------------------------------------------------------
(* What the operations of the allocator do to a guarded nonce *)

LEMMA HoldGuards ==
  ASSUME NEW n, Hold(n), NEW m, NEW age \in Nat, Guarded(taken, latest, m, age)
  PROVE  Guarded(taken', latest', m, age)
BY DEF Hold, WithHold, Guarded

LEMMA HoldGuardsItsNonce ==
  ASSUME NEW n, Hold(n)
  PROVE  Guarded(taken', latest', n, 0)
BY DEF Hold, WithHold, Guarded

LEMMA ReleaseGuards ==
  ASSUME NEW n, Release(n), NEW m, m # n, NEW age, Guarded(taken, latest, m, age)
  PROVE  Guarded(taken', latest', m, age)
BY DEF Release, WithoutHold, Guarded

LEMMA ElapseGuards ==
  ASSUME AllocatorTypeOK, Elapse, NEW m, NEW age \in Nat, age < HoldTime,
         Guarded(taken, latest, m, age)
  PROVE  Guarded(taken', latest', m, age + 1)
BY AllocatorAssumption DEF Elapse, Guarded, AllocatorTypeOK

\* refresh() drops no hold that still guards its nonce.
LEMMA RefreshGuards ==
  ASSUME AllocatorTypeOK, NEW r \in NonceStates \cup {NoState}, Seen(r) # NoState,
         NEW m \in Nat, NEW age \in Nat, age < HoldTime, Guarded(taken, latest, m, age)
  PROVE  Guarded(Kept(Seen(r), taken), Seen(r), m, age)
<1>1. Seen(r) \in NonceStates
  BY SeenKeeps DEF AllocatorTypeOK
<1>2. CASE latest # NoState /\ IsUsed(latest, m)
  BY <1>2, SeenKeeps DEF AllocatorTypeOK, Guarded
<1>3. CASE m \in DOMAIN taken /\ taken[m] <= age
  <2>1. taken[m] < HoldTime
    BY <1>3, AllocatorAssumption DEF AllocatorTypeOK
  <2> QED BY <1>1, <1>3, <2>1, KeptType DEF Guarded
<1> QED BY <1>2, <1>3 DEF Guarded

\* take() hands out no guarded nonce, and guards the one it hands out.
LEMMA TakeGuards ==
  ASSUME AllocatorTypeOK, NEW r \in NonceStates \cup {NoState}, NEW n, Take(r, n)
  PROVE  /\ Guarded(taken', latest', n, 0)
         /\ \A m, age \in Nat :
              age < HoldTime /\ Guarded(taken, latest, m, age) =>
                m # n /\ Guarded(taken', latest', m, age)
<1>1. /\ latest' = Seen(r) /\ Seen(r) # NoState
      /\ taken' = WithHold(Kept(Seen(r), taken), n)
      /\ n \in Free(Seen(r), Kept(Seen(r), taken))
  BY DEF Take
<1>2. ASSUME NEW m \in Nat, NEW age \in Nat, age < HoldTime, Guarded(taken, latest, m, age)
      PROVE  m # n /\ Guarded(taken', latest', m, age)
  <2>1. Guarded(Kept(Seen(r), taken), Seen(r), m, age)
    BY <1>1, <1>2, RefreshGuards
  <2> QED BY <1>1, <2>1 DEF Guarded, Free, WithHold
<1>3. Guarded(taken', latest', n, 0)
  BY <1>1 DEF Guarded, WithHold
<1> QED BY <1>2, <1>3

-----------------------------------------------------------------------------
(* The invariant is inductive *)

LEMMA InitHolds == Init => HoldInvariant
BY DEF Init, HoldInvariant, LiveHolds, Progress, Live, InFlight, Managed, Writes, Calls

\* The two ways a write's take() ends.
LEMMA TakeWithCases ==
  ASSUME NEW w, NEW r, TakeWith(w, r)
  PROVE  \/ \E n : /\ Take(r, n)
                   /\ nonce' = [nonce EXCEPT ![w] = n]
                   /\ pc' = [pc EXCEPT ![w] = IF w \in CallerWrites THEN "parked" ELSE "signed"]
                   /\ outcome' = outcome
         \/ /\ TakeFromFullWindow(r)
            /\ nonce' = nonce
            /\ pc' = [pc EXCEPT ![w] = "done"]
            /\ outcome' = [outcome EXCEPT ![w] = "windowFull"]
BY DEF TakeWith

LEMMA ProgressStep ==
  ASSUME OnePass, TypeOK, Progress, [Next]_vars
  PROVE  Progress'
<1> USE DEF Progress, InFlight
<1>0. /\ Managed \subseteq Writes /\ Writes = Managed \cup Registrations
      /\ CallerWrites = {} /\ Managed \cap Registrations = {}
      /\ Resubmissions = {} /\ Calls = Writes /\ Patience \in Nat
  BY SubmissionAssumption DEF OnePass, Writes, Calls
<1>1. ASSUME NEW w \in Writes, ReadNonceState(w) PROVE Progress'
  BY <1>0, <1>1 DEF ReadNonceState, TypeOK, serverVars
<1>2. ASSUME NEW w \in Writes, NEW r \in NonceStates \cup {NoState},
             pc[w] \in {"idle", "read"}, w \notin Registrations, TakeWith(w, r)
      PROVE  Progress'
  <2>0. waited' = waited /\ pool' = pool /\ stray' = stray
    BY <1>2 DEF TakeWith, serverVars
  <2>1. ASSUME NEW n, Take(r, n), nonce' = [nonce EXCEPT ![w] = n],
               pc' = [pc EXCEPT ![w] = IF w \in CallerWrites THEN "parked" ELSE "signed"],
               outcome' = outcome
        PROVE  Progress'
    <3>1. n \in Nat /\ n > 0
      BY <2>1, TakeType DEF TypeOK
    <3> QED BY <1>0, <1>2, <2>0, <2>1, <3>1 DEF TypeOK
  <2>2. ASSUME nonce' = nonce, pc' = [pc EXCEPT ![w] = "done"],
               outcome' = [outcome EXCEPT ![w] = "windowFull"]
        PROVE  Progress'
    BY <1>0, <1>2, <2>0, <2>2 DEF TypeOK
  <2> QED BY <1>2, <2>1, <2>2, TakeWithCases
<1>3. ASSUME NEW w \in Writes, TakeNonce(w) PROVE Progress'
  BY <1>0, <1>2, <1>3 DEF TakeNonce, TypeOK
<1>4. ASSUME NEW w \in Writes, TakeUnread(w) PROVE Progress'
  <2>1. CASE TakeWith(w, NoState)
    BY <1>0, <1>2, <1>4, <2>1 DEF TakeUnread
  <2>2. CASE ~TakeWith(w, NoState)
    BY <1>0, <1>4, <2>2 DEF TakeUnread, TypeOK, serverVars
  <2> QED BY <2>1, <2>2
<1>5. ASSUME NEW w \in Writes, Register(w) PROVE Progress'
  BY <1>0, <1>5 DEF Register, TypeOK, serverVars
<1>6. ASSUME NEW w \in Writes, UseParked(w) PROVE Progress'
  BY <1>0, <1>6 DEF UseParked, TypeOK, serverVars
<1>7. ASSUME NEW w \in Writes, FailUnsent(w) PROVE Progress'
  BY <1>0, <1>7 DEF FailUnsent, TypeOK, serverVars
<1>8. ASSUME NEW w \in Writes, Post(w) PROVE Progress'
  BY <1>0, <1>8 DEF Post, TypeOK, serverVars
<1>9. ASSUME NEW w \in Writes, AttemptFails(w) PROVE Progress'
  BY <1>0, <1>9 DEF AttemptFails, RetryLater, GiveUp, TypeOK
<1>10. ASSUME NEW w \in Writes, ReceiveAnswer(w) PROVE Progress'
  <2>1. ResultOf(answer[w], repeat[w]) # "unsent"
    BY DEF ResultOf
  <2> QED BY <1>0, <1>10, <2>1 DEF ReceiveAnswer, TypeOK, serverVars
<1>11. ASSUME NEW w \in Writes, Resubmit(w) PROVE FALSE
  BY <1>0, <1>11 DEF Resubmit
<1>12. ASSUME NEW w \in Writes, HandlePost(w) PROVE Progress'
  BY <1>0, <1>12 DEF HandlePost, Broadcast, TypeOK
<1>13. ASSUME NEW w \in Writes, HandleStray(w) PROVE Progress'
  BY <1>0, <1>13 DEF HandleStray, Broadcast, TypeOK, clientVars
<1>14. ASSUME NEW w \in Writes, Include(w) \/ DropFromPool(w) \/ LoseCache(w) PROVE Progress'
  BY <1>0, <1>14 DEF Include, DropFromPool, LoseCache, TypeOK, clientVars
<1>15. ASSUME NEW n, ForeignSpend(n) PROVE Progress'
  BY <1>0, <1>15 DEF ForeignSpend, TypeOK, clientVars
<1>16. CASE Tick
  BY <1>0, <1>16, AllocatorAssumption DEF Tick, TypeOK, serverVars
<1>17. CASE UNCHANGED vars
  BY <1>17 DEF vars, clientVars, serverVars
<1> QED BY <1>1, <1>3, <1>4, <1>5, <1>6, <1>7, <1>8, <1>9, <1>10, <1>11, <1>12, <1>13,
           <1>14, <1>15, <1>16, <1>17, <1>0 DEF Next, Call, Server

\* A step that changes no managed write's nonce and guards every write it leaves
\* live keeps LiveHolds.
LEMMA SameNonces ==
  ASSUME LiveHolds,
         \A v \in Managed :
           nonce'[v] = nonce[v] /\
           (Live(v)' => Live(v) /\ Guarded(taken', latest', nonce[v], waited'[v]))
  PROVE  LiveHolds'
BY DEF LiveHolds, HoldsItsNonce

LEMMA LiveHoldsStep ==
  ASSUME OnePass, TypeOK, HoldInvariant, [Next]_vars
  PROVE  LiveHolds'
<1>0. /\ Managed \subseteq Writes /\ Writes = Managed \cup Registrations
      /\ CallerWrites = {} /\ Managed \cap Registrations = {}
      /\ Resubmissions = {} /\ Calls = Writes /\ Patience \in Nat /\ Patience < HoldTime /\ HoldTime \in Nat \ {0}
      /\ LiveHolds /\ Progress /\ AllocatorTypeOK
      /\ \A v \in Managed : nonce[v] \in Nat /\ waited[v] \in 0 .. HoldTime
  BY SubmissionAssumption, AllocatorAssumption DEF OnePass, Writes, Calls, HoldInvariant, TypeOK
<1>1. ASSUME NEW v \in Managed, Live(v) PROVE Guarded(taken, latest, nonce[v], waited[v])
  BY <1>0, <1>1 DEF LiveHolds, HoldsItsNonce
<1>2. ASSUME NEW v \in Managed, InFlight(v) PROVE Live(v)
  BY <1>0, <1>2 DEF Progress, Live
<1>3. ASSUME UNCHANGED <<allocatorVars, nonce, waited>>,
             \A v \in Managed : outcome'[v] = outcome[v] \/ outcome[v] = "none"
      PROVE  LiveHolds'
  <2>1. \A v \in Managed : Live(v)' => Live(v)
    BY <1>3 DEF Live
  <2> QED BY <1>1, <1>3, <2>1, <1>0, SameNonces DEF allocatorVars
<1>4. ASSUME NEW w \in Writes, NEW r \in NonceStates \cup {NoState},
             pc[w] \in {"idle", "read"}, w \notin Registrations, TakeWith(w, r)
      PROVE  LiveHolds'
  <2>1. waited' = waited /\ w \in Managed /\ nonce[w] = 0 /\ waited[w] = 0
    BY <1>0, <1>4 DEF TakeWith, Progress
  <2>2. ASSUME NEW n, Take(r, n), nonce' = [nonce EXCEPT ![w] = n], outcome' = outcome
        PROVE  LiveHolds'
    <3>1. Guarded(taken', latest', n, 0) /\
          \A v \in Managed :
            Live(v) => nonce[v] # n /\ Guarded(taken', latest', nonce[v], waited[v])
      BY <1>0, <1>1, <2>2, TakeGuards DEF Live
    <3>2. nonce'[w] = n /\ \A v \in Managed \ {w} : nonce'[v] = nonce[v]
      BY <1>0, <2>1, <2>2 DEF TypeOK
    <3>3. \A v \in Managed \ {w} : Live(v)' => Live(v)
      BY <2>1, <2>2, <3>2 DEF Live
    <3>4. ASSUME NEW v \in Managed, Live(v)'
          PROVE  HoldsItsNonce(v)'
      BY <2>1, <3>1, <3>2, <3>3, <3>4 DEF HoldsItsNonce
    <3>5. ASSUME NEW u \in Managed, NEW v \in Managed, u # v, Live(u)', Live(v)'
          PROVE  nonce'[u] # nonce'[v]
      BY <1>0, <3>1, <3>2, <3>3, <3>5 DEF LiveHolds
    <3> QED BY <3>4, <3>5 DEF LiveHolds
  <2>3. ASSUME TakeFromFullWindow(r), nonce' = nonce, outcome' = [outcome EXCEPT ![w] = "windowFull"]
        PROVE  LiveHolds'
    <3>1. latest' = Seen(r) /\ taken' = Kept(Seen(r), taken) /\ Seen(r) # NoState
      BY <2>3 DEF TakeFromFullWindow
    <3>2. ASSUME NEW v \in Managed, Live(v)' PROVE Live(v)
      BY <1>0, <1>4, <2>1, <2>3, <3>2 DEF Live, Progress, TypeOK
    <3>3. ASSUME NEW v \in Managed, Live(v)
          PROVE  Guarded(taken', latest', nonce[v], waited'[v])
      BY <1>0, <1>1, <2>1, <3>1, <3>3, RefreshGuards DEF Live
    <3> QED BY <1>0, <2>3, <3>2, <3>3, SameNonces
  <2> QED BY <1>4, <2>2, <2>3, TakeWithCases
<1>5. ASSUME NEW w \in Writes, InFlight(w), Hold(nonce[w]), nonce' = nonce,
             outcome' = outcome \/ \E o : outcome' = [outcome EXCEPT ![w] = o],
             waited' = [waited EXCEPT ![w] = 0]
      PROVE  LiveHolds'
  <2> SUFFICES ASSUME NEW v \in Managed, Live(v)'
               PROVE  Live(v) /\ Guarded(taken', latest', nonce[v], waited'[v])
    BY <1>0, <1>5, SameNonces
  <2>1. CASE v = w
    BY <1>0, <1>2, <1>5, <2>1, HoldGuardsItsNonce DEF TypeOK
  <2>2. CASE v # w
    <3>1. Live(v) /\ waited'[v] = waited[v]
      BY <1>0, <1>5, <2>2 DEF Live, TypeOK
    <3> QED BY <1>0, <1>1, <1>5, <3>1, HoldGuards
  <2> QED BY <2>1, <2>2
<1>6. ASSUME NEW w \in Managed, InFlight(w), Release(nonce[w]), nonce' = nonce,
             NEW o \in {"refused", "unsent"}, outcome' = [outcome EXCEPT ![w] = o],
             waited' = waited
      PROVE  LiveHolds'
  <2> SUFFICES ASSUME NEW v \in Managed, Live(v)'
               PROVE  Live(v) /\ Guarded(taken', latest', nonce[v], waited'[v])
    BY <1>0, <1>6, SameNonces
  <2>1. v # w
    BY <1>0, <1>6 DEF Live, TypeOK
  <2>2. Live(v) /\ nonce[v] # nonce[w]
    BY <1>0, <1>2, <1>6, <2>1 DEF Live, TypeOK, LiveHolds
  <2> QED BY <1>0, <1>1, <1>6, <2>2, ReleaseGuards
<1>7. ASSUME NEW w \in Writes, ReadNonceState(w) \/ UseParked(w) PROVE LiveHolds'
  BY <1>0, <1>3, <1>7 DEF ReadNonceState, UseParked
<1>8. ASSUME NEW w \in Writes, Register(w) PROVE LiveHolds'
  <2>1. \A v \in Managed : nonce'[v] = nonce[v]
    BY <1>0, <1>8 DEF Register, TypeOK
  <2>2. UNCHANGED <<latest, taken, waited, outcome>>
    BY <1>8 DEF Register, allocatorVars
  <2>3. \A v \in Managed : Live(v)' => Live(v)
    BY <2>1, <2>2 DEF Live
  <2> QED BY <1>0, <1>1, <2>1, <2>2, <2>3, SameNonces
<1>9. ASSUME NEW w \in Writes, TakeNonce(w) PROVE LiveHolds'
  <2>1. w \notin Registrations
    BY <1>0, <1>9 DEF TakeNonce, Progress
  <2> QED BY <1>0, <1>4, <1>9, <2>1 DEF TakeNonce, TypeOK
<1>10. ASSUME NEW w \in Writes, TakeUnread(w) PROVE LiveHolds'
  <2>1. CASE TakeWith(w, NoState)
    BY <1>0, <1>4, <1>10, <2>1 DEF TakeUnread
  <2>2. CASE ~TakeWith(w, NoState)
    <3>1. UNCHANGED <<allocatorVars, nonce, waited>>
      BY <1>10, <2>2 DEF TakeUnread
    <3>2. \A v \in Managed : outcome'[v] = outcome[v] \/ outcome[v] = "none"
      BY <1>0, <1>10, <2>2 DEF TakeUnread, Progress, TypeOK
    <3> QED BY <1>3, <3>1, <3>2
  <2> QED BY <2>1, <2>2
<1>11. ASSUME NEW w \in Writes, FailUnsent(w) PROVE LiveHolds'
  <2>1. CASE w \in Managed
    BY <1>6, <1>11, <2>1 DEF FailUnsent, InFlight
  <2>2. CASE w \notin Managed
    BY <1>0, <1>3, <1>11, <2>2 DEF FailUnsent, TypeOK
  <2> QED BY <2>1, <2>2
<1>12. ASSUME NEW w \in Writes, Post(w) PROVE LiveHolds'
  BY <1>5, <1>12 DEF Post, InFlight
<1>13. ASSUME NEW w \in Writes, AttemptFails(w) PROVE LiveHolds'
  BY <1>0, <1>3, <1>13 DEF AttemptFails, RetryLater, GiveUp, Progress, InFlight, TypeOK
<1>14. ASSUME NEW w \in Writes, ReceiveAnswer(w) PROVE LiveHolds'
  <2> DEFINE result == ResultOf(answer[w], repeat[w])
             settles == w \notin Registrations
             holds == IF settles THEN KeepsNonce(result) ELSE result \in {"accepted", "pending"}
  <2>1. /\ IF settles \/ holds THEN Settle(nonce[w], holds) ELSE UNCHANGED allocatorVars
        /\ waited' = [waited EXCEPT ![w] = IF holds THEN 0 ELSE @]
        /\ outcome' = [outcome EXCEPT ![w] = result]
        /\ nonce' = nonce /\ InFlight(w)
    BY <1>14 DEF ReceiveAnswer, InFlight
  <2>2. result \in {"accepted", "pending", "refused", "refusedNonce"}
    BY DEF ResultOf
  <2>3. settles <=> w \in Managed
    BY <1>0 DEF TypeOK
  <2> HIDE DEF result, settles
  <2>4. CASE holds
    BY <1>5, <2>1, <2>4 DEF Settle
  <2>5. CASE ~holds /\ w \in Managed
    <3>1. Release(nonce[w]) /\ result = "refused"
      BY <2>1, <2>2, <2>3, <2>5 DEF Settle, KeepsNonce
    <3>2. waited' = waited
      BY <2>1, <2>5 DEF TypeOK
    <3> QED BY <1>6, <2>1, <2>5, <3>1, <3>2
  <2>6. CASE ~holds /\ w \notin Managed
    <3>1. UNCHANGED allocatorVars /\ waited' = waited
      BY <2>1, <2>3, <2>6 DEF TypeOK
    <3>2. \A v \in Managed : outcome'[v] = outcome[v]
      BY <1>0, <2>1, <2>6 DEF TypeOK
    <3> QED BY <1>3, <2>1, <3>1, <3>2
  <2> QED BY <2>4, <2>5, <2>6
<1>15. ASSUME NEW w \in Writes, Resubmit(w) PROVE FALSE
  BY <1>0, <1>15 DEF Resubmit
<1>16. ASSUME NEW w, HandlePost(w) \/ Server(w) PROVE LiveHolds'
  BY <1>3, <1>16 DEF Server, HandlePost, HandleStray, Include, DropFromPool, LoseCache, clientVars
<1>17. ASSUME NEW n, ForeignSpend(n) PROVE LiveHolds'
  BY <1>3, <1>17 DEF ForeignSpend, clientVars
<1>18. CASE Tick
  <2> SUFFICES ASSUME NEW v \in Managed, Live(v)'
               PROVE  Live(v) /\ Guarded(taken', latest', nonce[v], waited'[v])
    BY <1>0, <1>18, SameNonces DEF Tick
  <2>1. nonce'[v] = nonce[v] /\ outcome' = outcome /\ waited[v] < HoldTime
        /\ nonce[v] > 0 /\ waited'[v] = waited[v] + 1
    BY <1>0, <1>18 DEF Tick, Live
  <2>2. Live(v)
    BY <2>1 DEF Live
  <2> QED BY <1>0, <1>1, <1>18, <2>1, <2>2, ElapseGuards DEF Tick
<1>19. CASE UNCHANGED vars
  BY <1>3, <1>19 DEF vars, clientVars
<1> QED BY <1>7, <1>8, <1>9, <1>10, <1>11, <1>12, <1>13, <1>14, <1>15, <1>16, <1>17, <1>18,
           <1>19, <1>0 DEF Next, Call

\* Live writes hold their nonces, each its own, at every step.
THEOREM HoldsAreKept ==
  ASSUME OnePass
  PROVE  Spec => []HoldInvariant
<1>1. ASSUME TypeOK, HoldInvariant, [Next]_vars PROVE HoldInvariant'
  BY <1>1, OnePass, ProgressStep, LiveHoldsStep DEF HoldInvariant
<1> QED BY <1>1, InitHolds, TypeCorrect, PTL DEF Spec

-----------------------------------------------------------------------------
(* What follows from it *)

LEMMA InFlightIsLive ==
  ASSUME OnePass, TypeOK, HoldInvariant, NEW w \in Managed, InFlight(w)
  PROVE  Live(w)
<1>1. waited[w] \in Nat /\ Patience \in Nat /\ HoldTime \in Nat
  BY SubmissionAssumption, AllocatorAssumption DEF TypeOK, Writes, Calls
<1> QED BY <1>1 DEF OnePass, HoldInvariant, Progress, Live

\* No two writes in flight share a nonce (the class comment of NonceAllocator).
THEOREM NoNonceIsShared ==
  ASSUME OnePass
  PROVE  Spec => []NoSharedNonce
<1>1. ASSUME TypeOK, HoldInvariant PROVE NoSharedNonce
  BY <1>1, OnePass, InFlightIsLive DEF HoldInvariant, LiveHolds, NoSharedNonce
<1> QED BY <1>1, HoldsAreKept, TypeCorrect, PTL

\* A write in flight keeps its nonce held however long its retries run (README:
\* each send attempt renews the hold).
THEOREM InFlightIsHeld ==
  ASSUME OnePass
  PROVE  Spec => []HeldInFlight
<1>1. ASSUME TypeOK, HoldInvariant PROVE HeldInFlight
  BY <1>1, OnePass, InFlightIsLive DEF HoldInvariant, LiveHolds, Progress, HeldInFlight
<1> QED BY <1>1, HoldsAreKept, TypeCorrect, PTL

\* A write that may still land keeps its nonce for the whole hold, whether its
\* call is running, gave up or came back pending.
THEOREM UnsettledIsHeld ==
  ASSUME OnePass
  PROVE  Spec => []UnsettledKeepsNonce
<1>1. ASSUME TypeOK, HoldInvariant PROVE UnsettledKeepsNonce
  <2> SUFFICES ASSUME NEW w \in Managed, MayStillLand(w), outcome[w] # "refused",
                      waited[w] < HoldTime
               PROVE  HoldsItsNonce(w)
    BY DEF UnsettledKeepsNonce
  <2>1. nonce[w] \in Nat /\ stray[w] \in Nat
    BY <1>1 DEF TypeOK, Writes, Calls
  <2>2. w \in pool \/ stray[w] > 0 \/ pc[w] \in {"posted", "handled"}
    BY <1>1, OnePass DEF MayStillLand, OnePass, Calls, TypeOK
  <2>3. nonce[w] # 0 /\ outcome[w] # "unsent"
    BY <1>1, <2>1, <2>2 DEF HoldInvariant, Progress, InFlight
  <2>4. Live(w)
    BY <2>1, <2>3 DEF Live
  <2> QED BY <1>1, <2>4 DEF HoldInvariant, LiveHolds
<1> QED BY <1>1, HoldsAreKept, TypeCorrect, PTL
=============================================================================
