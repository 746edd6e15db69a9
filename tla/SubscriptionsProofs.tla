------------------------ MODULE SubscriptionsProofs -------------------------
(***************************************************************************)
(* Proofs about Subscriptions and the Indexers below it, for any           *)
(* subscriptions, indexers, requests, lifetimes and limits.                *)
(***************************************************************************)
EXTENDS Subscriptions, FiniteSetTheorems, TLAPS

-----------------------------------------------------------------------------
(* The discovery cache: the inductive invariant *)

FetchType == [state : {"free", "sent", "answered"}, data : SUBSET IndexerDids, age : Nat]

BudgetType == [changes : Nat, evictions : Nat, invalidations : Nat, faults : Nat]

Under(f) == fetch[f].state # "free"

FetchTypeInv ==
  /\ fetch \in [Fetches -> FetchType]
  /\ inflight \in Fetches \cup {NoFetch}
  /\ caller \in [Callers -> {"idle", "waiting", "ready", "failed"}]
  /\ awaits \in [Callers -> Fetches \cup {NoFetch}]
  /\ got = [c \in Callers |-> got[c]]
  /\ registry \subseteq IndexerDids
  /\ budget \in BudgetType

\* What is to be joined is under way, so is what is waited for, and a caller that
\* does not wait awaits nothing.
WaitInv ==
  /\ inflight # NoFetch => Under(inflight)
  /\ \A c \in Callers :
       IF caller[c] = "waiting" THEN awaits[c] \in Fetches /\ Under(awaits[c])
       ELSE awaits[c] = NoFetch

\* Without an invalidation no request is under way but the one to be joined.
OneInv == budget.invalidations = 0 => \A f \in Fetches : Under(f) => f = inflight

FetchInv == FetchTypeInv /\ WaitInv /\ OneInv

LEMMA InitFetchInv == InitIndexers => FetchInv
BY DEF InitIndexers, FetchInv, FetchTypeInv, WaitInv, OneInv, Under, FreeFetch, FetchType, BudgetType

LEMMA ListKeeps ==
  ASSUME FetchInv, NEW c \in Callers, NEW c0, ListWith(c, c0)
  PROVE  FetchInv'
<1> USE IndexersAssumption DEF FetchInv, WaitInv
<1>1. caller[c] = "idle" /\ UNCHANGED <<worldVars, budget>>
  BY DEF ListWith
<1>2. CASE Fresh
  BY <1>1, <1>2 DEF ListWith, worldVars, FetchTypeInv, OneInv, Under
<1>3. CASE ~Fresh /\ Joinable
  BY <1>1, <1>3 DEF ListWith, Joinable, worldVars, FetchTypeInv, OneInv, Under
<1>4. CASE ~Fresh /\ ~Joinable
  <2>1. inflight = NoFetch /\ UNCHANGED got /\ caller' = [caller EXCEPT ![c] = "waiting"]
    BY <1>4 DEF ListWith, Joinable
  <2>2. PICK f \in Fetches :
          /\ fetch[f].state = "free"
          /\ fetch' = [fetch EXCEPT ![f].state = "sent"]
          /\ inflight' = f
          /\ awaits' = [awaits EXCEPT ![c] = f]
    BY <1>4 DEF ListWith
  <2>3. /\ fetch' \in [Fetches -> FetchType]
        /\ \A g \in Fetches : Under(g)' <=> Under(g) \/ g = f
    BY <2>2 DEF FetchTypeInv, FetchType, Under
  <2>4. FetchTypeInv'
    BY <1>1, <2>1, <2>2, <2>3 DEF FetchTypeInv, worldVars
  <2>5. WaitInv'
    BY <1>1, <2>1, <2>2, <2>3 DEF FetchTypeInv
  <2>6. OneInv'
    BY <1>1, <2>1, <2>2, <2>3 DEF OneInv
  <2> QED BY <2>4, <2>5, <2>6
<1> QED BY <1>2, <1>3, <1>4

\* The callers that waited for f go on, the others stay as they were.
LEMMA SettledWakes ==
  ASSUME FetchInv, NEW f \in Fetches, NEW where \in {"ready", "failed"}, NEW data,
         Settled(f, where, data)
  PROVE  /\ fetch' \in [Fetches -> FetchType]
         /\ \A g \in Fetches : Under(g)' <=> Under(g) /\ g # f
         /\ caller' \in [Callers -> {"idle", "waiting", "ready", "failed"}]
         /\ awaits' \in [Callers -> Fetches \cup {NoFetch}]
         /\ got' = [c \in Callers |-> got'[c]]
         /\ \A c \in Callers :
              \/ caller'[c] = caller[c] /\ awaits'[c] = awaits[c] /\ awaits[c] # f
              \/ caller[c] = "waiting" /\ caller'[c] = where /\ awaits'[c] = NoFetch
<1> USE IndexersAssumption DEF FetchInv, FetchTypeInv, Settled
<1>1. fetch' \in [Fetches -> FetchType]
  BY DEF FreeFetch, FetchType
<1>2. \A g \in Fetches : Under(g)' <=> Under(g) /\ g # f
  BY DEF FreeFetch, FetchType, Under
<1>3. \A c \in Callers :
        \/ caller'[c] = caller[c] /\ awaits'[c] = awaits[c] /\ awaits[c] # f
        \/ caller[c] = "waiting" /\ caller'[c] = where /\ awaits'[c] = NoFetch
  BY DEF WaitInv
<1> QED BY <1>1, <1>2, <1>3

LEMMA SettledKeeps ==
  ASSUME FetchInv, NEW f \in Fetches, NEW where \in {"ready", "failed"}, NEW data,
         Settled(f, where, data), Under(f), inflight' = NoFetch,
         UNCHANGED worldVars, budget' \in BudgetType,
         budget'.invalidations = budget.invalidations
  PROVE  FetchInv'
<1> USE IndexersAssumption DEF FetchInv
<1>1. /\ fetch' \in [Fetches -> FetchType]
      /\ \A g \in Fetches : Under(g)' <=> Under(g) /\ g # f
      /\ caller' \in [Callers -> {"idle", "waiting", "ready", "failed"}]
      /\ awaits' \in [Callers -> Fetches \cup {NoFetch}]
      /\ got' = [c \in Callers |-> got'[c]]
      /\ \A c \in Callers :
           \/ caller'[c] = caller[c] /\ awaits'[c] = awaits[c] /\ awaits[c] # f
           \/ caller[c] = "waiting" /\ caller'[c] = where /\ awaits'[c] = NoFetch
  BY SettledWakes
<1>2. FetchTypeInv'
  BY <1>1 DEF FetchTypeInv, worldVars
<1>3. WaitInv'
  BY <1>1 DEF WaitInv
<1>4. OneInv'
  BY <1>1 DEF OneInv
<1> QED BY <1>2, <1>3, <1>4

LEMMA BackgroundKeeps == FetchInv /\ Background => FetchInv'
<1> SUFFICES ASSUME FetchInv, Background PROVE FetchInv'
  OBVIOUS
<1> USE IndexersAssumption DEF FetchInv
<1>1. ASSUME NEW f \in Fetches, FetchResolves(f) PROVE FetchInv'
  <2>1. Settled(f, "ready", fetch[f].data) /\ Under(f)
    BY <1>1 DEF FetchResolves, Under
  <2>2. inflight' = NoFetch /\ UNCHANGED worldVars /\ budget' = budget /\ budget \in BudgetType
    BY <1>1 DEF FetchResolves, FetchTypeInv
  <2> QED BY <2>1, <2>2, SettledKeeps
<1>2. ASSUME NEW f \in Fetches, FetchFails(f) PROVE FetchInv'
  <2>1. Settled(f, "failed", {}) /\ Under(f)
    BY <1>2 DEF FetchFails, Under
  <2>2. inflight' = NoFetch /\ UNCHANGED worldVars
    BY <1>2 DEF FetchFails
  <2>3. budget' \in BudgetType /\ budget'.invalidations = budget.invalidations
    BY <1>2 DEF FetchFails, FetchTypeInv, BudgetType
  <2> QED BY <2>1, <2>2, <2>3, SettledKeeps
<1>3. ASSUME NEW f \in Fetches, ServerAnswers(f) PROVE FetchInv'
  <2>1. /\ fetch' \in [Fetches -> FetchType]
        /\ \A g \in Fetches : Under(g)' <=> Under(g)
    BY <1>3, ZenonT(60) DEF ServerAnswers, FetchTypeInv, FetchType, Under
  <2>2. FetchTypeInv'
    BY <1>3, <2>1 DEF ServerAnswers, FetchTypeInv, worldVars
  <2> QED BY <1>3, <2>1, <2>2 DEF ServerAnswers, WaitInv, OneInv, FetchTypeInv
<1>4. ASSUME NEW d \in IndexerDids, Evict(d) PROVE FetchInv'
  <2>1. budget' \in BudgetType /\ budget'.invalidations = budget.invalidations
    BY <1>4 DEF Evict, FetchTypeInv, BudgetType
  <2> QED BY <1>4, <2>1 DEF Evict, FetchTypeInv, WaitInv, OneInv, Under, worldVars
<1>5. ASSUME NEW d \in IndexerDids, RegistryChanges(d) PROVE FetchInv'
  <2>1. /\ budget' \in BudgetType /\ budget'.invalidations = budget.invalidations
        /\ registry' \subseteq IndexerDids
    BY <1>5 DEF RegistryChanges, FetchTypeInv, BudgetType
  <2> QED BY <1>5, <2>1 DEF RegistryChanges, cacheVars, FetchTypeInv, WaitInv, OneInv, Under
<1>6. ASSUME Invalidate PROVE FetchInv'
  <2>1. budget' \in BudgetType /\ budget'.invalidations # 0
    BY <1>6 DEF Invalidate, FetchTypeInv, BudgetType
  <2> QED BY <1>6, <2>1 DEF Invalidate, FetchTypeInv, WaitInv, OneInv, Under, worldVars
<1> QED BY <1>1, <1>2, <1>3, <1>4, <1>5, <1>6 DEF Background

LEMMA ResumeKeeps ==
  ASSUME FetchInv, NEW c \in Callers, Resume(c)
  PROVE  FetchInv'
<1>1. caller'[c] = "idle" /\ caller[c] # "waiting" /\ \A d \in Callers : d # c => caller'[d] = caller[d]
  BY DEF Resume, FetchInv, FetchTypeInv
<1>2. FetchTypeInv'
  BY DEF Resume, FetchInv, FetchTypeInv, worldVars
<1> QED BY <1>1, <1>2 DEF Resume, FetchInv, WaitInv, OneInv, Under

LEMMA TickIndexersKeeps == FetchInv /\ TickIndexers => FetchInv'
<1> SUFFICES ASSUME FetchInv, TickIndexers PROVE FetchInv'
  OBVIOUS
<1>1. /\ fetch' \in [Fetches -> FetchType]
      /\ \A g \in Fetches : Under(g)' <=> Under(g)
  BY DEF TickIndexers, FetchInv, FetchTypeInv, FetchType, Under
<1>2. FetchTypeInv'
  BY <1>1 DEF TickIndexers, FetchInv, FetchTypeInv
<1> QED BY <1>1, <1>2 DEF TickIndexers, FetchInv, FetchTypeInv, WaitInv, OneInv

LEMMA FetchStutterKeeps == FetchInv /\ UNCHANGED indexerVars => FetchInv'
BY DEF indexerVars, cacheVars, worldVars, FetchInv, FetchTypeInv, WaitInv, OneInv, Under

-----------------------------------------------------------------------------
(* The subscriptions: the inductive invariant *)

SubTypeInv ==
  /\ started \in [Subs -> BOOLEAN] /\ closed \in [Subs -> BOOLEAN] /\ unsub \in [Subs -> BOOLEAN]
  /\ timer = [s \in Subs |-> timer[s]]
  /\ socket \in [Subs -> {"none", "closing", "closed"} \cup LiveSocket]
  /\ completes \in [Subs -> 0 .. 1]

\* Nothing has happened to a subscription that has not begun.
NotBegun(s) ==
  ~TimerSet(s) /\ ~Resolving(s) /\ socket[s] = "none" /\ ~unsub[s] /\ completes[s] = 0

OneLine(s) ==
  /\ ~(TimerSet(s) /\ Resolving(s))
  /\ ~(TimerSet(s) /\ HasSocket(s))
  /\ ~(Resolving(s) /\ HasSocket(s))

\* What keeps a subscription over: closedByClient is set by whatever leaves a
\* socket that is to close, and a close handler that sees it does nothing.
Over(s) ==
  /\ unsub[s] => closed[s] /\ ~TimerSet(s) /\ socket[s] \notin LiveSocket
  /\ socket[s] \in {"ended", "closing"} => closed[s]
  /\ completes[s] = 1 =>
       ~TimerSet(s) /\ ~Resolving(s) /\ socket[s] \notin LiveSocket \ {"ended"}

SubInv(s) == (~started[s] => NotBegun(s)) /\ OneLine(s) /\ Over(s)

SubsInv == SubTypeInv /\ \A s \in Subs : SubInv(s)

SInv == FetchInv /\ SubsInv

\* The parts of a subscription's state that its invariant reads.
SameSub(s) ==
  /\ started'[s] = started[s] /\ closed'[s] = closed[s] /\ unsub'[s] = unsub[s]
  /\ timer'[s] = timer[s] /\ socket'[s] = socket[s] /\ completes'[s] = completes[s]
  /\ Resolving(s)' <=> Resolving(s)

LEMMA SameSubKeeps ==
  ASSUME NEW s \in Subs, SubInv(s), SameSub(s)
  PROVE  SubInv(s)'
BY DEF SameSub, SubInv, NotBegun, OneLine, Over, TimerSet, HasSocket

\* A lookup begins only where none was under way, and ends only by Resume.
LEMMA OthersResolve ==
  ASSUME SInv, NEW s \in IndexerSubs, NEW t \in Subs, t # s,
         \/ \E c0 : ListWith(s, c0)
         \/ Resume(s)
  PROVE  Resolving(t)' <=> Resolving(t)
<1>1. \A c \in Callers : c # s => caller'[c] = caller[c]
  <2>1. ASSUME NEW c0, ListWith(s, c0) PROVE \A c \in Callers : c # s => caller'[c] = caller[c]
    BY <2>1, SubscriptionsAssumption DEF ListWith, SInv, FetchInv, FetchTypeInv
  <2>2. ASSUME Resume(s) PROVE \A c \in Callers : c # s => caller'[c] = caller[c]
    BY <2>2, SubscriptionsAssumption DEF Resume, SInv, FetchInv, FetchTypeInv
  <2> QED BY <2>1, <2>2
<1> QED BY <1>1, SubscriptionsAssumption DEF Resolving, Subs

LEMMA InitSInv == InitSubscriptions => SInv
<1> SUFFICES ASSUME InitSubscriptions PROVE SInv
  OBVIOUS
<1>1. FetchInv
  BY InitFetchInv DEF InitSubscriptions
<1>2. SubTypeInv
  BY DEF InitSubscriptions, SubTypeInv, LiveSocket
<1>3. ASSUME NEW s \in Subs PROVE SubInv(s)
  BY <1>3, SubscriptionsAssumption
     DEF InitSubscriptions, InitIndexers, SubInv, NotBegun, OneLine, Over, TimerSet,
         HasSocket, Resolving, LiveSocket, Subs
<1> QED BY <1>1, <1>2, <1>3 DEF SInv, SubsInv

-----------------------------------------------------------------------------
(* Each step keeps it *)

\* The background of a subscription neither starts a lookup nor ends one.
LEMMA BackgroundResolves ==
  ASSUME FetchInv, Background, NEW c \in Callers
  PROVE  caller'[c] = "idle" <=> caller[c] = "idle"
<1>1. ASSUME NEW f \in Fetches, FetchResolves(f) PROVE caller'[c] = "idle" <=> caller[c] = "idle"
  BY <1>1, SettledWakes DEF FetchResolves
<1>2. ASSUME NEW f \in Fetches, FetchFails(f) PROVE caller'[c] = "idle" <=> caller[c] = "idle"
  BY <1>2, SettledWakes DEF FetchFails
<1> QED BY <1>1, <1>2 DEF Background, ServerAnswers, Evict, RegistryChanges, cacheVars, Invalidate

LEMMA StepOfOne ==
  ASSUME SInv, NEW s \in Subs, FetchInv', SubTypeInv', SubInv(s)',
         \A t \in Subs : t # s => SameSub(t)
  PROVE  SInv'
<1>1. ASSUME NEW t \in Subs PROVE SubInv(t)'
  BY SameSubKeeps DEF SInv, SubsInv
<1> QED BY <1>1 DEF SInv, SubsInv

\* The connection is opened of a subscription with nothing else under way.
LEMMA OpenConnectionKeeps ==
  ASSUME SInv, NEW s \in Subs, OpenConnection(s),
         UNCHANGED <<closed, unsub, completes>>,
         started' = [started EXCEPT ![s] = TRUE], timer' = [timer EXCEPT ![s] = NoTimer],
         completes[s] = 0, ~unsub[s], ~HasSocket(s), ~Resolving(s)
  PROVE  SInv'
<1> USE DEF SInv, SubsInv
<1>1. SubTypeInv'
  BY DEF OpenConnection, WireSocket, SubTypeInv, LiveSocket
<1>2. CASE s \in ValidatorSubs /\ WireSocket(s, NoDid) /\ UNCHANGED indexerVars
  <2>1. FetchInv'
    BY <1>2, FetchStutterKeeps
  <2>2. \A t \in Subs : Resolving(t)' <=> Resolving(t)
    BY <1>2 DEF indexerVars, cacheVars, Resolving
  <2>3. ASSUME NEW t \in Subs, t # s PROVE SameSub(t)
    BY <1>2, <2>2, <2>3 DEF WireSocket, SubTypeInv, SameSub
  <2>4. timer'[s] = NoTimer /\ (socket'[s] = socket[s] \/ socket'[s] = "connecting")
    BY <1>2 DEF WireSocket, SubTypeInv
  <2>5. SubInv(s)'
    BY <2>2, <2>4 DEF SubTypeInv, SubInv, OneLine, Over, TimerSet, HasSocket, LiveSocket
  <2> QED BY <1>1, <2>1, <2>3, <2>5, StepOfOne
<1>3. CASE s \in IndexerSubs /\ ListWith(s, CacheAfterLoss(s)) /\ UNCHANGED socket
  <2>1. FetchInv'
    BY <1>3, ListKeeps, SubscriptionsAssumption
  <2>2. ASSUME NEW t \in Subs, t # s PROVE SameSub(t)
    <3>1. Resolving(t)' <=> Resolving(t)
      BY <1>3, <2>2, OthersResolve
    <3> QED BY <1>3, <2>2, <3>1 DEF SubTypeInv, SameSub
  <2>3. timer'[s] = NoTimer /\ started'[s] = TRUE /\ socket'[s] = socket[s]
    BY <1>3 DEF SubTypeInv
  <2>4. SubInv(s)'
    BY <2>3 DEF SubInv, OneLine, Over, TimerSet, HasSocket, LiveSocket, SubTypeInv
  <2> QED BY <1>1, <2>1, <2>2, <2>4, StepOfOne
<1> QED BY <1>2, <1>3 DEF OpenConnection

LEMMA SubscribeKeeps ==
  ASSUME SInv, NEW s \in Subs, Subscribe(s)
  PROVE  SInv'
<1>1. NotBegun(s)
  BY DEF SInv, SubsInv, SubInv, Subscribe
<1>2. timer' = [timer EXCEPT ![s] = NoTimer]
  BY <1>1 DEF SInv, SubsInv, SubTypeInv, NotBegun, TimerSet, Subscribe
<1>3. ~HasSocket(s)
  BY <1>1 DEF NotBegun, HasSocket, LiveSocket
<1> QED BY <1>1, <1>2, <1>3, OpenConnectionKeeps DEF NotBegun, Subscribe

LEMMA ReconnectKeeps ==
  ASSUME SInv, NEW s \in Subs, Reconnect(s)
  PROVE  SInv'
<1>1. TimerSet(s)
  BY SubscriptionsAssumption DEF TimerSet, Reconnect
<1>2. completes[s] = 0 /\ ~unsub[s] /\ ~HasSocket(s) /\ ~Resolving(s) /\ started[s]
  BY <1>1 DEF SInv, SubsInv, SubTypeInv, SubInv, NotBegun, OneLine, Over
<1>3. started' = [started EXCEPT ![s] = TRUE]
  BY <1>2 DEF SInv, SubsInv, SubTypeInv, Reconnect
<1> QED BY <1>2, <1>3, OpenConnectionKeeps DEF Reconnect

\* What a lookup's answer finds: nothing else under way.
LEMMA LookupAlone ==
  ASSUME SInv, NEW s \in IndexerSubs, Resume(s)
  PROVE  /\ started[s] /\ ~TimerSet(s) /\ ~HasSocket(s) /\ completes[s] = 0
         /\ ~Resolving(s)' /\ FetchInv'
<1>1. Resolving(s) /\ ~Resolving(s)'
  BY SubscriptionsAssumption DEF Resume, Resolving, SInv, FetchInv, FetchTypeInv
<1>2. FetchInv'
  BY ResumeKeeps, SubscriptionsAssumption DEF SInv
<1> QED BY <1>1, <1>2 DEF SInv, SubsInv, SubTypeInv, SubInv, NotBegun, OneLine, Over, Subs

LEMMA ConnectToBestKeeps ==
  ASSUME SInv, NEW s \in IndexerSubs, ConnectToBest(s)
  PROVE  SInv'
<1> USE DEF SInv, SubsInv
<1>1. PICK d : WireSocket(s, d)
  BY DEF ConnectToBest
<1>2. Resume(s) /\ s \in Subs /\ UNCHANGED <<started, closed, timer, completes, unsub>>
  BY DEF ConnectToBest, Subs
<1>3. SubTypeInv'
  BY <1>1, <1>2 DEF WireSocket, SubTypeInv, LiveSocket
<1>4. ASSUME NEW t \in Subs, t # s PROVE SameSub(t)
  <2>1. Resolving(t)' <=> Resolving(t)
    BY <1>2, <1>4, OthersResolve
  <2> QED BY <1>1, <1>2, <1>4, <2>1 DEF WireSocket, SubTypeInv, SameSub
<1>5. SubInv(s)'
  <2>1. \/ closed[s] /\ socket'[s] = socket[s]
        \/ ~closed[s] /\ socket'[s] = "connecting"
    BY <1>1, <1>2 DEF WireSocket, SubTypeInv
  <2> QED BY <1>2, <2>1, LookupAlone DEF SubTypeInv, SubInv, OneLine, Over, TimerSet, HasSocket, LiveSocket
<1> QED BY <1>2, <1>3, <1>4, <1>5, LookupAlone, StepOfOne

\* scheduleReconnect sets one timer or ends the subscription.
LEMMA ScheduleDoes ==
  ASSUME SubTypeInv, NEW s \in Subs, ScheduleReconnect(s), completes[s] = 0
  PROVE  /\ timer' = [t \in Subs |-> timer'[t]] /\ completes' \in [Subs -> 0 .. 1]
         /\ \A t \in Subs : t # s => timer'[t] = timer[t] /\ completes'[t] = completes[t]
         /\ \/ GivesUp(s) /\ timer'[s] = timer[s] /\ completes'[s] = 1
            \/ ~GivesUp(s) /\ completes'[s] = 0
BY DEF ScheduleReconnect, SubTypeInv

LEMMA NoIndexerFoundKeeps ==
  ASSUME SInv, NEW s \in IndexerSubs, NoIndexerFound(s)
  PROVE  SInv'
<1> USE DEF SInv, SubsInv
<1>1. /\ Resume(s) /\ s \in Subs /\ UNCHANGED <<started, socket, unsub>>
      /\ ScheduleReconnect(s) /\ closed' = [closed EXCEPT ![s] = @ \/ s \in NoReconnect]
  BY DEF NoIndexerFound, Subs
<1>2. /\ started[s] /\ ~TimerSet(s) /\ ~HasSocket(s) /\ completes[s] = 0
      /\ ~Resolving(s)' /\ FetchInv'
  BY <1>1, LookupAlone
<1>3. /\ timer' = [t \in Subs |-> timer'[t]] /\ completes' \in [Subs -> 0 .. 1]
      /\ \A t \in Subs : t # s => timer'[t] = timer[t] /\ completes'[t] = completes[t]
      /\ \/ GivesUp(s) /\ timer'[s] = timer[s] /\ completes'[s] = 1
         \/ ~GivesUp(s) /\ completes'[s] = 0
  BY <1>1, <1>2, ScheduleDoes
<1>4. closed' \in [Subs -> BOOLEAN]
  BY <1>1 DEF SubTypeInv
<1>5. SubTypeInv'
  BY <1>1, <1>3, <1>4 DEF SubTypeInv
<1>6. ASSUME NEW t \in Subs, t # s PROVE SameSub(t)
  <2>1. Resolving(t)' <=> Resolving(t)
    BY <1>1, <1>6, OthersResolve
  <2> QED BY <1>1, <1>3, <1>6, <2>1 DEF SubTypeInv, SameSub
<1>7. SubInv(s)'
  <2>1. closed[s] => closed'[s] /\ GivesUp(s)
    BY <1>1 DEF GivesUp, SubTypeInv
  <2>2. unsub[s] => closed[s]
    BY <1>1 DEF SubInv, Over
  <2>3. started'[s] /\ socket'[s] = socket[s] /\ (unsub'[s] <=> unsub[s]) /\ ~HasSocket(s)'
    BY <1>1, <1>2 DEF HasSocket
  <2>4. OneLine(s)'
    BY <1>2, <2>3 DEF OneLine
  <2>5. socket[s] \notin LiveSocket /\ socket[s] \notin {"ended", "closing"}
    BY <1>2 DEF HasSocket, LiveSocket
  <2>6. Over(s)'
    BY <1>2, <1>3, <2>1, <2>2, <2>3, <2>5 DEF Over, TimerSet
  <2> QED BY <2>3, <2>4, <2>6 DEF SubInv
<1> QED BY <1>1, <1>2, <1>5, <1>6, <1>7, StepOfOne

LEMMA StillResolving ==
  ASSUME NEW s \in Subs, UNCHANGED indexerVars
  PROVE  Resolving(s)' <=> Resolving(s)
BY DEF indexerVars, cacheVars, Resolving

LEMMA UnsubscribeKeeps ==
  ASSUME SInv, NEW s \in Subs, Unsubscribe(s)
  PROVE  SInv'
<1> USE DEF SInv, SubsInv
<1>1. /\ UNCHANGED <<indexerVars, started, completes>> /\ started[s]
      /\ unsub' = [unsub EXCEPT ![s] = TRUE] /\ closed' = [closed EXCEPT ![s] = TRUE]
      /\ timer' = [timer EXCEPT ![s] = NoTimer]
      /\ socket' = [socket EXCEPT ![s] = IF @ \in LiveSocket THEN "closing" ELSE @]
  BY DEF Unsubscribe
<1>2. FetchInv'
  BY <1>1, FetchStutterKeeps
<1>3. SubTypeInv'
  BY <1>1 DEF SubTypeInv
<1>4. ASSUME NEW t \in Subs, t # s PROVE SameSub(t)
  BY <1>1, <1>4, StillResolving DEF SubTypeInv, SameSub
<1>5. SubInv(s)'
  <2>1. /\ closed'[s] /\ timer'[s] = NoTimer /\ (Resolving(s)' <=> Resolving(s))
        /\ socket'[s] \notin LiveSocket /\ (HasSocket(s)' <=> HasSocket(s))
    BY <1>1, StillResolving DEF SubTypeInv, LiveSocket, HasSocket
  <2> QED BY <1>1, <2>1 DEF SubInv, OneLine, Over, TimerSet
<1> QED BY <1>2, <1>3, <1>4, <1>5, StepOfOne

\* A socket that opens, or whose server acknowledges or completes.
LEMMA SocketGoesOn ==
  ASSUME SInv, NEW s \in Subs, NEW to \in {"open", "acked"},
         socket[s] \in {"connecting", "open"}, socket' = [socket EXCEPT ![s] = to],
         UNCHANGED <<indexerVars, started, closed, timer, completes, unsub>>
  PROVE  SInv'
<1> USE DEF SInv, SubsInv
<1>1. FetchInv'
  BY FetchStutterKeeps
<1>2. SubTypeInv'
  BY DEF SubTypeInv, LiveSocket
<1>3. ASSUME NEW t \in Subs, t # s PROVE SameSub(t)
  BY <1>3, StillResolving DEF SubTypeInv, SameSub
<1>4. SubInv(s)'
  <2>1. socket'[s] = to /\ (Resolving(s)' <=> Resolving(s))
    BY StillResolving DEF SubTypeInv
  <2> QED BY <2>1 DEF SubInv, NotBegun, OneLine, Over, TimerSet, HasSocket, LiveSocket
<1> QED BY <1>1, <1>2, <1>3, <1>4, StepOfOne

LEMMA ServerCompletesKeeps ==
  ASSUME SInv, NEW s \in Subs, ServerCompletes(s)
  PROVE  SInv'
<1> USE DEF SInv, SubsInv
<1>1. /\ UNCHANGED <<indexerVars, started, timer, unsub>> /\ socket[s] = "acked"
      /\ closed' = [closed EXCEPT ![s] = TRUE] /\ socket' = [socket EXCEPT ![s] = "ended"]
      /\ completes' = [completes EXCEPT ![s] = @ + 1]
  BY DEF ServerCompletes
<1>2. completes[s] = 0 /\ ~unsub[s] /\ started[s] /\ ~TimerSet(s) /\ ~Resolving(s)
  BY <1>1 DEF SubTypeInv, SubInv, NotBegun, OneLine, Over, HasSocket, LiveSocket
<1>3. FetchInv'
  BY <1>1, FetchStutterKeeps
<1>4. SubTypeInv'
  BY <1>1, <1>2 DEF SubTypeInv, LiveSocket
<1>5. ASSUME NEW t \in Subs, t # s PROVE SameSub(t)
  BY <1>1, <1>5, StillResolving DEF SubTypeInv, SameSub
<1>6. SubInv(s)'
  <2>1. socket'[s] = "ended" /\ closed'[s] /\ ~Resolving(s)' /\ timer'[s] = timer[s]
    BY <1>1, <1>2, StillResolving DEF SubTypeInv
  <2> QED BY <1>1, <1>2, <2>1 DEF SubInv, OneLine, Over, TimerSet, LiveSocket
<1> QED BY <1>3, <1>4, <1>5, <1>6, StepOfOne

LEMMA ClosesKeeps ==
  ASSUME SInv, NEW s \in Subs, Closes(s)
  PROVE  SInv'
<1> USE DEF SInv, SubsInv
<1>1. /\ UNCHANGED <<indexerVars, started, closed, unsub>> /\ HasSocket(s)
      /\ socket' = [socket EXCEPT ![s] = "closed"] /\ OnClose(s)
  BY DEF Closes, HasSocket
<1>2. started[s] /\ ~TimerSet(s) /\ ~Resolving(s)
  BY <1>1 DEF SubInv, NotBegun, OneLine, HasSocket, LiveSocket
<1>3. FetchInv'
  BY <1>1, FetchStutterKeeps
<1>4. socket'[s] = "closed" /\ ~Resolving(s)'
  BY <1>1, <1>2, StillResolving DEF SubTypeInv
<1>5. \A t \in Subs : t # s => (Resolving(t)' <=> Resolving(t)) /\ socket'[t] = socket[t]
  BY <1>1, StillResolving DEF SubTypeInv
<1>6. CASE closed[s] /\ UNCHANGED <<completes, timer>>
  <2>1. SubTypeInv'
    BY <1>1, <1>6 DEF SubTypeInv
  <2>2. ASSUME NEW t \in Subs, t # s PROVE SameSub(t)
    BY <1>1, <1>5, <1>6, <2>2 DEF SameSub
  <2>3. SubInv(s)'
    BY <1>1, <1>2, <1>4, <1>6 DEF SubInv, OneLine, Over, TimerSet, HasSocket, LiveSocket
  <2> QED BY <1>3, <2>1, <2>2, <2>3, StepOfOne
<1>7. CASE ~closed[s] /\ ScheduleReconnect(s)
  <2>1. completes[s] = 0 /\ ~unsub[s]
    BY <1>1, <1>7 DEF SubTypeInv, SubInv, Over, HasSocket, LiveSocket
  <2>2. /\ timer' = [t \in Subs |-> timer'[t]] /\ completes' \in [Subs -> 0 .. 1]
        /\ \A t \in Subs : t # s => timer'[t] = timer[t] /\ completes'[t] = completes[t]
        /\ \/ timer'[s] = timer[s] /\ completes'[s] = 1
           \/ completes'[s] = 0
    BY <1>7, <2>1, ScheduleDoes
  <2>3. SubTypeInv'
    BY <1>1, <2>2 DEF SubTypeInv
  <2>4. ASSUME NEW t \in Subs, t # s PROVE SameSub(t)
    BY <1>1, <1>5, <2>2, <2>4 DEF SameSub
  <2>5. SubInv(s)'
    BY <1>1, <1>2, <1>4, <2>1, <2>2 DEF SubInv, OneLine, Over, TimerSet, HasSocket, LiveSocket
  <2> QED BY <1>3, <2>3, <2>4, <2>5, StepOfOne
<1> QED BY <1>1, <1>6, <1>7 DEF OnClose

LEMMA TickKeeps == SInv /\ Tick => SInv'
<1> SUFFICES ASSUME SInv, Tick PROVE SInv'
  OBVIOUS
<1> USE DEF SInv, SubsInv
<1>1. FetchInv'
  BY TickIndexersKeeps DEF Tick
<1>2. UNCHANGED <<started, closed, socket, completes, unsub, caller>>
  BY DEF Tick, TickIndexers
<1>3. SubTypeInv'
  BY <1>2 DEF Tick, SubTypeInv
<1>4. ASSUME NEW s \in Subs PROVE SubInv(s)'
  <2>1. TimerSet(s)' => TimerSet(s)
    BY DEF Tick, TimerSet
  <2>2. (Resolving(s)' <=> Resolving(s)) /\ (HasSocket(s)' <=> HasSocket(s))
    BY <1>2 DEF Resolving, HasSocket
  <2> QED BY <1>2, <2>1, <2>2 DEF SubInv, NotBegun, OneLine, Over
<1> QED BY <1>1, <1>3, <1>4

LEMMA BackgroundStepKeeps == SInv /\ Background /\ UNCHANGED <<subVars, down, uses>> => SInv'
<1> SUFFICES ASSUME SInv, Background, UNCHANGED subVars PROVE SInv'
  OBVIOUS
<1> USE DEF SInv, SubsInv, subVars
<1>1. FetchInv'
  BY BackgroundKeeps
<1>2. SubTypeInv'
  BY DEF SubTypeInv
<1>3. ASSUME NEW s \in Subs PROVE SubInv(s)'
  <2>1. Resolving(s)' <=> Resolving(s)
    BY BackgroundResolves, SubscriptionsAssumption DEF Resolving
  <2> QED BY <2>1, SameSubKeeps DEF SameSub
<1> QED BY <1>1, <1>2, <1>3

LEMMA SubsStutterKeeps == SInv /\ UNCHANGED <<indexerVars, subVars>> => SInv'
<1> SUFFICES ASSUME SInv, UNCHANGED <<indexerVars, subVars>> PROVE SInv'
  OBVIOUS
<1>1. FetchInv' /\ SubTypeInv'
  BY FetchStutterKeeps DEF SInv, SubsInv, subVars, SubTypeInv
<1>2. ASSUME NEW s \in Subs PROVE SubInv(s)'
  BY StillResolving, SameSubKeeps DEF SInv, SubsInv, subVars, SameSub
<1> QED BY <1>1, <1>2 DEF SInv, SubsInv

LEMMA SInvStep == SInv /\ [NextSubscriptions]_vars => SInv'
<1> SUFFICES ASSUME SInv, [NextSubscriptions]_vars PROVE SInv'
  OBVIOUS
<1>1. ASSUME NEW s \in Subs, Step(s) PROVE SInv'
  <2>1. CASE Subscribe(s)
    BY <2>1, SubscribeKeeps
  <2>2. CASE Reconnect(s)
    BY <2>2, ReconnectKeeps
  <2>3. CASE Unsubscribe(s)
    BY <2>3, UnsubscribeKeeps
  <2>4. CASE Acknowledged(s)
    BY <2>4, SocketGoesOn DEF Acknowledged
  <2>5. CASE ServerCompletes(s)
    BY <2>5, ServerCompletesKeeps
  <2>6. CASE Opens(s)
    BY <2>6, SocketGoesOn DEF Opens
  <2>7. CASE Closes(s)
    BY <2>7, ClosesKeeps
  <2> QED BY <1>1, <2>1, <2>2, <2>3, <2>4, <2>5, <2>6, <2>7 DEF Step
<1>2. ASSUME NEW s \in IndexerSubs, ConnectToBest(s) \/ NoIndexerFound(s) PROVE SInv'
  BY <1>2, ConnectToBestKeeps, NoIndexerFoundKeeps
<1>3. CASE Background /\ UNCHANGED <<subVars, down, uses>>
  BY <1>3, BackgroundStepKeeps
<1>4. ASSUME NEW d \in IndexerDids, GoesDown(d) \/ ComesBack(d) PROVE SInv'
  BY <1>4, SubsStutterKeeps DEF GoesDown, ComesBack
<1>5. CASE Tick
  BY <1>5, TickKeeps
<1>6. CASE UNCHANGED vars
  BY <1>6, SubsStutterKeeps DEF vars
<1> QED BY <1>1, <1>2, <1>3, <1>4, <1>5, <1>6 DEF NextSubscriptions

LEMMA SInvariant == SubscriptionsSpec => []SInv
BY InitSInv, SInvStep, PTL DEF SubscriptionsSpec

-----------------------------------------------------------------------------
(* How stale an answer may be: the inductive invariant *)

\* The indexers of data that are no longer listed left at most n ticks ago.
LeftWithin(data, n) == \A d \in data \ registry : gone[d] <= n

CacheType == [data : SUBSET IndexerDids, age : 0 .. CacheTtl]

\* A cache's entries were listed at most a request before it was filled.
CacheAged(c) == c = NoCache \/ (c \in CacheType /\ LeftWithin(c.data, HttpTimeout + c.age))

\* An answer under way is no older than its request, and one that is being used
\* comes from a cache in time, or from a request.
AgeInv ==
  /\ gone \in [IndexerDids -> 0 .. Horizon]
  /\ CacheAged(cache)
  /\ \A f \in Fetches :
       /\ fetch[f].age <= HttpTimeout
       /\ fetch[f].state = "answered" => LeftWithin(fetch[f].data, fetch[f].age)
  /\ \A c \in Callers : caller[c] = "ready" =>
       got[c] \subseteq IndexerDids /\ \A d \in got[c] \ registry : gone[d] < Horizon

LEMMA InitAgeInv == InitIndexers => AgeInv
BY IndexersAssumption DEF InitIndexers, AgeInv, CacheAged, LeftWithin, FreeFetch, Horizon

\* An eviction leaves the cache as old as it was.
LEMMA EvictedIsAged ==
  ASSUME AgeInv, NEW d
  PROVE  /\ CacheAged(WithoutIndexer(d))
         /\ cache # NoCache => WithoutIndexer(d).data \subseteq cache.data
<1>1. CASE cache = NoCache
  BY <1>1 DEF WithoutIndexer, CacheAged
<1>2. CASE cache # NoCache
  <2>1. cache \in CacheType /\ LeftWithin(cache.data, HttpTimeout + cache.age)
    BY <1>2 DEF AgeInv, CacheAged
  <2>2. /\ WithoutIndexer(d) \in CacheType
        /\ WithoutIndexer(d).data = cache.data \ {d} /\ WithoutIndexer(d).age = cache.age
    BY <1>2, <2>1 DEF WithoutIndexer, CacheType
  <2> QED BY <2>1, <2>2 DEF CacheAged, LeftWithin
<1> QED BY <1>1, <1>2

LEMMA ListAges ==
  ASSUME FetchInv, AgeInv, NEW c \in Callers, NEW c0, ListWith(c, c0), CacheAged(c0),
         cache # NoCache => c0.data \subseteq cache.data
  PROVE  AgeInv'
<1> USE IndexersAssumption DEF FetchInv, FetchTypeInv
<1>1. UNCHANGED <<registry, gone>> /\ CacheAged(cache)'
  BY DEF ListWith, worldVars, CacheAged, LeftWithin
<1>2. CASE Fresh
  <2>1. UNCHANGED fetch /\ caller' = [caller EXCEPT ![c] = "ready"] /\ got' = [got EXCEPT ![c] = c0.data]
    BY <1>2 DEF ListWith
  <2>2. \A d \in c0.data : d \in cache.data
    BY <1>2 DEF Fresh
  <2>3. cache \in CacheType /\ cache.age < CacheTtl /\ LeftWithin(cache.data, HttpTimeout + cache.age)
    BY <1>2 DEF Fresh, AgeInv, CacheAged
  <2>4. c0.data \subseteq IndexerDids
    BY <2>2, <2>3 DEF CacheType
  <2>5. \A d \in c0.data \ registry : gone[d] < Horizon
    BY <2>2, <2>3, <2>4 DEF CacheType, LeftWithin, Horizon, AgeInv
  <2> QED BY <1>1, <2>1, <2>4, <2>5 DEF AgeInv, LeftWithin
<1>3. CASE ~Fresh /\ Joinable
  BY <1>1, <1>3 DEF ListWith, AgeInv, LeftWithin
<1>4. CASE ~Fresh /\ ~Joinable
  <2>1. UNCHANGED got /\ caller' = [caller EXCEPT ![c] = "waiting"]
    BY <1>4 DEF ListWith
  <2>2. PICK f \in Fetches : fetch' = [fetch EXCEPT ![f].state = "sent"]
    BY <1>4 DEF ListWith
  <2>3. \A g \in Fetches :
          /\ fetch'[g].age = fetch[g].age /\ fetch'[g].data = fetch[g].data
          /\ fetch'[g].state = "answered" => fetch[g].state = "answered"
    BY <2>2 DEF FetchType
  <2> QED BY <1>1, <2>1, <2>3 DEF AgeInv, LeftWithin
<1> QED BY <1>2, <1>3, <1>4

\* A request that settles leaves the others, and its callers use what it brought.
LEMMA SettledAges ==
  ASSUME FetchInv, AgeInv, NEW f \in Fetches, NEW where \in {"ready", "failed"}, NEW data,
         Settled(f, where, data), UNCHANGED worldVars, CacheAged(cache)',
         where = "ready" => data \subseteq IndexerDids /\ \A d \in data \ registry : gone[d] < Horizon
  PROVE  AgeInv'
<1> USE IndexersAssumption DEF FetchInv, FetchTypeInv
<1>1. \A g \in Fetches : fetch'[g] = IF g = f THEN FreeFetch ELSE fetch[g]
  BY DEF Settled
<1>2. \A g \in Fetches : /\ fetch'[g].age <= HttpTimeout
                         /\ fetch'[g].state = "answered" => LeftWithin(fetch'[g].data, fetch'[g].age)
  BY <1>1 DEF AgeInv, FreeFetch
<1>3. \A c \in Callers : caller'[c] = "ready" =>
        \/ caller[c] = "ready" /\ got'[c] = got[c]
        \/ where = "ready" /\ got'[c] = data
  BY DEF Settled, WaitInv
<1> QED BY <1>2, <1>3 DEF AgeInv, LeftWithin, worldVars

LEMMA BackgroundAges ==
  ASSUME CacheTtl # 0, FetchInv, AgeInv, Background
  PROVE  AgeInv'
<1> USE IndexersAssumption DEF FetchInv, FetchTypeInv
<1>1. ASSUME NEW f \in Fetches, FetchResolves(f) PROVE AgeInv'
  <2>1. /\ Settled(f, "ready", fetch[f].data) /\ UNCHANGED worldVars
        /\ cache' = [data |-> fetch[f].data, age |-> 0]
    BY <1>1 DEF FetchResolves
  <2>2. /\ fetch[f].data \subseteq IndexerDids /\ fetch[f].age \in 0 .. HttpTimeout
        /\ LeftWithin(fetch[f].data, fetch[f].age)
    BY <1>1 DEF FetchResolves, FetchType, AgeInv
  <2>3. \A d \in fetch[f].data \ registry : gone[d] <= HttpTimeout /\ gone[d] < Horizon
    BY <2>2 DEF LeftWithin, AgeInv, Horizon
  <2>4. CacheAged(cache)'
    BY <2>1, <2>2, <2>3 DEF CacheAged, CacheType, LeftWithin, worldVars
  <2> QED BY <2>1, <2>2, <2>3, <2>4, SettledAges
<1>2. ASSUME NEW f \in Fetches, FetchFails(f) PROVE AgeInv'
  <2>1. Settled(f, "failed", {}) /\ UNCHANGED worldVars /\ cache' = cache
    BY <1>2 DEF FetchFails
  <2>2. CacheAged(cache)'
    BY <2>1 DEF AgeInv, CacheAged, LeftWithin, worldVars
  <2> QED BY <2>1, <2>2, SettledAges
<1>3. ASSUME NEW f \in Fetches, ServerAnswers(f) PROVE AgeInv'
  <2>1. \A g \in Fetches : fetch'[g].age = fetch[g].age
                           /\ (g # f => fetch'[g] = fetch[g]) /\ fetch'[f].data = registry
    BY <1>3 DEF ServerAnswers, FetchType
  <2> QED BY <1>3, <2>1 DEF ServerAnswers, AgeInv, CacheAged, LeftWithin, worldVars
<1>4. ASSUME NEW d \in IndexerDids, Evict(d) PROVE AgeInv'
  <2>1. CacheAged(WithoutIndexer(d))
    BY EvictedIsAged
  <2> QED BY <1>4, <2>1 DEF Evict, AgeInv, CacheAged, LeftWithin, worldVars
<1>5. ASSUME NEW d \in IndexerDids, RegistryChanges(d) PROVE AgeInv'
  <2>0. Horizon \in Nat \ {0}
    BY DEF Horizon
  <2>1. /\ gone' \in [IndexerDids -> 0 .. Horizon]
        /\ gone'[d] = 0 /\ 0 < Horizon
        /\ \A e \in IndexerDids : e # d => gone'[e] = gone[e] /\ (e \in registry' <=> e \in registry)
    BY <1>5, <2>0 DEF RegistryChanges, AgeInv
  <2>2. ASSUME NEW data \in SUBSET IndexerDids, NEW n \in Nat, LeftWithin(data, n) PROVE LeftWithin(data, n)'
    BY <2>1, <2>2 DEF LeftWithin
  <2>3. CacheAged(cache)'
    <3>1. CASE cache = NoCache
      BY <1>5, <3>1 DEF RegistryChanges, cacheVars, CacheAged
    <3>2. CASE cache \in CacheType /\ LeftWithin(cache.data, HttpTimeout + cache.age)
      <4>1. cache.data \in SUBSET IndexerDids /\ HttpTimeout + cache.age \in Nat
        BY <3>2 DEF CacheType
      <4> QED BY <1>5, <3>2, <4>1, <2>1 DEF RegistryChanges, cacheVars, CacheAged, LeftWithin
    <3> QED BY <3>1, <3>2 DEF AgeInv, CacheAged
  <2>4. \A f \in Fetches : fetch[f].data \in SUBSET IndexerDids /\ fetch[f].age \in Nat
    BY DEF FetchType
  <2>5. UNCHANGED <<fetch, caller, got>>
    BY <1>5 DEF RegistryChanges, cacheVars
  <2>6. \A f \in Fetches : /\ fetch'[f].age <= HttpTimeout
                           /\ fetch'[f].state = "answered" => LeftWithin(fetch[f].data, fetch[f].age)'
    BY <2>1, <2>4, <2>5 DEF AgeInv, LeftWithin
  <2>7. \A c \in Callers : caller'[c] = "ready" =>
          got'[c] \subseteq IndexerDids /\ \A e \in got'[c] \ registry' : gone'[e] < Horizon
    BY <2>1, <2>5 DEF AgeInv
  <2> QED BY <2>1, <2>3, <2>6, <2>7 DEF AgeInv
<1>6. ASSUME Invalidate PROVE AgeInv'
  BY <1>6 DEF Invalidate, AgeInv, CacheAged, LeftWithin, worldVars
<1> QED BY <1>1, <1>2, <1>3, <1>4, <1>5, <1>6 DEF Background

LEMMA ResumeAges ==
  ASSUME FetchInv, AgeInv, NEW c \in Callers, Resume(c)
  PROVE  AgeInv'
<1>1. \A d \in Callers : caller'[d] = "ready" => caller[d] = "ready" /\ got'[d] = got[d]
  BY DEF Resume, FetchInv, FetchTypeInv
<1> QED BY <1>1 DEF Resume, AgeInv, CacheAged, LeftWithin, worldVars

LEMMA TickAges ==
  ASSUME FetchInv, AgeInv, TickIndexers
  PROVE  AgeInv'
<1> USE IndexersAssumption DEF FetchInv, FetchTypeInv
<1>1. /\ gone' \in [IndexerDids -> 0 .. Horizon] /\ registry' = registry
      /\ \A d \in IndexerDids \ registry :
           gone'[d] = IF gone[d] = Horizon THEN Horizon ELSE gone[d] + 1
  BY SMTT(30) DEF TickIndexers, AgeInv, Horizon
<1>2. \A d \in IndexerDids \ registry : gone'[d] <= gone[d] + 1 /\ gone'[d] <= Horizon
  BY <1>1 DEF AgeInv, Horizon
<1>3. CacheAged(cache)'
  <2>1. CASE cache = NoCache
    BY <2>1 DEF TickIndexers, CacheAged
  <2>2. CASE cache # NoCache /\ cache \in CacheType /\ LeftWithin(cache.data, HttpTimeout + cache.age)
    <3>0. cache' = [cache EXCEPT !.age = IF @ < CacheTtl THEN @ + 1 ELSE @]
      BY <2>2 DEF TickIndexers
    <3>1. /\ cache' \in CacheType /\ cache'.data = cache.data
          /\ cache'.age = IF cache.age < CacheTtl THEN cache.age + 1 ELSE CacheTtl
      <4>1. cache.data \in SUBSET IndexerDids /\ cache.age \in 0 .. CacheTtl
            /\ cache = [data |-> cache.data, age |-> cache.age]
        BY <2>2 DEF CacheType
      <4>2. cache' = [data |-> cache.data, age |-> IF cache.age < CacheTtl THEN cache.age + 1 ELSE cache.age]
        BY <3>0, <4>1
      <4>3. CASE cache.age < CacheTtl
        BY <4>1, <4>2, <4>3 DEF CacheType
      <4>4. CASE cache.age = CacheTtl
        BY <4>1, <4>2, <4>4 DEF CacheType
      <4> QED BY <4>1, <4>3, <4>4
    <3>2. cache.data \subseteq IndexerDids /\ cache.age \in Nat
      BY <2>2 DEF CacheType
    <3>3. \A d \in cache.data \ registry :
            gone[d] \in Nat /\ gone[d] <= HttpTimeout + cache.age
            /\ gone'[d] \in Nat /\ gone'[d] <= gone[d] + 1 /\ gone'[d] <= HttpTimeout + CacheTtl
      BY <1>1, <1>2, <2>2, <3>2 DEF LeftWithin, AgeInv, Horizon
    <3>4. \A d \in cache.data \ registry : gone'[d] <= HttpTimeout + cache'.age
      BY <3>1, <3>2, <3>3
    <3> QED BY <1>1, <3>1, <3>4 DEF CacheAged, LeftWithin
  <2> QED BY <2>1, <2>2 DEF AgeInv, CacheAged
<1>4. ASSUME NEW f \in Fetches
      PROVE  /\ fetch'[f].age <= HttpTimeout
             /\ fetch'[f].state = "answered" => LeftWithin(fetch[f].data, fetch[f].age)'
  <2>1. fetch[f] \in FetchType
    OBVIOUS
  <2>2. CASE fetch[f].state = "free"
    BY <2>2 DEF TickIndexers, AgeInv
  <2>3. CASE fetch[f].state # "free"
    <3>1. /\ fetch'[f].age = fetch[f].age + 1 /\ fetch'[f].data = fetch[f].data
          /\ fetch'[f].state = fetch[f].state /\ fetch[f].age < HttpTimeout
      BY <2>1, <2>3 DEF TickIndexers, FetchType
    <3>2. fetch[f].data \subseteq IndexerDids /\ fetch[f].age \in Nat
      BY <2>1 DEF FetchType
    <3>3. ASSUME fetch[f].state = "answered" PROVE \A d \in fetch[f].data \ registry : gone'[d] <= fetch[f].age + 1
      <4>1. \A d \in fetch[f].data \ registry : gone[d] <= fetch[f].age /\ gone[d] \in Nat /\ gone'[d] \in Nat
        BY <1>1, <3>2, <3>3 DEF AgeInv, LeftWithin, Horizon
      <4> QED BY <1>2, <3>2, <4>1
    <3> QED BY <1>1, <3>1, <3>2, <3>3 DEF LeftWithin
  <2> QED BY <2>2, <2>3
<1>5. \A c \in Callers : caller'[c] # "ready"
  BY DEF TickIndexers
<1> QED BY <1>1, <1>3, <1>4, <1>5 DEF AgeInv

LEMMA AgeStutter == AgeInv /\ UNCHANGED indexerVars => AgeInv'
BY DEF indexerVars, cacheVars, worldVars, AgeInv, CacheAged, LeftWithin

\* The subscriptions reach the cache through list(), after an eviction, and what
\* they found is gone once used.
LEMMA OpenConnectionAges ==
  ASSUME FetchInv, AgeInv, NEW s \in Subs, OpenConnection(s)
  PROVE  AgeInv'
<1>1. CASE s \in IndexerSubs /\ ListWith(s, CacheAfterLoss(s))
  <2>1. /\ CacheAged(CacheAfterLoss(s))
        /\ cache # NoCache => CacheAfterLoss(s).data \subseteq cache.data
    BY EvictedIsAged DEF CacheAfterLoss, AgeInv
  <2>2. s \in Callers
    BY <1>1, SubscriptionsAssumption
  <2> QED BY <1>1, <2>1, <2>2, ListAges
<1>2. CASE UNCHANGED indexerVars
  BY <1>2, AgeStutter
<1> QED BY <1>1, <1>2 DEF OpenConnection

LEMMA AgeStep ==
  ASSUME CacheTtl # 0, FetchInv, AgeInv, [NextSubscriptions]_vars
  PROVE  AgeInv'
<1>1. ASSUME NEW s \in Subs, Step(s) PROVE AgeInv'
  <2>1. OpenConnection(s) \/ UNCHANGED indexerVars
    BY <1>1 DEF Step, Subscribe, Reconnect, Unsubscribe, Acknowledged, ServerCompletes, Opens, Closes
  <2> QED BY <2>1, OpenConnectionAges, AgeStutter
<1>2. ASSUME NEW s \in IndexerSubs, ConnectToBest(s) \/ NoIndexerFound(s) PROVE AgeInv'
  BY <1>2, ResumeAges, SubscriptionsAssumption DEF ConnectToBest, NoIndexerFound
<1>3. CASE Background
  BY <1>3, BackgroundAges
<1>4. ASSUME NEW d \in IndexerDids, GoesDown(d) \/ ComesBack(d) PROVE AgeInv'
  BY <1>4, AgeStutter DEF GoesDown, ComesBack
<1>5. CASE Tick
  BY <1>5, TickAges DEF Tick
<1>6. CASE UNCHANGED vars
  BY <1>6, AgeStutter DEF vars
<1> QED BY <1>1, <1>2, <1>3, <1>4, <1>5, <1>6 DEF NextSubscriptions

-----------------------------------------------------------------------------
(* Theorems *)

\* Lookups share one request and none is left waiting for one that has settled,
\* whatever subscribes, evicts, invalidates and fails meanwhile (getIndexers).
THEOREM SharedFetch == SubscriptionsSpec => []OneFetchWakesAll
<1>1. ASSUME SInv PROVE OneFetchWakesAll
  <2>1. ASSUME budget.invalidations = 0
        PROVE  Cardinality({f \in Fetches : fetch[f].state # "free"}) <= 1
    <3>1. {f \in Fetches : fetch[f].state # "free"} \subseteq {inflight}
      BY <1>1, <2>1 DEF SInv, FetchInv, OneInv, Under
    <3>2. IsFiniteSet({inflight}) /\ Cardinality({inflight}) = 1
      BY FS_Singleton
    <3> QED BY <3>1, <3>2, FS_Subset
  <2>2. \A c \in Callers : caller[c] = "waiting" => fetch[awaits[c]].state # "free"
    BY <1>1 DEF SInv, FetchInv, WaitInv, Under
  <2> QED BY <2>1, <2>2 DEF OneFetchWakesAll
<1> QED BY <1>1, SInvariant, PTL

\* A subscription never has two of a timer, a lookup and a connection
\* (openConnection, scheduleReconnect, the close handler).
THEOREM OneLineOfWork == SubscriptionsSpec => []OneConnection
<1>1. SInv => OneConnection
  BY DEF SInv, SubsInv, SubInv, OneLine, OneConnection
<1> QED BY <1>1, SInvariant, PTL

\* A subscription that was unsubscribed or completed stays over, and is told so
\* once (unsubscribe, complete, scheduleReconnect).
THEOREM StaysOver == SubscriptionsSpec => []OverIsOver
<1>1. ASSUME SInv, NEW s \in Subs
      PROVE  /\ unsub[s] => ~TimerSet(s) /\ socket[s] \notin LiveSocket
             /\ completes[s] <= 1
             /\ completes[s] = 1 =>
                  ~TimerSet(s) /\ ~Resolving(s) /\ socket[s] \notin LiveSocket \ {"ended"}
  BY <1>1 DEF SInv, SubsInv, SubTypeInv, SubInv, Over
<1>2. SInv => OverIsOver
  BY <1>1 DEF OverIsOver
<1> QED BY <1>2, SInvariant, PTL

\* An indexer that left the registry is never handed to a lookup a time-to-live
\* and a request's timeout later, however evictions, failures, invalidations and
\* joined requests interleave (list, evict). (Without any time-to-live the bound
\* is the timeout itself.)
THEOREM StaleAnswersAreBounded == CacheTtl # 0 => (SubscriptionsSpec => []StaleBound)
<1> SUFFICES ASSUME CacheTtl # 0 PROVE SubscriptionsSpec => []StaleBound
  OBVIOUS
<1>1. InitSubscriptions => SInv /\ AgeInv
  BY InitSInv, InitAgeInv DEF InitSubscriptions
<1>2. SInv /\ AgeInv /\ [NextSubscriptions]_vars => (SInv /\ AgeInv)'
  BY SInvStep, AgeStep DEF SInv
<1>3. AgeInv => StaleBound
  BY DEF AgeInv, StaleBound
<1> QED BY <1>1, <1>2, <1>3, PTL DEF SubscriptionsSpec
=============================================================================
