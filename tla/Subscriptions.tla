---------------------------- MODULE Subscriptions ----------------------------
(***************************************************************************)
(* GraphQL subscriptions over WebSocket (subscriptions/index.ts): each     *)
(* call of subscribe() keeps one connection alive, reconnecting with       *)
(* exponential backoff; indexer subscriptions pick their server through    *)
(* the discovery cache of Indexers, which they share and evict from.       *)
(*                                                                         *)
(* The subscriptions with source 'indexer' are callers of Indexers:        *)
(* `caller[s]' is where openConnection() awaits forSubgrove().  Sockets    *)
(* and servers are external.  Events (`next', `error', ping) change no     *)
(* state of the SDK and are left out.                                      *)
(***************************************************************************)
EXTENDS Indexers

CONSTANTS
  IndexerSubs,     \* the subscriptions with source 'indexer'
  ValidatorSubs,   \* the subscriptions with source 'validator'
  NoReconnect,     \* the subscriptions with reconnect: false
  MaxAttempts,     \* maxReconnectAttempts, or Infinity
  Infinity,
  MaxBackoff,      \* maxReconnectBackoffMs in ticks; reconnectBackoffMs is 1
  DeadDids,        \* indexers that are down for good and stay listed
  MaxOutages,      \* bound: times another indexer goes down
  MaxDrops,        \* bound: connections a server that is up drops or ends
  MaxUnsubscribes, \* bound: calls of unsubscribe functions
  NoDid, NoTimer   \* null

Subs == IndexerSubs \cup ValidatorSubs

\* Attempts are counted to where the delay, or the limit, no longer grows.
AttemptsCap == IF MaxAttempts = Infinity THEN MaxBackoff + 1 ELSE MaxAttempts

ASSUME SubscriptionsAssumption ==
  /\ MaxAttempts \in Nat \/ MaxAttempts = Infinity
  /\ MaxBackoff \in Nat \ {0} /\ NoTimer \notin Nat
  /\ DeadDids \subseteq IndexerDids /\ IndexerSubs \subseteq Callers /\ Callers \cap ValidatorSubs = {}

VARIABLES
  started,    \* subscribe() was called
  closed,     \* closedByClient
  timer,      \* reconnectTimer: the ticks left, or NoTimer
  attempts,   \* reconnection attempts since the last connection_ack
  last,       \* lastIndexerDid
  socket,     \* the state of the connection the subscription opened last
  server,     \* the indexer it is to, or NoDid (the validator)
  completes,  \* calls of onComplete
  unsub,      \* the unsubscribe function was called
  down,       \* indexers that do not answer
  uses        \* how often each bounded event happened

subVars == <<started, closed, timer, attempts, last, socket, server, completes, unsub>>
vars == <<indexerVars, subVars, down, uses>>

\* "ended": the server sent `complete' and has not closed the connection yet.
LiveSocket == {"connecting", "open", "acked", "ended"}

InitSubscriptions ==
  /\ InitIndexers
  /\ started = [s \in Subs |-> FALSE]
  /\ closed = [s \in Subs |-> FALSE]
  /\ timer = [s \in Subs |-> NoTimer]
  /\ attempts = [s \in Subs |-> 0]
  /\ last = [s \in Subs |-> NoDid]
  /\ socket = [s \in Subs |-> "none"]
  /\ server = [s \in Subs |-> NoDid]
  /\ completes = [s \in Subs |-> 0]
  /\ unsub = [s \in Subs |-> FALSE]
  /\ down = DeadDids
  /\ uses = [outages |-> 0, drops |-> 0, unsubscribes |-> 0]

-----------------------------------------------------------------------------
(* The subscription *)

Delay(n) == IF 2 ^ (n - 1) < MaxBackoff THEN 2 ^ (n - 1) ELSE MaxBackoff

GivesUp(s) ==
  \/ closed[s] \/ s \in NoReconnect
  \/ MaxAttempts # Infinity /\ attempts[s] >= MaxAttempts

\* scheduleReconnect().
ScheduleReconnect(s) ==
  \/ /\ GivesUp(s)
     /\ completes' = [completes EXCEPT ![s] = @ + 1]
     /\ UNCHANGED <<timer, attempts>>
  \/ /\ ~GivesUp(s)
     /\ attempts' = [attempts EXCEPT ![s] = IF @ < AttemptsCap THEN @ + 1 ELSE @]
     /\ timer' = [timer EXCEPT ![s] = Delay(attempts'[s])]
     /\ UNCHANGED completes

\* (With the bug of not looking again after the wait.)
WireSocketUnchecked(s, d) ==
  /\ socket' = [socket EXCEPT ![s] = "connecting"]
  /\ server' = [server EXCEPT ![s] = d]

\* wireSocket(): a socket to d, unless the caller unsubscribed meanwhile.
WireSocket(s, d) ==
  \/ closed[s] /\ UNCHANGED <<socket, server>>
  \/ /\ ~closed[s]
     /\ socket' = [socket EXCEPT ![s] = "connecting"]
     /\ server' = [server EXCEPT ![s] = d]

\* The discovery cache once the indexer s was on last is evicted.
CacheAfterLoss(s) == IF last[s] = NoDid THEN cache ELSE WithoutIndexer(last[s])

\* openConnection() up to its first await.
OpenConnection(s) ==
  \/ /\ s \in ValidatorSubs
     /\ WireSocket(s, NoDid)
     /\ UNCHANGED indexerVars
  \/ /\ s \in IndexerSubs
     /\ ListWith(s, CacheAfterLoss(s))
     /\ UNCHANGED <<socket, server>>

Subscribe(s) ==
  /\ ~started[s]
  /\ started' = [started EXCEPT ![s] = TRUE]
  /\ OpenConnection(s)
  /\ UNCHANGED <<closed, timer, attempts, last, completes, unsub, down, uses>>

\* (With the bug of forgetting to clear reconnectTimer.)
ReconnectTwice(s) ==
  /\ timer[s] = 0
  /\ OpenConnection(s)
  /\ UNCHANGED <<timer, started, closed, attempts, last, completes, unsub, down, uses>>

\* The reconnect timer fires.
Reconnect(s) ==
  /\ timer[s] = 0
  /\ timer' = [timer EXCEPT ![s] = NoTimer]
  /\ OpenConnection(s)
  /\ UNCHANGED <<started, closed, attempts, last, completes, unsub, down, uses>>

\* openConnection() goes on with the indexers found: it connects to the best.
ConnectToBest(s) ==
  /\ caller[s] = "ready" /\ got[s] # {}
  /\ \E d \in got[s] :
       /\ \A e \in got[s] : d <= e
       /\ last' = [last EXCEPT ![s] = d]
       /\ WireSocket(s, d)
  /\ Resume(s)
  /\ UNCHANGED <<started, closed, timer, attempts, completes, unsub, down, uses>>

\* No indexer serves the subgrove, or discovery failed: onError, and another try
\* later or the end.
NoIndexerFound(s) ==
  /\ caller[s] \in {"ready", "failed"} /\ got[s] = {}
  /\ Resume(s)
  /\ ScheduleReconnect(s)
  /\ closed' = [closed EXCEPT ![s] = @ \/ s \in NoReconnect]
  /\ UNCHANGED <<started, last, socket, server, unsub, down, uses>>

Unsubscribe(s) ==
  /\ started[s] /\ ~unsub[s]
  /\ uses.unsubscribes < MaxUnsubscribes
  /\ uses' = [uses EXCEPT !.unsubscribes = @ + 1]
  /\ unsub' = [unsub EXCEPT ![s] = TRUE]
  /\ closed' = [closed EXCEPT ![s] = TRUE]
  /\ timer' = [timer EXCEPT ![s] = NoTimer]
  /\ socket' = [socket EXCEPT ![s] = IF @ \in LiveSocket THEN "closing" ELSE @]
  /\ UNCHANGED <<indexerVars, started, attempts, last, server, completes, down>>

\* connection_ack: `subscribe' is sent, and a later loss starts over at the
\* shortest delay.
Acknowledged(s) ==
  /\ socket[s] = "open"
  /\ socket' = [socket EXCEPT ![s] = "acked"]
  /\ attempts' = [attempts EXCEPT ![s] = 0]
  /\ UNCHANGED <<indexerVars, started, closed, timer, last, server, completes, unsub, down, uses>>

\* The server's `complete'.
ServerCompletes(s) ==
  /\ socket[s] = "acked"
  /\ uses.drops < MaxDrops
  /\ uses' = [uses EXCEPT !.drops = @ + 1]
  /\ socket' = [socket EXCEPT ![s] = "ended"]
  /\ closed' = [closed EXCEPT ![s] = TRUE]
  /\ completes' = [completes EXCEPT ![s] = @ + 1]
  /\ UNCHANGED <<indexerVars, started, timer, attempts, last, server, unsub, down>>

\* (With the bug of leaving it to scheduleReconnect to look at closedByClient.)
OnCloseUnchecked(s) == ScheduleReconnect(s)

\* The socket's close handler.
OnClose(s) ==
  \/ closed[s] /\ UNCHANGED <<completes, timer, attempts>>
  \/ ~closed[s] /\ ScheduleReconnect(s)

-----------------------------------------------------------------------------
(* Sockets, servers and time *)

Up(s) == server[s] \notin down

Opens(s) ==
  /\ socket[s] = "connecting" /\ Up(s)
  /\ socket' = [socket EXCEPT ![s] = "open"]
  /\ UNCHANGED <<indexerVars, started, closed, timer, attempts, last, server, completes, unsub, down, uses>>

\* A connection ends: the server is down, or drops it, or one side closed it.
Closes(s) ==
  /\ socket[s] \in LiveSocket \cup {"closing"}
  /\ IF Up(s) /\ socket[s] \notin {"closing", "ended"}
     THEN /\ uses.drops < MaxDrops
          /\ uses' = [uses EXCEPT !.drops = @ + 1]
     ELSE UNCHANGED uses
  /\ socket' = [socket EXCEPT ![s] = "closed"]
  /\ OnClose(s)
  /\ UNCHANGED <<indexerVars, started, closed, last, server, unsub, down>>

GoesDown(d) ==
  /\ d \notin down /\ uses.outages < MaxOutages
  /\ uses' = [uses EXCEPT !.outages = @ + 1]
  /\ down' = down \cup {d}
  /\ UNCHANGED <<indexerVars, subVars>>

ComesBack(d) ==
  /\ d \in down \ DeadDids
  /\ down' = down \ {d}
  /\ UNCHANGED <<indexerVars, subVars, uses>>

\* A tick: due timers fire first. Nothing bounds how long a connection takes to
\* open or fail, nor the wait for connection_ack: wireSocket() sets no timer.
Tick ==
  /\ TickIndexers
  /\ \A s \in Subs : timer[s] # 0
  /\ timer' = [s \in Subs |-> IF timer[s] = NoTimer THEN NoTimer ELSE timer[s] - 1]
  /\ UNCHANGED <<started, closed, attempts, last, socket, server, completes, unsub, down, uses>>

Step(s) ==
  \/ Subscribe(s) \/ Reconnect(s) \/ Unsubscribe(s)
  \/ Acknowledged(s) \/ ServerCompletes(s) \/ Opens(s) \/ Closes(s)

NextSubscriptions ==
  \/ \E s \in Subs : Step(s)
  \/ \E s \in IndexerSubs : ConnectToBest(s) \/ NoIndexerFound(s)
  \/ Background /\ UNCHANGED <<subVars, down, uses>>
  \/ \E d \in IndexerDids : GoesDown(d) \/ ComesBack(d)
  \/ Tick

SubscriptionsSpec == InitSubscriptions /\ [][NextSubscriptions]_vars

\* Timers fire, continuations run, requests are answered, connections open or
\* fail some time (the system's own limit ends them, the SDK none), servers that
\* are up acknowledge, and an outage ends. A server need not end or drop a
\* connection, and the caller need not do anything.
FairSteps ==
  /\ WF_vars(Tick)
  /\ \A s \in Subs :
       /\ WF_vars(Reconnect(s)) /\ WF_vars(Acknowledged(s))
       /\ WF_vars(Opens(s) \/ (Closes(s) /\ (~Up(s) \/ socket[s] = "closing")))
  /\ \A s \in IndexerSubs : WF_vars(ConnectToBest(s) \/ NoIndexerFound(s))
  /\ \A f \in Fetches :
       WF_vars((FetchResolves(f) \/ ServerAnswers(f)) /\ UNCHANGED <<subVars, down, uses>>)
  /\ \A d \in IndexerDids : WF_vars(ComesBack(d))

FairSubscriptions == SubscriptionsSpec /\ FairSteps

-----------------------------------------------------------------------------
(* Properties *)

\* Type correctness.
SubscriptionsTypeOK ==
  /\ IndexersTypeOK
  /\ started \in [Subs -> BOOLEAN] /\ closed \in [Subs -> BOOLEAN]
  /\ unsub \in [Subs -> BOOLEAN]
  /\ timer \in [Subs -> 0 .. MaxBackoff \cup {NoTimer}]
  /\ attempts \in [Subs -> 0 .. AttemptsCap]
  /\ last \in [Subs -> IndexerDids \cup {NoDid}]
  /\ server \in [Subs -> IndexerDids \cup {NoDid}]
  /\ socket \in [Subs -> {"none", "closing", "closed"} \cup LiveSocket]
  /\ completes \in [Subs -> Nat]

TimerSet(s) == timer[s] # NoTimer
Resolving(s) == s \in IndexerSubs /\ caller[s] # "idle"
HasSocket(s) == socket[s] \in LiveSocket \cup {"closing"}

\* A subscription has one line of work: a timer, a lookup or a connection, never
\* two, so events are not delivered twice by two sockets and no reconnect is
\* scheduled over another (scheduleReconnect is reached from the close handler,
\* the empty answer and the catch).
OneConnection ==
  \A s \in Subs :
    /\ ~(TimerSet(s) /\ Resolving(s))
    /\ ~(TimerSet(s) /\ HasSocket(s))
    /\ ~(Resolving(s) /\ HasSocket(s))

\* A subscription that is over stays over. Once unsubscribed, it has no timer
\* and no connection that stays open, even when unsubscribe was called while
\* the indexer was being looked up ("closes the WebSocket, and cancels any
\* pending reconnection"); onComplete is called once at most, and only when the
\* subscription is "definitively over": nothing reconnects after it.
OverIsOver ==
  \A s \in Subs :
    /\ unsub[s] => ~TimerSet(s) /\ socket[s] \notin LiveSocket
    /\ completes[s] <= 1
    /\ completes[s] = 1 =>
         ~TimerSet(s) /\ ~Resolving(s) /\ socket[s] \notin LiveSocket \ {"ended"}

Reached(s) == socket[s] = "acked" \/ closed[s] \/ completes[s] > 0

\* A subscription always gets through, or is over (subscriptions/index.ts: "a
\* dead indexer won't keep the caller pinned to it", "failover to a different
\* indexer is automatic"). Where the longest backoff is as long as the cache's
\* life, as the defaults are, it need not: every reconnect at that delay evicts
\* from a list that is fetched again, with the dead indexer first.
GetsThrough == \A s \in Subs : started[s] ~> Reached(s)
=============================================================================
