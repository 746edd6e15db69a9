------------------------------ MODULE Indexers ------------------------------
(***************************************************************************)
(* The indexer discovery cache (indexers/index.ts): list() serves every    *)
(* caller from one cached answer of GET /indexers, or from the one fetch   *)
(* in flight.                                                              *)
(*                                                                         *)
(* One subgrove is modelled, without an `indexerUrl' (which bypasses the   *)
(* cache): an answer is the set of active indexers that serve it, which is *)
(* what forSubgrove makes of list().  The validator is external.  Time is  *)
(* kept as ages: `cache.age' is now - fetchedAt, and stops at CacheTtl.    *)
(***************************************************************************)
EXTENDS Naturals, FiniteSets

CONSTANTS
  IndexerDids,       \* numbers, in order of performance_score: the best is the least
  Callers,           \* the calls of list() that run at the same time
  Fetches,           \* identities for the requests in flight: more than MaxInvalidations
  CacheTtl,          \* cacheTtlMs in ticks
  HttpTimeout,       \* ticks before HttpClient gives a request up
  NoCache, NoFetch,  \* undefined
  MaxChanges,        \* bound: changes of the validator's registry
  MaxEvictions,      \* bound: evict() by callers outside the model's callers
  MaxInvalidations,  \* bound: invalidate()
  MaxFaults          \* bound: transient failures

VARIABLES
  cache,     \* [data, age], or NoCache
  inflight,  \* the fetch a lookup joins, or NoFetch
  fetch,     \* each request: its state, its answer and how long it is under way
  caller,    \* where each caller's lookup is
  awaits,    \* the fetch a waiting caller awaits
  got,       \* what its lookup resolved to
  registry,  \* the indexers the validator lists now
  gone,      \* ticks since an indexer left the registry
  budget     \* how often each bounded event happened

cacheVars == <<cache, inflight, fetch, caller, awaits, got>>
worldVars == <<registry, gone>>
indexerVars == <<cacheVars, worldVars, budget>>

ASSUME IndexersAssumption ==
  /\ IndexerDids \subseteq Nat
  /\ CacheTtl \in Nat /\ HttpTimeout \in Nat
  /\ NoFetch \notin Fetches

\* How long after its removal an indexer's absence still has to be counted.
Horizon == CacheTtl + HttpTimeout

FreeFetch == [state |-> "free", data |-> {}, age |-> 0]

InitIndexers ==
  /\ cache = NoCache /\ inflight = NoFetch
  /\ fetch = [f \in Fetches |-> FreeFetch]
  /\ caller = [c \in Callers |-> "idle"]
  /\ awaits = [c \in Callers |-> NoFetch]
  /\ got = [c \in Callers |-> {}]
  /\ registry = IndexerDids
  /\ gone = [d \in IndexerDids |-> 0]
  /\ budget = [changes |-> 0, evictions |-> 0, invalidations |-> 0, faults |-> 0]

-----------------------------------------------------------------------------
(* The client *)

Fresh == cache # NoCache /\ cache.age < CacheTtl

\* (With the bug of each lookup fetching for itself.)
NothingToJoin == FALSE

\* A fetch is under way that a lookup may join.
Joinable == inflight # NoFetch

\* list() of caller c, up to its first await, with the cache's entries as in c0
\* (which is as old as the cache: evict keeps fetchedAt).
ListWith(c, c0) ==
  /\ caller[c] = "idle"
  /\ cache' = c0
  /\ \/ /\ Fresh
        /\ caller' = [caller EXCEPT ![c] = "ready"]
        /\ got' = [got EXCEPT ![c] = c0.data]
        /\ UNCHANGED <<inflight, fetch, awaits>>
     \/ /\ ~Fresh /\ Joinable
        /\ caller' = [caller EXCEPT ![c] = "waiting"]
        /\ awaits' = [awaits EXCEPT ![c] = inflight]
        /\ UNCHANGED <<inflight, fetch, got>>
     \/ /\ ~Fresh /\ ~Joinable
        /\ \E f \in Fetches :
             /\ fetch[f].state = "free"
             /\ fetch' = [fetch EXCEPT ![f].state = "sent"]
             /\ inflight' = f
             /\ awaits' = [awaits EXCEPT ![c] = f]
        /\ caller' = [caller EXCEPT ![c] = "waiting"]
        /\ UNCHANGED got
  /\ UNCHANGED <<worldVars, budget>>

\* The callers of f resume, as `where', in the microtasks after it settles.
Settled(f, where, data) ==
  /\ fetch' = [fetch EXCEPT ![f] = FreeFetch]
  /\ caller' = [c \in Callers |-> IF awaits[c] = f THEN where ELSE caller[c]]
  /\ got' = [c \in Callers |-> IF awaits[c] = f THEN data ELSE got[c]]
  /\ awaits' = [c \in Callers |-> IF awaits[c] = f THEN NoFetch ELSE awaits[c]]

\* (With the bug of not clearing `inflight' when the fetch throws.)
FetchFailsSticky(f) ==
  /\ fetch[f].state # "free"
  /\ budget.faults < MaxFaults
  /\ budget' = [budget EXCEPT !.faults = @ + 1]
  /\ Settled(f, "failed", {})
  /\ UNCHANGED <<inflight, cache, worldVars>>

\* The answer arrives: it replaces the cache, whatever the cache is by then, and
\* `finally' clears `inflight', whichever fetch it names by then.
FetchResolves(f) ==
  /\ fetch[f].state = "answered"
  /\ cache' = [data |-> fetch[f].data, age |-> 0]
  /\ inflight' = NoFetch
  /\ Settled(f, "ready", fetch[f].data)
  /\ UNCHANGED <<worldVars, budget>>

\* The request fails or times out: every caller that awaits it throws.
FetchFails(f) ==
  /\ fetch[f].state # "free"
  /\ budget.faults < MaxFaults
  /\ budget' = [budget EXCEPT !.faults = @ + 1]
  /\ inflight' = NoFetch
  /\ Settled(f, "failed", {})
  /\ UNCHANGED <<cache, worldVars>>

\* The caller's continuation: it has used what it got.
Resume(c) ==
  /\ caller[c] \in {"ready", "failed"}
  /\ caller' = [caller EXCEPT ![c] = "idle"]
  /\ got' = [got EXCEPT ![c] = {}]
  /\ UNCHANGED <<cache, inflight, fetch, awaits, worldVars, budget>>

\* (With the bug of stamping the cache anew.)
WithoutIndexerRestamped(d) ==
  IF cache = NoCache THEN NoCache ELSE [data |-> cache.data \ {d}, age |-> 0]

\* evict(): the cache without indexer d, as old as it was.
WithoutIndexer(d) ==
  IF cache = NoCache THEN NoCache ELSE [cache EXCEPT !.data = @ \ {d}]

\* routeQuery evicts an indexer that answered it with a 5xx.
Evict(d) ==
  /\ budget.evictions < MaxEvictions
  /\ budget' = [budget EXCEPT !.evictions = @ + 1]
  /\ cache' = WithoutIndexer(d)
  /\ UNCHANGED <<inflight, fetch, caller, awaits, got, worldVars>>

Invalidate ==
  /\ budget.invalidations < MaxInvalidations
  /\ budget' = [budget EXCEPT !.invalidations = @ + 1]
  /\ cache' = NoCache /\ inflight' = NoFetch
  /\ UNCHANGED <<fetch, caller, awaits, got, worldVars>>

-----------------------------------------------------------------------------
(* The validator and time *)

ServerAnswers(f) ==
  /\ fetch[f].state = "sent"
  /\ fetch' = [fetch EXCEPT ![f].state = "answered", ![f].data = registry]
  /\ UNCHANGED <<cache, inflight, caller, awaits, got, worldVars, budget>>

\* An indexer registers, deregisters, or changes status.
RegistryChanges(d) ==
  /\ budget.changes < MaxChanges
  /\ budget' = [budget EXCEPT !.changes = @ + 1]
  /\ \/ d \in registry /\ registry' = registry \ {d}
     \/ d \notin registry /\ registry' = registry \cup {d}
  /\ gone' = [gone EXCEPT ![d] = 0]
  /\ UNCHANGED cacheVars

\* Continuations run before the clock moves on; HttpClient's timeout ends a
\* request that is not settled in time.
TickIndexers ==
  /\ \A c \in Callers : caller[c] \notin {"ready", "failed"}
  /\ \A f \in Fetches : fetch[f].state # "free" => fetch[f].age < HttpTimeout
  /\ cache' = IF cache = NoCache THEN NoCache
              ELSE [cache EXCEPT !.age = IF @ < CacheTtl THEN @ + 1 ELSE @]
  /\ fetch' = [f \in Fetches |->
                 IF fetch[f].state = "free" THEN fetch[f]
                 ELSE [fetch[f] EXCEPT !.age = @ + 1]]
  /\ gone' = [d \in IndexerDids |->
                IF d \in registry \/ gone[d] = Horizon THEN gone[d] ELSE gone[d] + 1]
  /\ UNCHANGED <<inflight, caller, awaits, got, registry, budget>>

\* What runs beside the callers.
Background ==
  \/ \E f \in Fetches : FetchResolves(f) \/ FetchFails(f) \/ ServerAnswers(f)
  \/ \E d \in IndexerDids : Evict(d) \/ RegistryChanges(d)
  \/ Invalidate

-----------------------------------------------------------------------------
(* Properties *)

\* Type correctness, and `inflight' is never a fetch that has settled.
IndexersTypeOK ==
  /\ cache \in [data : SUBSET IndexerDids, age : 0 .. CacheTtl] \cup {NoCache}
  /\ inflight \in Fetches \cup {NoFetch}
  /\ fetch \in [Fetches -> [state : {"free", "sent", "answered"},
                            data : SUBSET IndexerDids, age : 0 .. HttpTimeout]]
  /\ caller \in [Callers -> {"idle", "waiting", "ready", "failed"}]
  /\ awaits \in [Callers -> Fetches \cup {NoFetch}]
  /\ got \in [Callers -> SUBSET IndexerDids]
  /\ registry \subseteq IndexerDids
  /\ gone \in [IndexerDids -> 0 .. Horizon]
  /\ inflight # NoFetch => fetch[inflight].state # "free"

\* No lookup returns an indexer that left the registry longer ago than a
\* request may last and its answer be reused: evictions, failures and lookups
\* that join a fetch do not stretch the TTL.
StaleBound ==
  \A c \in Callers : caller[c] = "ready" =>
    \A d \in got[c] : d \notin registry => gone[d] < Horizon

\* Lookups share one request (as long as nobody calls invalidate, which
\* forgets the request in flight), and a caller that waits is woken by the
\* fetch it awaits: no fetch settles without its waiters, and no waiter joins
\* one that has settled (getIndexers).
OneFetchWakesAll ==
  /\ budget.invalidations = 0 => Cardinality({f \in Fetches : fetch[f].state # "free"}) <= 1
  /\ \A c \in Callers : caller[c] = "waiting" => fetch[awaits[c]].state # "free"
=============================================================================
