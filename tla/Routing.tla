------------------------------- MODULE Routing -------------------------------
(***************************************************************************)
(* Queries routed to indexers or the validator (data/index.ts,             *)
(* routeQuery), beside the subscriptions that share the discovery cache    *)
(* and evict from it as the queries do.                                    *)
(*                                                                         *)
(* The queries with source 'indexer' or 'auto' are callers of Indexers:    *)
(* `caller[q]' is where forSubgrove() is awaited, and the query then works *)
(* through its own list.  A query with source 'validator' makes the one    *)
(* request that an 'auto' query ends with.                                 *)
(***************************************************************************)
EXTENDS Subscriptions

CONSTANTS
  IndexerQueries,  \* source 'indexer'
  AutoQueries      \* source 'auto'

Queries == IndexerQueries \cup AutoQueries

ASSUME RoutingAssumption ==
  Queries \subseteq Callers \ IndexerSubs /\ IndexerQueries \cap AutoQueries = {}

VARIABLE query  \* each query's state, and the indexers it has still to ask

routingVars == <<vars, query>>

InitRouting ==
  /\ InitSubscriptions
  /\ query = [q \in Queries |-> [at |-> "idle", left |-> {}]]

Unrouted == UNCHANGED <<subVars, down, uses>>

-----------------------------------------------------------------------------

StartQuery(q) ==
  /\ query[q].at = "idle"
  /\ query' = [query EXCEPT ![q].at = "looking"]
  /\ ListWith(q, cache)
  /\ Unrouted

\* What a query without an indexer left to ask does.
GivesUpOnIndexers(q) == IF q \in AutoQueries THEN "validator" ELSE "failed"

\* The lookup has an answer; a lookup that failed ends the query, 'auto' too.
LookedUp(q) ==
  /\ query[q].at = "looking" /\ caller[q] \in {"ready", "failed"}
  /\ query' = [query EXCEPT ![q] =
       [at |-> IF caller[q] = "failed" THEN "failed"
               ELSE IF got[q] = {} THEN GivesUpOnIndexers(q) ELSE "asking",
        left |-> got[q]]]
  /\ Resume(q)
  /\ Unrouted

\* (With the bug of walking the list that the eviction shortens.)
AfterSkipping(left, d, evicted) ==
  LET rest == left \ {d}
  IN  IF evicted THEN {e \in rest : \E f \in rest : f < e} ELSE rest

\* The indexers left to ask after d, which may have been evicted from the cache.
After(left, d, evicted) == left \ {d}

\* The indexer's answer, or failure: a 5xx evicts it, and a request that does not
\* get through does not. (A 4xx is a failure that evicts nothing, too.)
IndexerAnswers(q) ==
  /\ query[q].at = "asking"
  /\ \E d \in query[q].left :
       /\ \A e \in query[q].left : d <= e
       /\ \/ /\ d \notin down
             /\ query' = [query EXCEPT ![q].at = "done"]
             /\ UNCHANGED cache
          \/ /\ d \in down
             /\ \E evicted \in BOOLEAN :
                  LET left == After(query[q].left, d, evicted)
                  IN  /\ cache' = IF evicted THEN WithoutIndexer(d) ELSE cache
                      /\ query' = [query EXCEPT ![q] =
                           [at |-> IF left = {} THEN GivesUpOnIndexers(q) ELSE "asking", left |-> left]]
  /\ UNCHANGED <<inflight, fetch, caller, awaits, got, worldVars, budget>>
  /\ Unrouted

\* The validator answers, or has no data, or fails.
ValidatorAnswers(q) ==
  /\ query[q].at = "validator"
  /\ \E result \in {"done", "no_data"} : query' = [query EXCEPT ![q].at = result]
  /\ UNCHANGED vars

QueryStep(q) == LookedUp(q) \/ IndexerAnswers(q) \/ ValidatorAnswers(q)

NextRouting ==
  \/ NextSubscriptions /\ UNCHANGED query
  \/ \E q \in Queries : StartQuery(q) \/ QueryStep(q)

\* Requests are answered or time out; nothing makes a caller start a query.
FairRouting ==
  /\ InitRouting /\ [][NextRouting]_routingVars
  /\ FairSteps
  /\ \A q \in Queries : WF_routingVars(QueryStep(q))

-----------------------------------------------------------------------------
(* Properties *)

\* What may keep an indexer that is up out of a query's reach: it was down, or a
\* connection to it was lost and the subscription evicted it.
Disturbed == uses.outages > 0 \/ uses.drops > 0 \/ budget.faults > 0

\* A query that is asked ends, and unless something was lost an indexer answers
\* it as long as one listed is up: dead ones before it in the list, evicted as
\* they are met by this query, another one or a subscription, do not keep a
\* query from it, nor send it to the validator.
QueriesAreServed ==
  \A q \in Queries :
    query[q].at = "looking" ~> (query[q].at = "done" \/ (Disturbed /\ query[q].at \in {"failed", "no_data"}))
=============================================================================
