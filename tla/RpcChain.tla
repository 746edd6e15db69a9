------------------------------ MODULE RpcChain ------------------------------
(***************************************************************************)
(* The chain as the light client's RPC endpoints show it (external).       *)
(*                                                                         *)
(* Blocks are numbered from 1.  `state[h]' is the application state after  *)
(* block h; its root is the app hash, and is modelled by the state itself  *)
(* (a root commits to one state).  The header of block h carries the app   *)
(* hash of the state BEFORE block h (light-client/client.ts, the comments  *)
(* on getVerifiedRootHashAtHeight).  Endpoints are honest, follow the      *)
(* chain at their own pace and may fail to answer.                         *)
(***************************************************************************)
EXTENDS Naturals, Sequences, FiniteSets

CONSTANTS
  NumEndpoints,  \* config.validatorEndpoints, in the order they are asked
  Values,        \* the application states told apart
  Genesis,       \* the state before block 1
  MaxHeight      \* bound: blocks produced

Endpoints == 1 .. NumEndpoints

ASSUME ChainAssumption == NumEndpoints \in Nat \ {0} /\ MaxHeight \in Nat \ {0}

VARIABLES
  state,  \* the application state after each block
  seen    \* the latest block of each endpoint

chainVars == <<state, seen>>

Tip == Len(state)

\* The app hash in the header of block h.
AppHash(h) == IF h = 1 THEN Genesis ELSE state[h - 1]

ChainInit ==
  /\ state \in [1 .. 1 -> Values]
  /\ seen = [e \in Endpoints |-> 1]

Produce ==
  /\ Tip < MaxHeight
  /\ \E v \in Values : state' = Append(state, v)
  /\ UNCHANGED seen

Follow(e) ==
  /\ seen[e] < Tip
  /\ seen' = [seen EXCEPT ![e] = @ + 1]
  /\ UNCHANGED state

ChainTypeOK ==
  /\ state \in Seq(Values) /\ Tip \in 1 .. MaxHeight
  /\ seen \in [Endpoints -> 1 .. Tip]
=============================================================================
