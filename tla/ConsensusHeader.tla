--------------------------- MODULE ConsensusHeader --------------------------
(***************************************************************************)
(* What the light client makes of its endpoints' answers when it asks them *)
(* for a header or for their latest height (light-client/client.ts:        *)
(* findConsensusHeader, getLatestHeightFromValidators).  An answer is a    *)
(* height, or 0 for an endpoint that failed.                               *)
(***************************************************************************)
EXTENDS RpcChain

CONSTANT MinValidators  \* minValidatorsForConsensus

ASSUME MinValidatorsAssumption == MinValidators \in 1 .. NumEndpoints

\* The first answer of the first of the largest groups of answers that are
\* alike, if that group has enough answers.
MostCommon(answers, Alike(_, _)) ==
  LET answered == {e \in Endpoints : answers[e] # 0}
      votes(e) == Cardinality({f \in answered : Alike(answers[e], answers[f])})
  IN  {answers[e] : e \in {e \in answered :
         /\ votes(e) >= MinValidators
         /\ \A f \in answered : votes(f) < votes(e) \/ (votes(f) = votes(e) /\ e <= f)}}

\* findConsensusHeader tells headers apart by their app hash.
SameAppHash(g, h) == AppHash(g) = AppHash(h)

ConsensusHeights(answers) == MostCommon(answers, SameAppHash)

\* getLatestHeightFromValidators: the height most endpoints give.
SameHeight(g, h) == g = h

LatestHeights(answers) == MostCommon(answers, SameHeight)
=============================================================================
