--------------------------- MODULE AllocatorSpec ----------------------------
(***************************************************************************)
(* The nonce allocator of one DID as its callers see it: the operations of *)
(* NonceAllocator in any order, with any of the reports the chain may give *)
(* (in any order: an answer may be older than the one before).  It is what *)
(* the bit-level allocator of NonceBits is proved to implement.            *)
(***************************************************************************)
EXTENDS NonceAllocator

CONSTANTS
  Reports,  \* the nonce states the chain's answers may carry
  Nonces    \* the nonces callers may hold and give back

Next ==
  \/ \E r \in Reports \cup {NoState} :
       \/ \E n \in Nonces : Take(r, n)
       \/ TakeFromFullWindow(r)
  \/ \E n \in Nonces : Hold(n) \/ Release(n)
  \/ Elapse

Spec == AllocatorInit /\ [][Next]_allocatorVars
=============================================================================
