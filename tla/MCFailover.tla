----------------------------- MODULE MCFailover -----------------------------
(* A route whose default cannot be called and whose fallback can. *)
EXTENDS Failover, TLC

CONSTANTS p1, p2, r1, r2, r3

TwoInChain == <<p1, p2>>

\* As many requests in flight as it takes to park a provider at once.
MCRequest == {r1, r2, r3}
=============================================================================
