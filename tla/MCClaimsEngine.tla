--------------------------- MODULE MCClaimsEngine ---------------------------
(***************************************************************************)
(* The engine on two or three bounties of one domain.  Keys and task       *)
(* identities are interchangeable, so the safety runs reduce by their      *)
(* permutations; the liveness runs do not.                                 *)
(***************************************************************************)
EXTENDS ClaimsEngine, TLC

CONSTANTS k1, k2, k3, d1, t1, t2, t3

OneDomain == [k \in Keys |-> d1]
Interchangeable == Permutations(Keys) \cup Permutations(TaskIds)
=============================================================================
