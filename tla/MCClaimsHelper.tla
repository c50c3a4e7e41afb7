---------------------------- MODULE MCClaimsHelper ----------------------------
(* Three attempts for one bounty, and resolutions of its domain.           *)
EXTENDS ClaimsHelper, TLC

CONSTANTS a1, a2, a3, r1, r2, b1, d1

MCBounty == [a \in Attempts |-> b1]
MCDomain == [j \in Jobs |-> d1]
MCSymmetry == Permutations(Attempts) \cup Permutations(Resolves)
=============================================================================
