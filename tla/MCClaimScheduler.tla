-------------------------- MODULE MCClaimScheduler --------------------------
(* Two bounties of one domain, with different masks, and one of another.   *)
EXTENDS ClaimScheduler

MCDomainOf == [k \in Keys |-> IF k = 3 THEN 2 ELSE 1]
MCPolicyOf == [k \in Keys |-> k]
MCRankings == {<<2, 2, 2>>, <<1, 2, 0>>}
MCRates    == {<<3, 1, 2>>}
=============================================================================
