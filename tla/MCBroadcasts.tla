---------------------------- MODULE MCBroadcasts ----------------------------
(* Claims of one outpoint, payments from another, and a bounty stream.     *)
EXTENDS Broadcasts

CONSTANTS c1, p1, s1, k1, k2, n1, n2

MCMethod == [r \in Requests |-> IF r = s1 THEN "stream" ELSE "broadcast"]
MCTarget == [a \in Broadcasts |-> IF a = p1 THEN k2 ELSE k1]
=============================================================================
