-------------------------- MODULE MCBountyDiscovery --------------------------
(* A chain of three heights, with a rival block at the second.             *)
EXTENDS BountyDiscovery

CONSTANTS b1, b2, b3, c2

MCHeight  == [b \in Blocks |-> CASE b = b1 -> 1 [] b = b3 -> 3 [] OTHER -> 2]
MCParent  == [b \in Blocks |-> CASE b = b1 -> None [] b = b3 -> b2 [] OTHER -> b1]
MCGenesis == <<b1, b2>>
=============================================================================
