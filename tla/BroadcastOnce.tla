---------------------------- MODULE BroadcastOnce ----------------------------
(***************************************************************************)
(* What the wallet promises of its broadcasts: within a session an         *)
(* outpoint is spent by one transaction at a time, is given up only when   *)
(* that transaction cannot land any more, and success is told only of a    *)
(* transaction that landed.  The comments at                               *)
(* src/src/core/wallet-service.mjs:757-772 state it; Broadcasts            *)
(* implements it.                                                          *)
(***************************************************************************)
CONSTANTS Keys   \* outpoints

VARIABLES
  held,     \* outpoints of a transaction that may land or has landed
  landed,   \* outpoints whose transaction the node accepted
  told      \* outpoints whose transaction was reported as submitted

vars == <<held, landed, told>>

Init == held = {} /\ landed = {} /\ told = {}

Begin(k)   == k \notin held /\ held' = held \cup {k} /\ UNCHANGED <<landed, told>>

\* Only what is held lands: whatever was released never will.
Land(k)    == k \in held \ landed /\ landed' = landed \cup {k} /\ UNCHANGED <<held, told>>

Release(k) == k \in held \ landed /\ held' = held \ {k} /\ UNCHANGED <<landed, told>>

Confirm(k) == k \in landed /\ told' = told \cup {k} /\ UNCHANGED <<held, landed>>

\* The wallet is locked: a later session starts without reservations.
Reopen     == held' = {} /\ landed' = {} /\ told' = {}

Next ==
  \/ \E k \in Keys : Begin(k) \/ Land(k) \/ Release(k) \/ Confirm(k)
  \/ Reopen

Spec == Init /\ [][Next]_vars
=============================================================================
