--------------------------- MODULE MCWalletSession ---------------------------
(***************************************************************************)
(* Two recovery phrases under one or two passwords.                        *)
(***************************************************************************)
EXTENDS WalletSession, TLC

CONSTANTS s1, s2, p1, p2

Interchangeable == Permutations(Seeds) \cup Permutations(Passwords)
=============================================================================
