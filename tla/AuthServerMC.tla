----------------------------- MODULE AuthServerMC -----------------------------
(* A small instance of AuthServer for TLC.                                 *)
EXTENDS AuthServer, TLC

CONSTANTS a1, a2, k1, k2, k3, r1, r2

\* Neither accounts, tokens nor requests are ordered anywhere.
AuthSymmetry ==
  Permutations(Account) \cup Permutations(Token) \cup Permutations(Request)
=============================================================================
