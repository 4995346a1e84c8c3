----------------------------- MODULE WebSessionMC -----------------------------
(* Small instances of WebSession for TLC.                                  *)
EXTENDS WebSession, TLC

CONSTANTS a1, b1, b2, c1, c2, c3, k1, k2, k3, k4, r1, r2

OneCall     == {<<b1, c1>>}
OneCallEach == {<<b1, c1>>, <<b2, c1>>}
TwoCalls    == {<<b1, c1>>, <<b1, c2>>}

\* The two calls of a tab, tokens and requests are not ordered anywhere.
SessionSymmetry ==
  Permutations({c1, c2}) \cup Permutations(Token) \cup Permutations(Request)
=============================================================================
