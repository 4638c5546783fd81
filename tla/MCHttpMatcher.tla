--------------------------- MODULE MCHttpMatcher ----------------------------
(* HttpMatcher for TLC: the keys are interchangeable.                      *)
EXTENDS HttpMatcher, TLC

KeySymmetry == Permutations(Keys)
=============================================================================
