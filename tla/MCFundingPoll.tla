--------------------------- MODULE MCFundingPoll ---------------------------
(* Two pairs of one symbol, one after the other; they are interchangeable.  *)
EXTENDS FundingPoll, TLC

ArbSymmetry == Permutations(Arbs)
============================================================================
