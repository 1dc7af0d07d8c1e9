-------------------------- MODULE MCStrategyStore --------------------------
(* Values for the run of StrategyStore: two requests, interchangeable.      *)
EXTENDS StrategyStore, TLC

Symmetric == Permutations(Editors)
============================================================================
