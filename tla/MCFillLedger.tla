--------------------------- MODULE MCFillLedger ---------------------------
(* Three fills on one instrument: two of one strategy, which share a ledger *)
(* row, and one of another strategy, which shares the aggregate row only.   *)
EXTENDS FillLedger, TLC
CONSTANTS s1, s2, btc, f1, f2, f3
MCStrategies == {s1, s2}
MCInstruments == {btc}
MCFills == {f1, f2, f3}
MCStrategyOf == f1 :> s1 @@ f2 :> s1 @@ f3 :> s2
MCInstrumentOf == [f \in MCFills |-> btc]
============================================================================
