---------------------------- MODULE LedgerBook ----------------------------
(***************************************************************************)
(* What the two ledgers of the middleware promise, without locks, sessions *)
(* or commits: a fill is first made durable as an Order row (recorded) and *)
(* then booked, in ONE step, in the aggregate row of its instrument and in *)
(* the row of its strategy.  A ledger row is the set of fills its figures  *)
(* account for; its net quantity is the signed sum of that set.            *)
(***************************************************************************)
CONSTANTS Strategies,    \* strategy ids
          Instruments,   \* (exchange, symbol) pairs
          Fills,         \* fills the venues report
          StrategyOf,    \* [Fills -> Strategies]
          InstrumentOf   \* [Fills -> Instruments]

VARIABLES recorded,          \* fills whose Order row is committed as filled
          position,          \* Position: one aggregate row per instrument
          strategyPosition   \* StrategyPosition: one row per (strategy, instrument)

bookVars == <<recorded, position, strategyPosition>>

Rows == Strategies \X Instruments
RowOf(f) == <<StrategyOf[f], InstrumentOf[f]>>
IsBooked(f) == f \in position[InstrumentOf[f]]

Init == /\ recorded = {}
        /\ position = [i \in Instruments |-> {}]
        /\ strategyPosition = [r \in Rows |-> {}]

Record(f) == /\ f \notin recorded
             /\ recorded' = recorded \cup {f}
             /\ UNCHANGED <<position, strategyPosition>>

Book(f) == /\ f \in recorded
           /\ ~IsBooked(f)
           /\ position' = [position EXCEPT ![InstrumentOf[f]] = @ \cup {f}]
           /\ strategyPosition' = [strategyPosition EXCEPT ![RowOf(f)] = @ \cup {f}]
           /\ UNCHANGED recorded

Next == \E f \in Fills : Record(f) \/ Book(f)

Spec == Init /\ [][Next]_bookVars
============================================================================
