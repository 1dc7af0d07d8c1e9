------------------------------- MODULE Sizing -------------------------------
(***************************************************************************)
(* The arithmetic that sizes orders to a venue's grid: managed opens       *)
(* (portfolio.py, and the manual fire on the admin page), the two legs of  *)
(* a pair (arb_executor.py), and the rounding of the adapters.             *)
(*                                                                         *)
(* Quantities and steps are integers in the finest unit of any grid,       *)
(* prices are the value of one such unit, amounts are integers; 0 stands   *)
(* for "not there" (no size, no minimum, no cap, no price) and for a       *)
(* refusal, as it does in the code.  The code works in Decimal, so the     *)
(* integer operations are exact counterparts.                              *)
(***************************************************************************)
EXTENDS Integers

CONSTANTS Amounts, UnitPrices, Steps   \* bound: the inputs the checks go through

VARIABLE sized       \* the latest sizing: its inputs and its result

ASSUME SizingAssumption == /\ Amounts \subseteq Nat /\ UnitPrices \subseteq Nat \ {0}
                           /\ Steps \subseteq Nat \ {0}

Larger(x, y) == IF x < y THEN y ELSE x

\* Integer division rounded up.
CeilDiv(x, d) == (x + d - 1) \div d
----------------------------------------------------------------------------
(* Grids *)

\* _snap_down and _snap_nearest, on whole units.
SnapDown(q, step) == (q \div step) * step
SnapNearest(q, step) == ((2 * q + step) \div (2 * step)) * step

\* Mutant of ManagedQty: to the nearest step.
ManagedQtyNearest(usdt, price, step) == SnapNearest(usdt \div price, step)

\* compute_managed_qty: the largest multiple of the step that usdt pays for.
ManagedQty(usdt, price, step) ==
    IF usdt <= 0 \/ price <= 0 \/ step <= 0 THEN 0
    ELSE (usdt \div (price * step)) * step

\* Mutant of MinQty: rounded down.
MinQtyDown(notional, price, step) ==
    IF notional <= 0 \/ price <= 0 \/ step <= 0 THEN 0
    ELSE (notional \div (price * step)) * step

\* _min_qty, _min_qty_for_notional: the smallest multiple of the step worth the minimum.
MinQty(notional, price, step) ==
    IF notional <= 0 \/ price <= 0 \/ step <= 0 THEN 0
    ELSE CeilDiv(notional, price * step) * step
----------------------------------------------------------------------------
(* Managed opens *)

\* Mutant of OpenQty: the minimum is not looked at.
OpenQtyNoMinimum(size, price, step, min, cap) ==
    LET q == ManagedQty(size, price, step) IN
    IF cap > 0 /\ q * price > cap THEN 0 ELSE q

\* decide, flat, with a position_size: 0 is a REJECT.
OpenQty(size, price, step, min, cap) ==
    LET q == ManagedQty(size, price, step) IN
    IF q * price < min \/ (cap > 0 /\ q * price > cap) THEN 0 ELSE q

\* ... and without one (paper mode); the cap is not looked at.
PaperQty(price, step, min) ==
    IF min > 0 /\ price > 0 THEN Larger(step, MinQty(min, price, step)) ELSE step

\* fire_limit: an explicit quantity, or the size at the limit price; 0 is skipped.
FireQty(explicit, size, price, step, cap) ==
    LET q == IF explicit > 0 THEN explicit ELSE ManagedQty(size, price, step) IN
    IF cap > 0 /\ q * price > cap THEN 0 ELSE q

\* What the adapters order: Bybit floors to its grid, Hyperliquid rounds to it.
Ordered(q, step) == {SnapDown(q, step), SnapNearest(q, step)}
----------------------------------------------------------------------------
(* Pairs *)

Legs2 == {1, 2}

\* The larger of the two steps; in the mutant the smaller.
FineStep(steps) == IF steps[1] < steps[2] THEN steps[1] ELSE steps[2]
Coarse(steps) == Larger(steps[1], steps[2])

\* Mutant of Clears: the reference price decides for both legs.
ClearsAtReference(q, prices, mins) == \A l \in Legs2 : q * prices[2] >= mins[l]

\* The re-check of size_pair: each leg is worth its own venue's minimum at its own price.
Clears(q, prices, mins) == \A l \in Legs2 : q * prices[l] >= mins[l]

\* size_pair; leg 2 is the perp and gives the reference price.  "min" pads each minimum
\* by _MIN_NOTIONAL_BUFFER (1.2).  0 is a SizingError.
PairQty(mode, notional, steps, prices, mins) ==
    LET c == Coarse(steps)
        padded(l) == CeilDiv(12 * mins[l], 10 * prices[l] * c) * c
        q == IF mode = "min" THEN Larger(Larger(padded(1), padded(2)), c)
             ELSE ManagedQty(notional, prices[2], c)
    IN  IF Clears(q, prices, mins) THEN q ELSE 0
----------------------------------------------------------------------------
(* The requests that have something sized *)

NothingSized == [kind |-> "nothing", qty |-> 0]

SizingInit == sized = NothingSized

\* decide, of a strategy with a position_size.
SizeOpen(size, price, step, min, cap) ==
    sized' = [kind |-> "open", size |-> size, price |-> price, step |-> step, min |-> min,
              cap |-> cap, qty |-> OpenQty(size, price, step, min, cap)]

SizePaper(price, step, min) ==
    sized' = [kind |-> "paper", price |-> price, step |-> step, min |-> min,
              qty |-> PaperQty(price, step, min)]

\* fire_limit without an explicit quantity.
SizeFire(size, price, step, cap) ==
    sized' = [kind |-> "fire", size |-> size, price |-> price, step |-> step, cap |-> cap,
              qty |-> FireQty(0, size, price, step, cap)]

SizePair(mode, notional, steps, prices, mins) ==
    sized' = [kind |-> mode, notional |-> notional, steps |-> steps, prices |-> prices,
              mins |-> mins, qty |-> PairQty(mode, notional, steps, prices, mins)]

SizingNext ==
    \/ \E price \in UnitPrices, step \in Steps, min \in Amounts :
          \/ SizePaper(price, step, min)
          \/ \E size, cap \in Amounts : \/ SizeOpen(size, price, step, min, cap)
                                       \/ SizeFire(size, price, step, cap)
    \/ \E mode \in {"min", "notional"}, notional \in Amounts, steps \in [Legs2 -> Steps],
          prices \in [Legs2 -> UnitPrices], mins \in [Legs2 -> Amounts] :
          SizePair(mode, notional, steps, prices, mins)

SizingSpec == SizingInit /\ [][SizingNext]_sized
----------------------------------------------------------------------------
(* Properties *)

OnGrid(q, step) == q % step = 0

\* One step is a multiple of the other, as those of venues with decimal steps are.
Nested(steps) == steps[1] % steps[2] = 0 \/ steps[2] % steps[1] = 0

WithinMeans(q) == /\ q * sized.price <= sized.size
                  /\ sized.cap > 0 => q * sized.price <= sized.cap
                  /\ (q + sized.step) * sized.price > sized.size

IsSmallest(q) == /\ q >= sized.step /\ q * sized.price >= sized.min
                 /\ q = sized.step \/ (q - sized.step) * sized.price < sized.min

\* A managed open, and the limit of a manual fire, cost no more than the position size and the
\* cap and use the size up to less than one step; an open is worth the venue's minimum; a paper
\* order is the smallest that is.  The rounding of either adapter leaves them unchanged: what
\* was checked is what is ordered.
OpenIsPlaceable ==
    sized.kind \in {"open", "fire", "paper"} /\ sized.qty > 0 =>
        /\ Ordered(sized.qty, sized.step) = {sized.qty}
        /\ sized.kind \in {"open", "fire"} => WithinMeans(sized.qty)
        /\ sized.kind = "open" => sized.qty * sized.price >= sized.min
        /\ sized.kind = "paper" => IsSmallest(sized.qty)

\* Both legs of a pair can be ordered at the quantity it is sized to: it lies on both grids
\* (if they are nested), is worth both minima, stays within the
\* notional, and "min" always finds one.
PairIsPlaceable ==
    sized.kind \in {"min", "notional"} =>
        /\ sized.kind = "min" => sized.qty > 0
        /\ sized.kind = "notional" => sized.qty * sized.prices[2] <= sized.notional
        /\ sized.qty > 0 => \A l \in Legs2 :
              /\ sized.qty * sized.prices[l] >= sized.mins[l]
              /\ Nested(sized.steps) => OnGrid(sized.qty, sized.steps[l])
============================================================================
