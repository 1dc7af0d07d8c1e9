----------------------------- MODULE PnlLedger -----------------------------
(***************************************************************************)
(* The figures of one StrategyPosition row: average entry and realized PnL *)
(* by _fill_math (executor.py), and the replay audit_pnl (reconcile.py)    *)
(* compares them with.                                                     *)
(*                                                                         *)
(* The ledger takes fills in the order they are booked.  The replay takes  *)
(* them in the order of Order.created_at, and an order that rested or was  *)
(* retried was created before it filled.  Quantities are integers, in      *)
(* units of _POSITION_EPS and multiples of Lot, prices are integers, and   *)
(* averages are exact fractions where the code has floats.                 *)
(***************************************************************************)
EXTENDS Integers, Sequences

CONSTANTS MaxOrders,   \* bound: orders of the strategy on the instrument
          Lot,         \* the venue's step, in units of _POSITION_EPS
          MaxLots,     \* bound: lots of one fill
          Prices       \* bound: fill prices

ASSUME LotAboveEps == Lot \in Nat /\ Lot > 1
ASSUME PricesPositive == Prices \subseteq Nat \ {0}

VARIABLES orders,    \* Order rows by created_at: what each filled, or NotFilled
          row,       \* the StrategyPosition row, [net, avg, realized]
          cash,      \* cash flow of the fills, a fraction: the reference the row is judged by
          leg        \* prices at which the current position was entered

ledgerVars == <<orders, row, cash, leg>>

Abs(x) == IF x < 0 THEN -x ELSE x
Smaller(x, y) == IF x < y THEN x ELSE y

\* Fractions, written with their smallest denominator.
Frac(n, d) ==
    LET e == CHOOSE e \in 1..d : (n * e) % d = 0 /\ \A k \in 1..(e - 1) : (n * k) % d # 0
    IN  [n |-> (n * e) \div d, d |-> e]
Whole(k) == Frac(k, 1)
Plus(x, y) == Frac(x.n * y.d + y.n * x.d, x.d * y.d)
Times(x, k) == Frac(x.n * k, x.d)
Over(x, k) == Frac(x.n, x.d * k)
AtMost(x, y) == x.n * y.d <= y.n * x.d

NotFilled == [signed |-> 0, price |-> 0]
NoRow == [net |-> 0, avg |-> Whole(0), realized |-> Whole(0)]

Flat(q) == Abs(q) < 1                 \* abs(q) < _POSITION_EPS
SameSide(x, y) == (x > 0) = (y > 0)

\* Mutants of NewAvg: signed quantities in the weights; a reversal keeps the old entry.
NewAvgSigned(old, avg, signed, price) ==
    IF Flat(old) THEN Whole(price)
    ELSE IF SameSide(old, signed)
         THEN Over(Plus(Times(avg, old), Whole(signed * price)), Abs(old) + Abs(signed))
    ELSE IF Abs(signed) > Abs(old) + 1 THEN Whole(price)
    ELSE IF Flat(old + signed) THEN Whole(0)
    ELSE avg
NewAvgNoReversal(old, avg, signed, price) ==
    IF Flat(old) THEN Whole(price)
    ELSE IF SameSide(old, signed)
         THEN Over(Plus(Times(avg, Abs(old)), Whole(Abs(signed) * price)), Abs(old) + Abs(signed))
    ELSE IF Flat(old + signed) THEN Whole(0)
    ELSE avg

\* _fill_math: the average entry after a fill ...
NewAvg(old, avg, signed, price) ==
    LET qty == Abs(signed) IN
    IF Flat(old) THEN Whole(price)
    ELSE IF SameSide(old, signed)
         THEN Over(Plus(Times(avg, Abs(old)), Whole(qty * price)), Abs(old) + qty)
    ELSE IF qty > Abs(old) + 1 THEN Whole(price)
    ELSE IF Flat(old + signed) THEN Whole(0)
    ELSE avg

\* Mutants of Realized: the whole fill is realized, not the part it closes; a short's
\* PnL has the sign of a long's.
RealizedOnWholeFill(old, avg, signed, price) ==
    IF Flat(old) \/ SameSide(old, signed) THEN Whole(0)
    ELSE Times(Plus(Whole(price), Times(avg, -1)), (IF old > 0 THEN 1 ELSE -1) * Abs(signed))
RealizedAsLong(old, avg, signed, price) ==
    IF Flat(old) \/ SameSide(old, signed) THEN Whole(0)
    ELSE Times(Plus(Whole(price), Times(avg, -1)), Smaller(Abs(signed), Abs(old)))

\* ... and the PnL it realizes on the part it closes.
Realized(old, avg, signed, price) ==
    IF Flat(old) \/ SameSide(old, signed) THEN Whole(0)
    ELSE Times(Plus(Whole(price), Times(avg, -1)),
               (IF old > 0 THEN 1 ELSE -1) * Smaller(Abs(signed), Abs(old)))

\* One fill of _apply_strategy_fill; the first creates the row.
ApplyFill(r, f) ==
    [net |-> r.net + f.signed,
     avg |-> NewAvg(r.net, r.avg, f.signed, f.price),
     realized |-> Plus(r.realized, Realized(r.net, r.avg, f.signed, f.price))]

\* audit_pnl: the success orders by created_at, from a flat start.
Filled == {i \in DOMAIN orders : orders[i] # NotFilled}
Replay ==
    LET after[i \in 0..Len(orders)] ==
            IF i = 0 THEN NoRow
            ELSE IF i \in Filled THEN ApplyFill(after[i - 1], orders[i]) ELSE after[i - 1]
    IN  after[Len(orders)]

LedgerInit == /\ orders = <<>>
        /\ row = NoRow
        /\ cash = Whole(0)
        /\ leg = {}

Fills == [signed : {s * k * Lot : s \in {-1, 1}, k \in 1..MaxLots}, price : Prices]

Book(f) ==
    /\ row' = ApplyFill(row, f)
    /\ cash' = Plus(cash, Whole(-(f.signed * f.price)))
    /\ leg' = IF row'.net = 0 THEN {}
              ELSE IF row.net # 0 /\ SameSide(row.net, row'.net)
                   THEN IF SameSide(row.net, f.signed) THEN leg \cup {f.price} ELSE leg
              ELSE {f.price}

\* The Order row of a limit entry that rests, or of an order that is to be retried.
CreateUnfilled ==
    /\ Len(orders) < MaxOrders
    /\ orders' = Append(orders, NotFilled)
    /\ UNCHANGED <<row, cash, leg>>

\* A market order: its row is created and booked inside one _LEDGER_LOCK section.
CreateFilled(f) ==
    /\ Len(orders) < MaxOrders
    /\ orders' = Append(orders, f)
    /\ Book(f)

\* The poller or the retry worker books an order created earlier.
FillLater(i, f) ==
    /\ orders[i] = NotFilled
    /\ orders' = [orders EXCEPT ![i] = f]
    /\ Book(f)
----------------------------------------------------------------------------
(* Properties *)

\* The cost-basis identity of tests/test_pnl_properties.py, over every sequence of opens,
\* increases, partial closes and reversals: realized PnL is the cash that came in plus
\* what the open position cost.
CostBasis == row.realized = Plus(cash, Times(row.avg, row.net))

\* The average entry lies between the prices at which the current position was entered;
\* entries of a leg that was closed or reversed are forgotten, partial closes are not.
AvgIsOfThisLeg ==
    IF row.net = 0 THEN row.avg = Whole(0)
    ELSE /\ \E p \in leg : AtMost(Whole(p), row.avg)
         /\ \E p \in leg : AtMost(row.avg, Whole(p))
============================================================================
