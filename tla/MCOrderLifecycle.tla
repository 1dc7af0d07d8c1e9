------------------------- MODULE MCOrderLifecycle -------------------------
(* Values for the runs of OrderLifecycle.                                   *)
EXTENDS OrderLifecycle, TLC
CONSTANTS d1, d2, d3, k1, k2

\* A buy, then a repeat and the closing sell under one key (the alert_id of one bar), of
\* which whichever is delivered first counts.
BuyBuySell == {d1, d2, d3}
BuyBuySellKeys == d1 :> k1 @@ d2 :> k2 @@ d3 :> k2
BuyBuySellActions == d1 :> "buy" @@ d2 :> "buy" @@ d3 :> "sell"

\* One signal of an alert-driven route, on every venue of the route.
SarSignals == {d1}
SarKeys == d1 :> k1
SarActions == d1 :> "buy"

OneVenue == <<"bybit">>
TwoVenues == <<"bybit", "hyperliquid">>
NoSar == {}
============================================================================
