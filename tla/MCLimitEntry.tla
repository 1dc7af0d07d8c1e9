--------------------------- MODULE MCLimitEntry ---------------------------
(* Values for the runs of LimitEntry: an entry and the signal of the other  *)
(* side, which cancels it, closes it, or opens after it.                    *)
EXTENDS LimitEntry, TLC
CONSTANTS d1, d2

EntryAndClose == {d1, d2}
EntryAndCloseActions == d1 :> "buy" @@ d2 :> "sell"
============================================================================
