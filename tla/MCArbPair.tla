----------------------------- MODULE MCArbPair -----------------------------
(* Values for the runs of ArbPair.                                          *)
EXTENDS ArbPair, TLC
CONSTANTS r1, r2, k1, k2, c1

\* Two opens of one asset, under one key (a repeat).
Two == {r1, r2}
RepeatKeys == r1 :> k1 @@ r2 :> k1
SameAsset == r1 :> "BTC" @@ r2 :> "BTC"

\* One open.
Single == {r1}
SingleKey == r1 :> k1
SingleAsset == r1 :> "BTC"

OneClose == {c1}
SomeOrAll == {4, 12}
All == {12}
============================================================================
