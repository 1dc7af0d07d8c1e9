------------------------------ MODULE PairBook ------------------------------
(***************************************************************************)
(* What the arb book promises, without tasks, sessions or locks: the       *)
(* committed status of each pair and the legs whose orders filled.  A pair *)
(* is opened once per key; a fill is recorded once and for good, the       *)
(* hedge's only after the fill it hedges; and a pair is "open" only when   *)
(* both legs filled.  "open" may come again after a close was accepted or  *)
(* even done, as the open's task writes its verdict over any status.       *)
(***************************************************************************)
CONSTANTS Requests,   \* open requests, each the name of the arb it creates
          KeyOf       \* the idempotency key each carries

VARIABLES status,     \* ArbPosition.status, or "none"
          filled      \* the legs <<r, "spot">> and <<r, "perp">> whose orders succeeded

pairVars == <<status, filled>>

Legs == Requests \X {"spot", "perp"}
Exists(r) == status[r] # "none"
Filled(r) == {<<r, "spot">>, <<r, "perp">>} \subseteq filled

Init == /\ status = [r \in Requests |-> "none"]
        /\ filled = {}

Open(r) == /\ \A q \in Requests : KeyOf[q] = KeyOf[r] => ~Exists(q)
           /\ status' = [status EXCEPT ![r] = "opening"]
           /\ UNCHANGED filled

\* A commit records one fill, or those of a whole pass.
Fill(S) == /\ S # {} /\ S \cap filled = {}
           /\ \A x \in S : /\ Exists(x[1])
                           /\ x[2] = "perp" => <<x[1], "spot">> \in filled
           /\ filled' = filled \cup S
           /\ UNCHANGED status

Set(r, new) == /\ Exists(r)
               /\ status' = [status EXCEPT ![r] = new]
               /\ UNCHANGED filled

Next == \/ \E r \in Requests :
              \/ Open(r)
              \/ Filled(r) /\ Set(r, "open")
              \/ \E new \in {"error", "closing", "closed"} : Set(r, new)
        \/ \E S \in SUBSET Legs : Fill(S)

Spec == Init /\ [][Next]_pairVars
=============================================================================
