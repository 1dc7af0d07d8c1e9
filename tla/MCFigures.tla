----------------------------- MODULE MCFigures -----------------------------
(* The figures: the ledger row and its reconciliation, and the sizing of    *)
(* orders.  The two have no state in common: one order is sized beside the  *)
(* initial state of the ledger, which goes on only without.                 *)
EXTENDS Reconcile, Sizing

Quiet == orders = <<>> /\ events = 0 /\ unbooked = NotFilled /\ neighbour.net = 0

FiguresInit == ReconcileInit /\ SizingInit
FiguresNext ==
    \/ sized = NothingSized /\ ReconcileNext /\ UNCHANGED sized
    \/ sized = NothingSized /\ Quiet /\ SizingNext /\ UNCHANGED allVars
FiguresSpec == FiguresInit /\ [][FiguresNext]_<<allVars, sized>>
============================================================================
