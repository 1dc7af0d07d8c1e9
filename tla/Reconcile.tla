----------------------------- MODULE Reconcile -----------------------------
(***************************************************************************)
(* The ledger row beside what the venue holds: sync_strategy_positions,    *)
(* which sets the row to the live position, backfill_pnl_from_klines,      *)
(* which rebuilds its average entry, and audit_pnl (reconcile.py).         *)
(*                                                                         *)
(* A fill happens at the venue first and is booked later (PnlLedger).  The *)
(* sync reads the position, loads the row and writes it at three times,    *)
(* without _LEDGER_LOCK; its UPDATE has the columns it saw change.  The    *)
(* neighbour is another strategy on the same instrument: the venue knows   *)
(* only their sum.                                                         *)
(***************************************************************************)
EXTENDS PnlLedger

CONSTANTS MaxSteps      \* bound: the strategy's orders and the other events together

VARIABLES venue,        \* the position the venue reports
          unbooked,     \* a fill that is not booked yet, or NotFilled
          neighbour,    \* the other strategy: configured, and its row's net
          sync,         \* the sync: step, what it read, columns it will set, undisturbed so far
          events,       \* events that are no order of the strategy
          trusted,      \* ledger and venue were equal, and nothing has come between since
          rebased,      \* the row was set by a sync: the orders do not explain it
          estimated,    \* the average was rebuilt, or a disturbed sync set some columns only
          inOrder       \* every fill was booked in the order of creation

outside == <<venue, unbooked, neighbour, sync, events, trusted, rebased, estimated, inOrder>>
allVars == <<ledgerVars, outside>>

NoSync == [step |-> "idle", qty |-> 0, price |-> 0, sets |-> {}, clean |-> FALSE]

ReconcileInit ==
    /\ LedgerInit
    /\ neighbour \in [configured : BOOLEAN, net : {0, Lot}]
    /\ venue = neighbour.net /\ unbooked = NotFilled
    /\ sync = NoSync /\ events = 0
    /\ trusted = TRUE /\ rebased = FALSE /\ estimated = FALSE /\ inOrder = TRUE

RoomLeft == Len(orders) + events < MaxSteps
Event == RoomLeft /\ events' = events + 1

\* What an operation of the ledger does to a sync that is running.
Disturb == sync' = [sync EXCEPT !.clean = FALSE]
----------------------------------------------------------------------------
(* Fills *)

VenueFills(f) ==
    /\ unbooked = NotFilled
    /\ (RoomLeft /\ Len(orders) < MaxOrders) \/ \E i \in DOMAIN orders : orders[i] = NotFilled
    /\ venue' = venue + f.signed /\ unbooked' = f
    /\ Disturb
    /\ UNCHANGED <<ledgerVars, neighbour, events, trusted, rebased, estimated, inOrder>>

BookFill ==
    /\ unbooked # NotFilled
    /\ \/ CreateFilled(unbooked) /\ UNCHANGED inOrder
       \/ \E i \in DOMAIN orders :
             /\ FillLater(i, unbooked)
             /\ inOrder' = (inOrder /\ \A j \in DOMAIN orders : j > i => j \notin Filled)
    /\ unbooked' = NotFilled
    /\ Disturb
    /\ UNCHANGED <<venue, neighbour, events, trusted, rebased, estimated>>

CreateOrder == RoomLeft /\ CreateUnfilled /\ UNCHANGED outside

\* The session that should have booked it was rolled back, or its process died.
FillIsLost ==
    /\ unbooked # NotFilled /\ Event
    /\ unbooked' = NotFilled /\ trusted' = FALSE
    /\ UNCHANGED <<ledgerVars, venue, neighbour, sync, rebased, estimated, inOrder>>

TradeByHand(q) ==
    /\ Event
    /\ venue' = venue + q /\ trusted' = FALSE
    /\ Disturb
    /\ UNCHANGED <<ledgerVars, unbooked, neighbour, rebased, estimated, inOrder>>

\* The neighbour opens and closes one lot.
NeighbourTrades ==
    /\ neighbour.configured /\ Event
    /\ neighbour' = [neighbour EXCEPT !.net = Lot - @]
    /\ venue' = venue + neighbour'.net - neighbour.net
    /\ Disturb
    /\ UNCHANGED <<ledgerVars, unbooked, trusted, rebased, estimated, inOrder>>

\* An edit of strategies.yaml; the row stays when its strategy goes.
Configure ==
    /\ neighbour' = [neighbour EXCEPT !.configured = ~@] /\ Event
    /\ UNCHANGED <<ledgerVars, venue, unbooked, sync, trusted, rebased, estimated, inOrder>>
----------------------------------------------------------------------------
(* sync_strategy_positions *)

\* A strategy that is gone may have left a position behind, in its row and at the venue.
NeighbourCounts == neighbour.configured \/ neighbour.net = 0

\* Mutant of SyncRead: an instrument several strategies trade is not left out.
SyncReadShared ==
    /\ sync.step = "idle" /\ Event
    /\ \E p \in Prices :
          sync' = [step |-> "read", qty |-> venue, price |-> p, sets |-> {},
                   clean |-> unbooked = NotFilled /\ NeighbourCounts]
    /\ UNCHANGED <<ledgerVars, venue, unbooked, neighbour, trusted, rebased, estimated, inOrder>>

\* get_position answers, for an instrument one configured strategy trades.
SyncRead ==
    /\ sync.step = "idle" /\ ~neighbour.configured /\ Event
    /\ \E p \in Prices :
          sync' = [step |-> "read", qty |-> venue, price |-> p, sets |-> {},
                   clean |-> unbooked = NotFilled /\ NeighbourCounts]
    /\ UNCHANGED <<ledgerVars, venue, unbooked, neighbour, trusted, rebased, estimated, inOrder>>

\* The row is loaded; the columns whose values the sync changes go into its UPDATE.
SyncLoad ==
    /\ sync.step = "read"
    /\ sync' = [sync EXCEPT !.step = "loaded",
                            !.sets = {c \in {"net", "avg"} :
                                        IF c = "net" THEN sync.qty # row.net
                                        ELSE Whole(sync.price) # row.avg}]
    /\ UNCHANGED <<ledgerVars, venue, unbooked, neighbour, events, trusted, rebased, estimated, inOrder>>

\* Mutant of Synced: the position is added to the row.
SyncedByAdding(r) == [r EXCEPT !.net = @ + sync.qty, !.avg = Whole(sync.price)]

\* Realized PnL is no column of it.
Synced(r) == [r EXCEPT !.net = IF "net" \in sync.sets THEN sync.qty ELSE @,
                       !.avg = IF "avg" \in sync.sets THEN Whole(sync.price) ELSE @]

\* The flush, with the next query or at the commit.
SyncWrite ==
    /\ sync.step = "loaded"
    /\ row' = Synced(row)
    /\ cash' = Plus(row'.realized, Times(row'.avg, -row'.net))
    /\ leg' = IF row'.net = 0 THEN {} ELSE {sync.price}
    /\ trusted' = sync.clean
    /\ rebased' = TRUE
    /\ estimated' = ~sync.clean
    /\ sync' = NoSync
    /\ UNCHANGED <<orders, venue, unbooked, neighbour, events, inOrder>>

\* The session is rolled back: the lock was not free, or the process died.
SyncFails == /\ sync.step # "idle"
             /\ sync' = NoSync
             /\ UNCHANGED <<ledgerVars, venue, unbooked, neighbour, events, trusted, rebased, estimated, inOrder>>
----------------------------------------------------------------------------
(* backfill_pnl_from_klines *)

\* The replay explains the row: the nets are within 1% of each other.
NetMatches == 100 * Abs(Replay.net - row.net) <= Abs(row.net)

Backfill ==
    /\ Filled # {} /\ NetMatches /\ Event
    /\ Replay.avg.n > 0 /\ Replay.avg # row.avg
    /\ row' = [row EXCEPT !.avg = Replay.avg]
    /\ estimated' = TRUE
    /\ Disturb
    /\ UNCHANGED <<orders, cash, leg, venue, unbooked, neighbour, trusted, rebased, inOrder>>
----------------------------------------------------------------------------
ReconcileNext ==
    \/ CreateOrder \/ BookFill \/ FillIsLost
    \/ \E f \in Fills : VenueFills(f)
    \/ \E q \in {-Lot, Lot} : TradeByHand(q)
    \/ NeighbourTrades \/ Configure
    \/ SyncRead \/ SyncLoad \/ SyncWrite \/ SyncFails
    \/ Backfill

ReconcileSpec == ReconcileInit /\ [][ReconcileNext]_allVars
----------------------------------------------------------------------------
(* Properties *)

\* The exchange check of audit_pnl is clean: the rows of an instrument add up to what the venue
\* holds, as long as every fill is booked and nobody trades by hand; and a sync no fill came
\* between makes it so again, whatever the drift was, unless a strategy that is gone left a
\* position behind.
LedgerIsVenue == trusted /\ unbooked = NotFilled => row.net + neighbour.net = venue

\* The strategy check of audit_pnl is clean, of a row no sync has set: for a flat position
\* whatever the order of booking, for an open one when fills were booked as they were created.
\* So what it reports is a defect of the ledger, and the backfill leaves such rows alone.
AuditIsClean ==
    ~rebased /\ ~estimated /\ (row.net = 0 \/ inOrder) => Replay = row

\* CostBasis and AvgIsOfThisLeg of PnlLedger, counted from the last sync that nothing disturbed
\* (it enters at the mark), as long as the average is the ledger's own.
CostBasisKept == estimated \/ CostBasis
AvgIsOfLeg == estimated \/ row.net = 0 \/ AvgIsOfThisLeg
============================================================================
