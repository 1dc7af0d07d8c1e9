---------------------------- MODULE FillLedger ----------------------------
(***************************************************************************)
(* One fill from the portfolio decision to the ledgers: the session of     *)
(* _dispatch_venue (routes/webhook.py), execute_order and                  *)
(* _apply_fill_to_position (executor.py), over SQLite (db.py).             *)
(*                                                                         *)
(* Every fill has a session of its own, run by a thread of the pool.  The  *)
(* threads share                                                           *)
(*   ledgerLock  the process-wide _LEDGER_LOCK,                            *)
(*   writer      SQLite's single write lock, taken by a session's first    *)
(*               flushed statement and kept until it commits,              *)
(* and the committed tables.  A session keeps ORM objects it has read      *)
(* (cached) until a commit expires them; a ledger row is the set of fills  *)
(* its figures account for (see LedgerBook).                               *)
(***************************************************************************)
CONSTANTS Strategies, Instruments, Fills, StrategyOf, InstrumentOf,
          None,        \* nobody holds the lock
          Other        \* a writer of the database that books no fill

ASSUME FillConstants ==
    /\ StrategyOf \in [Fills -> Strategies]
    /\ InstrumentOf \in [Fills -> Instruments]
    /\ None \notin Fills /\ Other \notin Fills /\ None # Other

VARIABLES pc,                \* where the session of each fill is
          ledgerLock, writer,
          cached,            \* the session's live copy of its StrategyPosition row: {row} or {}
          riskRow,           \* the RiskSettings singleton exists
          recorded,          \* fills whose Order row is committed as success
          stamped,           \* fills whose Order row carries its realized PnL
          position,          \* Position rows (aggregate)
          strategyPosition   \* StrategyPosition rows

tables == <<riskRow, recorded, stamped, position, strategyPosition>>
vars == <<pc, ledgerLock, writer, cached, tables>>

Rows == Strategies \X Instruments
RowOf(f) == <<StrategyOf[f], InstrumentOf[f]>>

Active   == {"calling", "filled", "locked", "recorded", "bumped", "applied", "booked"}
Critical == {"locked", "recorded", "bumped", "applied"}   \* inside `with _LEDGER_LOCK`
Ended    == {"done", "dropped", "crashed"}

Init == /\ pc = [f \in Fills |-> "idle"]
        /\ ledgerLock = None
        /\ writer = None
        /\ cached = [f \in Fills |-> {}]
        /\ riskRow \in BOOLEAN        \* nobody used the risk settings yet, or somebody did
        /\ recorded = {} /\ stamped = {}
        /\ position = [i \in Instruments |-> {}]
        /\ strategyPosition = [r \in Rows |-> {}]

Goto(f, where) == pc' = [pc EXCEPT ![f] = where]

\* Mutant of Decide: get_risk_settings flushes on every call.
DecideFlushes(f) ==
    /\ pc[f] = "idle"
    /\ writer = None /\ writer' = f
    /\ \E copy \in {{strategyPosition[RowOf(f)]}, {}} : cached' = [cached EXCEPT ![f] = copy]
    /\ Goto(f, "calling")
    /\ UNCHANGED <<ledgerLock, tables>>

(***************************************************************************)
(* decide: get_risk_settings inserts and FLUSHES the singleton when it is  *)
(* missing, so the session then holds the write lock, across the exchange  *)
(* call too; a managed strategy also reads its StrategyPosition row        *)
(* (_net_qty) into the session.  A replay of the retry worker, which does  *)
(* not decide, is the case of an existing row with nothing cached.         *)
(***************************************************************************)
Decide(f) ==
    /\ pc[f] = "idle"
    /\ \/ riskRow /\ UNCHANGED writer
       \/ ~riskRow /\ writer = None /\ writer' = f
    /\ \E copy \in {{strategyPosition[RowOf(f)]}, {}} :   \* managed, or sar=true
           cached' = [cached EXCEPT ![f] = copy]
    /\ Goto(f, "calling")
    /\ UNCHANGED <<ledgerLock, tables>>

\* The session that waited for the seeder's commit inserts the singleton again:
\* IntegrityError, rollback, and the fan-out drops this venue's signal.
DecideConflicts(f) ==
    /\ pc[f] = "idle" /\ ~riskRow
    /\ \E g \in Fills \ {f} : writer = g
    /\ Goto(f, "dropped")
    /\ UNCHANGED <<ledgerLock, writer, cached, tables>>

\* The exchange round trip of execute_order: the venue fills the order.
VenueFills(f) ==
    /\ pc[f] = "calling"
    /\ Goto(f, "filled")
    /\ UNCHANGED <<ledgerLock, writer, cached, tables>>

AcquireLedgerLock(f) ==
    /\ pc[f] = "filled"
    /\ ledgerLock = None
    /\ ledgerLock' = f
    /\ Goto(f, "locked")
    /\ UNCHANGED <<writer, cached, tables>>

\* Mutant of CommitOrder: what the session has read does not expire.
CommitOrderKeepsCopy(f) ==
    /\ pc[f] = "locked"
    /\ writer \in {None, f}
    /\ writer' = None
    /\ riskRow' = (riskRow \/ writer = f)
    /\ recorded' = recorded \cup {f}
    /\ Goto(f, "recorded")
    /\ UNCHANGED <<ledgerLock, cached, stamped, position, strategyPosition>>

\* The first commit: the pending Order row becomes durable, the write lock is
\* released, and every object of the session expires.
CommitOrder(f) ==
    /\ pc[f] = "locked"
    /\ writer \in {None, f}
    /\ writer' = None
    /\ riskRow' = (riskRow \/ writer = f)
    /\ recorded' = recorded \cup {f}
    /\ cached' = [cached EXCEPT ![f] = {}]
    /\ Goto(f, "recorded")
    /\ UNCHANGED <<ledgerLock, stamped, position, strategyPosition>>

\* Mutant of BumpPosition: the aggregate row has a commit of its own.
BumpPositionCommits(f) ==
    /\ pc[f] = "recorded"
    /\ writer = None
    /\ position' = [position EXCEPT ![InstrumentOf[f]] = @ \cup {f}]
    /\ Goto(f, "bumped")
    /\ UNCHANGED <<ledgerLock, writer, cached, riskRow, recorded, stamped, strategyPosition>>

\* _bump_position: the UPSERT runs in SQL and takes the write lock.
BumpPosition(f) ==
    /\ pc[f] = "recorded"
    /\ writer = None
    /\ writer' = f
    /\ Goto(f, "bumped")
    /\ UNCHANGED <<ledgerLock, cached, tables>>

\* _apply_strategy_fill: read the row unless the session still has a live copy,
\* and add the fill to the copy.
ApplyStrategyFill(f) ==
    /\ pc[f] = "bumped"
    /\ \E row \in IF cached[f] = {} THEN {strategyPosition[RowOf(f)]} ELSE cached[f] :
           cached' = [cached EXCEPT ![f] = {row \cup {f}}]
    /\ Goto(f, "applied")
    /\ UNCHANGED <<ledgerLock, writer, tables>>

\* Mutants of CommitLedger: the row is looked up without its strategy, or a fill of a
\* strategy that has no row yet adds none.
CommitLedgerEveryStrategy(f) ==
    /\ pc[f] = "applied"
    /\ position' = [position EXCEPT ![InstrumentOf[f]] = @ \cup {f}]
    /\ strategyPosition' = [r \in Rows |-> IF r[2] = InstrumentOf[f]
                               THEN strategyPosition[r] \cup {f} ELSE strategyPosition[r]]
    /\ cached' = [cached EXCEPT ![f] = {}]
    /\ writer' = None /\ ledgerLock' = None
    /\ Goto(f, "booked")
    /\ UNCHANGED <<riskRow, recorded, stamped>>

CommitLedgerAddsNoRow(f) ==
    /\ pc[f] = "applied"
    /\ position' = [position EXCEPT ![InstrumentOf[f]] = @ \cup {f}]
    /\ strategyPosition' = [strategyPosition EXCEPT ![RowOf(f)] = IF @ = {} THEN {} ELSE @ \cup {f}]
    /\ cached' = [cached EXCEPT ![f] = {}]
    /\ writer' = None /\ ledgerLock' = None
    /\ Goto(f, "booked")
    /\ UNCHANGED <<riskRow, recorded, stamped>>

\* The second commit, and the end of `with _LEDGER_LOCK`.
CommitLedger(f) ==
    /\ pc[f] = "applied"
    /\ position' = [position EXCEPT ![InstrumentOf[f]] = @ \cup {f}]
    /\ \E row \in cached[f] : strategyPosition' = [strategyPosition EXCEPT ![RowOf(f)] = row]
    /\ cached' = [cached EXCEPT ![f] = {}]
    /\ writer' = None
    /\ ledgerLock' = None
    /\ Goto(f, "booked")
    /\ UNCHANGED <<riskRow, recorded, stamped>>

\* order.realized_pnl is set after the ledger commit and lands with the commit
\* of session_scope.
CommitSession(f) ==
    /\ pc[f] = "booked"
    /\ writer = None
    /\ stamped' = stamped \cup {f}
    /\ Goto(f, "done")
    /\ UNCHANGED <<ledgerLock, writer, cached, riskRow, recorded, position, strategyPosition>>

\* Mutant of BusyTimeout: the lock was taken without a `with`.
BusyTimeoutKeepsLock(f) ==
    /\ \/ pc[f] \in {"locked", "recorded", "booked"}
       \/ pc[f] = "idle" /\ ~riskRow
    /\ writer \notin {None, f}
    /\ Goto(f, "dropped")
    /\ cached' = [cached EXCEPT ![f] = {}]
    /\ UNCHANGED <<ledgerLock, writer, tables>>

\* "database is locked": busy_timeout expires while another session holds the
\* write lock.  The session rolls back and every `with` it is in exits.
BusyTimeout(f) ==
    /\ \/ pc[f] \in {"locked", "recorded", "booked"}
       \/ pc[f] = "idle" /\ ~riskRow
    /\ writer \notin {None, f}
    /\ Goto(f, "dropped")
    /\ ledgerLock' = IF ledgerLock = f THEN None ELSE ledgerLock
    /\ cached' = [cached EXCEPT ![f] = {}]
    /\ UNCHANGED <<writer, tables>>

Session(f) == \/ Decide(f) \/ DecideConflicts(f) \/ VenueFills(f)
              \/ AcquireLedgerLock(f) \/ CommitOrder(f) \/ BumpPosition(f)
              \/ ApplyStrategyFill(f) \/ CommitLedger(f) \/ CommitSession(f)
              \/ BusyTimeout(f)

\* Another writer: the arb scan of the retry worker keeps its transaction open
\* across exchange calls, the funding worker and the admin page write as well, and the
\* admin page may be the one that creates the risk row.
OtherBegins == /\ writer = None
               /\ writer' = Other
               /\ UNCHANGED <<pc, ledgerLock, cached, tables>>
OtherCommits == /\ writer = Other
                /\ writer' = None
                /\ riskRow' \in {riskRow, TRUE}
                /\ UNCHANGED <<pc, ledgerLock, cached, recorded, stamped, position, strategyPosition>>

\* The process dies and restarts: threads, locks and open transactions are gone,
\* the committed tables stay.  Nothing resumes a fan-out.
Crash ==
    /\ \E f \in Fills : pc[f] \in Active
    /\ pc' = [f \in Fills |-> IF pc[f] \in Active THEN "crashed" ELSE pc[f]]
    /\ ledgerLock' = None
    /\ writer' = None
    /\ cached' = [f \in Fills |-> {}]
    /\ UNCHANGED tables

Next == \/ \E f \in Fills : Session(f)
        \/ OtherBegins \/ OtherCommits
        \/ Crash

Spec == Init /\ [][Next]_vars

\* A thread of the pool keeps running; the other writer ends its transaction.
\* Nothing forces a signal to arrive, a crash, or another writer to begin.
FairSpec == /\ Spec
            /\ \A f \in Fills : WF_vars(pc[f] # "idle" /\ Session(f))
            /\ WF_vars(OtherCommits)
----------------------------------------------------------------------------
(* Properties *)

\* Types.  A row only ever accounts for fills of its own instrument and strategy.
TypeOK ==
    /\ pc \in [Fills -> {"idle"} \cup Active \cup Ended]
    /\ ledgerLock \in Fills \cup {None}
    /\ writer \in Fills \cup {None, Other}
    /\ cached \in [Fills -> SUBSET (SUBSET Fills)]
    /\ riskRow \in BOOLEAN
    /\ recorded \in SUBSET Fills
    /\ stamped \in SUBSET Fills
    /\ position \in [Instruments -> SUBSET Fills]
    /\ strategyPosition \in [Rows -> SUBSET Fills]
    /\ \A r \in Rows : strategyPosition[r] \subseteq {f \in Fills : RowOf(f) = r}

\* The two ledgers agree in every committed state, crashes included: the aggregate
\* Position row of an instrument accounts for exactly the fills its StrategyPosition
\* rows account for (both are written by _apply_fill_to_position's second commit).
LedgersAgree ==
    \A i \in Instruments, f \in Fills :
        f \in position[i] <=> \E s \in Strategies : f \in strategyPosition[<<s, i>>]

\* The ledger never runs ahead of the Order rows: whatever is booked belongs to an
\* Order already committed as success, so no restart can find the fill unrecorded
\* and book it again.
BookedIsRecorded == \A i \in Instruments : position[i] \subseteq recorded

\* No deadlock of _LEDGER_LOCK with SQLite's write lock: nobody waits for the former with the
\* latter in hand while the lock's holder waits to write.  db.py counts on it: busy_timeout
\* "makes concurrent writers WAIT", which ends well only if the holder needs nothing of theirs.
NoCircularWait ==
    \A f, g \in Fills :
        ~ (/\ writer = f /\ pc[f] = "filled"
           /\ ledgerLock = g /\ g # f)

\* No lost update: a committed StrategyPosition row never loses a fill, whatever the
\* other threads read before they wrote it.
LedgerNeverForgets ==
    [][\A r \in Rows : strategyPosition[r] \subseteq strategyPosition'[r]]_strategyPosition

\* The session machinery implements the atomic book.
Book == INSTANCE LedgerBook WITH recorded <- recorded, position <- position,
                                 strategyPosition <- strategyPosition
ImplementsBook == Book!Spec

\* Every fill the venue executed is settled: booked and stamped, or given up by a
\* rolled-back session or a dead process.  No thread waits for a lock for ever.
FillSettles == \A f \in Fills : pc[f] = "filled" ~> pc[f] \in Ended
============================================================================
