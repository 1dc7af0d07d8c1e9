------------------------- MODULE FillLedgerProofs -------------------------
(* Safety of the fill ledger for any number of fills, strategies and        *)
(* instruments: the invariants of FillLedger, its no-lost-update property   *)
(* and the refinement of LedgerBook.                                        *)
EXTENDS FillLedger, TLAPS

\* Who is inside `with _LEDGER_LOCK`.
LockInv == \A f \in Fills : pc[f] \in Critical <=> ledgerLock = f

\* Who may hold SQLite's write lock.
WriterInv == \A f \in Fills :
    /\ writer = f => pc[f] \in {"calling", "filled", "locked", "bumped", "applied"}
    /\ pc[f] \in {"bumped", "applied"} => writer = f

\* Inside the lock a session's copy of its row is the committed row: the first
\* commit expired what it had read before, and nobody else is inside.
FreshInv == \A f \in Fills :
    /\ pc[f] \in {"recorded", "bumped"} => cached[f] = {}
    /\ pc[f] = "applied" => cached[f] = {strategyPosition[RowOf(f)] \cup {f}}

\* What the tables say of a session's fill while the session runs.
ProgressInv == \A f \in Fills :
    /\ pc[f] \in {"idle", "calling", "filled", "locked"} => f \notin recorded
    /\ pc[f] \in {"recorded", "bumped", "applied"} =>
           f \in recorded /\ f \notin position[InstrumentOf[f]]

\* A session that seeded the risk row is alone past decide until it commits.
SeedInv == \A f \in Fills :
    /\ writer = f /\ pc[f] \in {"calling", "filled", "locked"} => ~riskRow
    /\ ~riskRow /\ pc[f] \in Active => writer = f /\ pc[f] \in {"calling", "filled", "locked"}

SessionInv == LockInv /\ WriterInv /\ FreshInv /\ ProgressInv /\ SeedInv
BookInv == BookedIsRecorded /\ LedgersAgree
IInv == TypeOK /\ SessionInv /\ BookInv

\* A fill's ledger row and instrument exist.
LEMMA RowOfType == \A f \in Fills : RowOf(f) \in Rows /\ InstrumentOf[f] \in Instruments
  BY FillConstants DEF RowOf, Rows

\* The invariant holds initially.
LEMMA InitInv == Init => IInv
  <1> SUFFICES ASSUME Init PROVE IInv
    OBVIOUS
  <1>1. TypeOK
    BY DEF Init, TypeOK, Rows
  <1>2. SessionInv
    BY FillConstants DEF Init, SessionInv, LockInv, WriterInv, FreshInv, ProgressInv, SeedInv, Active, Critical
  <1>3. BookInv
    BY DEF Init, BookInv, BookedIsRecorded, LedgersAgree, Rows
  <1>4. QED
    BY <1>1, <1>2, <1>3 DEF IInv

\* A step that leaves the two ledgers alone and forgets no Order preserves what
\* they say of each other.
LEMMA BooksKept ==
  ASSUME BookInv, UNCHANGED <<position, strategyPosition>>, recorded \subseteq recorded'
  PROVE  BookInv'
  BY DEF BookInv, BookedIsRecorded, LedgersAgree

\* Every step of a session, of the other writer and every crash keeps the invariant.
LEMMA StepInv == IInv /\ [Next]_vars => IInv'
  <1> SUFFICES ASSUME IInv, [Next]_vars PROVE IInv'
    OBVIOUS
  <1>t. TypeOK /\ SessionInv /\ BookInv
    BY DEF IInv
  <1>1. ASSUME NEW f \in Fills, Session(f), ~CommitLedger(f) PROVE IInv'
    <2> USE <1>1, <1>t DEF Session, Decide, DecideConflicts, VenueFills, AcquireLedgerLock,
                          CommitOrder, BumpPosition, ApplyStrategyFill, CommitSession, BusyTimeout,
                          Goto, tables
    <2>1. TypeOK'
      <3>1. cached' \in [Fills -> SUBSET (SUBSET Fills)]
        BY RowOfType DEF TypeOK
      <3>2. pc' \in [Fills -> {"idle"} \cup Active \cup Ended]
        BY DEF TypeOK, Active, Ended
      <3>3. UNCHANGED <<position, strategyPosition>>
        OBVIOUS
      <3>4. recorded' \in SUBSET Fills /\ stamped' \in SUBSET Fills /\ riskRow' \in BOOLEAN
        BY DEF TypeOK
      <3>5. ledgerLock' \in Fills \cup {None} /\ writer' \in Fills \cup {None, Other}
        BY DEF TypeOK
      <3>6. QED
        BY <3>1, <3>2, <3>3, <3>4, <3>5 DEF TypeOK
    <2>2. LockInv'
      BY FillConstants DEF LockInv, SessionInv, TypeOK, Critical
    <2>3. WriterInv'
      BY FillConstants DEF WriterInv, SessionInv, TypeOK
    <2>4. FreshInv'
      BY DEF FreshInv, SessionInv, TypeOK
    <2>5. ProgressInv'
      BY RowOfType DEF ProgressInv, SessionInv, TypeOK, BookInv, BookedIsRecorded
    <2>6. SeedInv'
      <3>1. CASE CommitOrder(f)
        <4>1. riskRow' /\ writer' = None
          BY <3>1 DEF SeedInv, SessionInv, Active
        <4>2. QED
          BY <4>1, FillConstants DEF SeedInv
      <3>2. CASE Decide(f)
        BY <3>2, FillConstants DEF SeedInv, WriterInv, SessionInv, TypeOK, Active
      <3>3. CASE BumpPosition(f) \/ ApplyStrategyFill(f) \/ CommitSession(f) \/ BusyTimeout(f)
        BY <3>3, FillConstants DEF SeedInv, WriterInv, SessionInv, TypeOK, Active
      <3>4. CASE DecideConflicts(f) \/ VenueFills(f) \/ AcquireLedgerLock(f)
        BY <3>4, FillConstants DEF SeedInv, SessionInv, TypeOK, Active
      <3>5. QED
        BY <3>1, <3>2, <3>3, <3>4
    <2>7. BookInv'
      BY BooksKept
    <2>8. QED
      BY <2>1, <2>2, <2>3, <2>4, <2>5, <2>6, <2>7 DEF IInv, SessionInv
  <1>2. ASSUME NEW f \in Fills, CommitLedger(f) PROVE IInv'
    <2> USE <1>2, <1>t DEF CommitLedger, Goto
    <2>1. strategyPosition' = [strategyPosition EXCEPT ![RowOf(f)] = @ \cup {f}]
      BY DEF FreshInv, SessionInv
    <2>2. TypeOK'
      BY <2>1, RowOfType DEF TypeOK, Active, Ended
    <2>3. LockInv'
      BY FillConstants DEF LockInv, SessionInv, TypeOK, Critical
    <2>4. WriterInv'
      BY FillConstants DEF WriterInv, SessionInv, TypeOK
    <2>5. FreshInv'
      BY <2>3 DEF FreshInv, LockInv, SessionInv, TypeOK, Critical
    <2>6. ProgressInv'
      BY RowOfType DEF ProgressInv, SessionInv, TypeOK
    <2>7. BookedIsRecorded'
      BY RowOfType DEF BookedIsRecorded, BookInv, ProgressInv, SessionInv, TypeOK
    <2>8. LedgersAgree'
      <3> SUFFICES ASSUME NEW i \in Instruments, NEW g \in Fills
                   PROVE  g \in position'[i]
                            <=> \E s \in Strategies : g \in strategyPosition'[<<s, i>>]
        BY DEF LedgersAgree
      <3>1. g \in position[i] <=> \E s \in Strategies : g \in strategyPosition[<<s, i>>]
        BY DEF BookInv, LedgersAgree
      <3>2. g \in position'[i] <=> g \in position[i] \/ (g = f /\ i = InstrumentOf[f])
        BY RowOfType DEF TypeOK
      <3>3. ASSUME NEW s \in Strategies
            PROVE  g \in strategyPosition'[<<s, i>>]
                     <=> g \in strategyPosition[<<s, i>>] \/ (g = f /\ <<s, i>> = RowOf(f))
        BY <2>1, RowOfType DEF TypeOK, Rows
      <3>4. StrategyOf[f] \in Strategies
        BY FillConstants
      <3>5. QED
        BY <3>1, <3>2, <3>3, <3>4 DEF RowOf
    <2>9. SeedInv'
      <3>1. riskRow /\ UNCHANGED riskRow
        BY DEF SeedInv, SessionInv, Active
      <3>2. writer' = None
        OBVIOUS
      <3>3. QED
        BY <3>1, <3>2, FillConstants DEF SeedInv
    <2>10. QED
      BY <2>2, <2>3, <2>4, <2>5, <2>6, <2>7, <2>8, <2>9 DEF IInv, SessionInv, BookInv
  <1>3. CASE OtherBegins \/ OtherCommits
    <2>1. TypeOK'
      BY <1>3, <1>t DEF OtherBegins, OtherCommits, tables, TypeOK
    <2>2. LockInv' /\ WriterInv' /\ FreshInv' /\ ProgressInv'
      BY <1>3, <1>t, FillConstants DEF OtherBegins, OtherCommits, tables, SessionInv, LockInv,
                                     WriterInv, FreshInv, ProgressInv
    <2>3. SeedInv'
      BY <1>3, <1>t, FillConstants DEF OtherBegins, OtherCommits, tables, TypeOK, SessionInv, SeedInv
    <2>4. BookInv'
      BY <1>3, <1>t, BooksKept DEF OtherBegins, OtherCommits, tables
    <2>5. QED
      BY <2>1, <2>2, <2>3, <2>4 DEF IInv, SessionInv
  <1>4. CASE Crash
    <2> USE <1>4, <1>t DEF Crash, tables
    <2>1. TypeOK'
      BY DEF TypeOK, Active, Ended
    <2>2. \A f \in Fills : pc'[f] \notin Active /\ (pc'[f] = "idle" => pc[f] = "idle")
      BY DEF TypeOK, Active, Ended
    <2>3. SessionInv'
      BY <2>2, FillConstants DEF SessionInv, LockInv, WriterInv, FreshInv, ProgressInv, SeedInv, Active, Critical
    <2>4. BookInv'
      BY BooksKept
    <2>5. QED
      BY <2>1, <2>3, <2>4 DEF IInv
  <1>5. CASE UNCHANGED vars
    BY <1>5, <1>t DEF vars, tables, IInv, TypeOK, SessionInv, LockInv, WriterInv, FreshInv,
                     ProgressInv, SeedInv, BookInv, BookedIsRecorded, LedgersAgree
  <1>6. QED
    BY <1>1, <1>2, <1>3, <1>4, <1>5 DEF Next

\* The inductive invariant holds in every reachable state.
THEOREM Invariant == Spec => []IInv
  BY InitInv, StepInv, PTL DEF Spec

\* Type correctness, with every row attributed to its own strategy and instrument.
THEOREM TypeCorrect == Spec => []TypeOK
  BY Invariant, PTL DEF IInv

\* The aggregate ledger and the per-strategy ledger agree in every committed state.
THEOREM LedgersAlwaysAgree == Spec => []LedgersAgree
  BY Invariant, PTL DEF IInv, BookInv

\* The ledger never books a fill whose Order row is not durable.
THEOREM RecordedBeforeBooked == Spec => []BookedIsRecorded
  BY Invariant, PTL DEF IInv, BookInv

\* No circular wait: nobody waits for _LEDGER_LOCK with SQLite's write lock in hand while
\* another session holds _LEDGER_LOCK.
THEOREM NeverCircularWait == Spec => []NoCircularWait
  <1>1. IInv => NoCircularWait
    BY DEF IInv, SessionInv, LockInv, SeedInv, NoCircularWait, Active, Critical
  <1>2. QED
    BY Invariant, <1>1, PTL

\* A step either leaves the books alone, records one Order, or books one recorded
\* fill in both ledgers at once.
LEMMA StepOnBooks ==
  ASSUME IInv, [Next]_vars
  PROVE  \/ UNCHANGED <<recorded, position, strategyPosition>>
         \/ \E f \in Fills :
               /\ f \notin recorded /\ recorded' = recorded \cup {f}
               /\ UNCHANGED <<position, strategyPosition>>
         \/ \E f \in Fills :
               /\ f \in recorded /\ f \notin position[InstrumentOf[f]]
               /\ position' = [position EXCEPT ![InstrumentOf[f]] = @ \cup {f}]
               /\ strategyPosition' = [strategyPosition EXCEPT ![RowOf(f)] = @ \cup {f}]
               /\ UNCHANGED recorded
  <1>1. ASSUME NEW f \in Fills, CommitOrder(f)
        PROVE  /\ f \notin recorded /\ recorded' = recorded \cup {f}
               /\ UNCHANGED <<position, strategyPosition>>
    BY <1>1 DEF CommitOrder, IInv, SessionInv, ProgressInv
  <1>2. ASSUME NEW f \in Fills, CommitLedger(f)
        PROVE  /\ f \in recorded /\ f \notin position[InstrumentOf[f]]
               /\ position' = [position EXCEPT ![InstrumentOf[f]] = @ \cup {f}]
               /\ strategyPosition' = [strategyPosition EXCEPT ![RowOf(f)] = @ \cup {f}]
               /\ UNCHANGED recorded
    BY <1>2 DEF CommitLedger, IInv, SessionInv, ProgressInv, FreshInv
  <1>3. ASSUME NEW f \in Fills, Session(f), ~CommitOrder(f), ~CommitLedger(f)
        PROVE  UNCHANGED <<recorded, position, strategyPosition>>
    BY <1>3 DEF Session, Decide, DecideConflicts, VenueFills, AcquireLedgerLock, BumpPosition,
                ApplyStrategyFill, CommitSession, BusyTimeout, tables
  <1>4. CASE OtherBegins \/ OtherCommits \/ Crash \/ UNCHANGED vars
    BY <1>4 DEF OtherBegins, OtherCommits, Crash, vars, tables
  <1>5. QED
    BY <1>1, <1>2, <1>3, <1>4 DEF Next

\* No lost update: no step of any thread takes a fill out of a committed row.
THEOREM NoLostUpdate == Spec => LedgerNeverForgets
  <1>1. ASSUME IInv, [Next]_vars
        PROVE  \A r \in Rows : strategyPosition[r] \subseteq strategyPosition'[r]
    BY <1>1, StepOnBooks, RowOfType DEF IInv, TypeOK
  <1>2. QED
    BY Invariant, <1>1, PTL DEF Spec, LedgerNeverForgets

\* The session machinery -- locks, cached rows, two commits, timeouts, crashes --
\* implements the book in which a recorded fill is booked in both ledgers atomically.
THEOREM RefinesBook == Spec => ImplementsBook
  <1> USE DEF Book!Init, Book!Rows, Book!RowOf, Book!IsBooked, Book!bookVars
  <1>1. Init => Book!Init
    BY DEF Init, Rows
  <1>2. ASSUME IInv, [Next]_vars PROVE [Book!Next]_(Book!bookVars)
    BY <1>2, StepOnBooks DEF Book!Next, Book!Record, Book!Book, RowOf
  <1>3. QED
    BY <1>1, <1>2, Invariant, PTL DEF Spec, ImplementsBook, Book!Spec
============================================================================
