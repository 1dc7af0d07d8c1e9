------------------------------ MODULE ArbPair ------------------------------
(***************************************************************************)
(* The funding-arb book: opening and closing delta-neutral pairs           *)
(* (routes/funding_arb.py), firing and flattening their legs               *)
(* (arb_executor.py) and replaying failed legs (retry_worker.py).          *)
(*                                                                         *)
(* The pair is the default combo, long spot and short perp of one asset.   *)
(* An arb is named by the open request that created it.  A session that    *)
(* has flushed holds SQLite's write lock, writer, until it ends.  What the *)
(* venue really holds, spot and short, is kept beside what the book says.  *)
(***************************************************************************)
EXTENDS Integers, FiniteSetsExt

CONSTANTS Requests,      \* open requests
          KeyOf,         \* the idempotency key each carries
          AssetOf,       \* the asset each opens
          Closers,       \* close requests running at a time
          MaxCloses,     \* bound: close requests made
          Qty,           \* what size_pair sizes both legs to
          SpotStep, PerpStep,   \* the grids of the two legs
          Fee,           \* the base a spot buy pays as its fee
          Fills,         \* bound: the quantities an order can fill
          MaxAttempts,   \* RETRY_MAX_ATTEMPTS
          MaxFaults,     \* bound: restarts, sessions ended by an exception, lost answers
          Worker,        \* the retry worker
          Nobody         \* holds no lock

ASSUME GridAssumption == SpotStep \in Nat \ {0} /\ PerpStep \in Nat \ {0} /\ Fee \in Nat
ASSUME QtyAssumption == Qty \in Nat /\ Fills \subseteq Nat
ASSUME FeeAssumption == Fee <= Qty /\ \A q \in Fills : Fee <= q   \* a fee is part of its fill
ASSUME AttemptAssumption == MaxAttempts \in Nat \ {0}
ASSUME RequestsFinite == IsFiniteSet(Requests)
ASSUME WorkerAssumption == Worker \notin Requests

Products == {"spot", "perp"}
Legs == Requests \X Products
Actors == Requests \cup {Worker}        \* _run_open of an arb, and the retry worker
Assets == {AssetOf[r] : r \in Requests}

VARIABLES checked,    \* open requests between their checks and their first write
          arb,        \* ArbPosition.status
          leg,        \* committed ArbLeg rows
          order,      \* committed ArbOrder rows
          opener,     \* the _run_open task of an arb, and the fill it remembers
          job,        \* the execute_leg call an actor is in
          inPass, batch, staged,   \* the worker's pass and its uncommitted rows
          closer,     \* close requests and their _run_close tasks
          closes,     \* how many were made
          writer,     \* who holds the write lock
          spot, short,      \* what the venue holds of an asset
          crashes, aborts, lost,
          disturbed   \* history: assets whose book may be off

book == <<arb, leg, order>>
worker == <<inPass, batch, staged>>
venue == <<spot, short>>
faults == <<crashes, aborts, lost>>
closing == <<closer, closes>>
outside == <<venue, faults, disturbed>>
vars == <<checked, book, opener, job, worker, closing, writer, outside>>

NoLeg == [status |-> "none", target |-> 0, filled |-> 0]
NoOrder == [status |-> "none", attempts |-> 0]
NoJob == [step |-> "none", leg |-> <<>>, target |-> 0, filled |-> 0]
NoOpener == [step |-> "none", fill |-> 0]
NoCloser == [step |-> "none", arb |-> Nobody, write |-> "keep", errors |-> FALSE]
NothingStaged == [x \in Legs |-> [leg |-> NoLeg, order |-> NoOrder]]
IsStaged(x) == staged[x].order # NoOrder
NonClosed == {"opening", "open", "closing", "error"}

Init == /\ checked = {}
        /\ arb = [r \in Requests |-> "none"]
        /\ leg = [x \in Legs |-> NoLeg]
        /\ order = [x \in Legs |-> NoOrder]
        /\ opener = [r \in Requests |-> NoOpener]
        /\ job = [a \in Actors |-> NoJob]
        /\ inPass = FALSE /\ batch = {} /\ staged = NothingStaged
        /\ closer = [c \in Closers |-> NoCloser] /\ closes = 0
        /\ writer = Nobody
        /\ spot = [s \in Assets |-> 0] /\ short = [s \in Assets |-> 0]
        /\ crashes = 0 /\ aborts = 0 /\ lost = 0
        /\ disturbed = {}
----------------------------------------------------------------------------
(* Grids *)

\* _snap_down and _snap_nearest, on whole units.
SnapDown(q, step) == (q \div step) * step
SnapNearest(q, step) == ((2 * q + step) \div (2 * step)) * step

\* Mutant of HedgeQty: the hedge is floored, as it once was.
HedgeQtyDown(fill) == SnapDown(fill, PerpStep)

\* _hedge_qty: the nearest point of leg 2's grid, or 0 for a fill below one step.
HedgeQty(fill) == IF fill < PerpStep THEN 0 ELSE SnapNearest(fill, PerpStep)
----------------------------------------------------------------------------
(* POST /funding-arb/open *)

Repeats(r) == {q \in Requests : KeyOf[q] = KeyOf[r] /\ arb[q] # "none"}
Holding(s) == {r \in Requests : AssetOf[r] = s /\ arb[r] \in NonClosed}

\* open_arb up to its first write: a duplicate, the kill-switch and a held symbol are
\* decided on what is committed now, and end the request without a trace.
OpenCheck(r) ==
    /\ r \notin checked
    /\ Repeats(r) = {} /\ Holding(AssetOf[r]) = {}
    /\ checked' = checked \cup {r}
    /\ UNCHANGED <<book, opener, job, worker, closing, writer, outside>>

NewLegs(r) == [x \in Legs |-> IF x[1] = r
                              THEN [status |-> "pending", target |-> Qty, filled |-> 0]
                              ELSE leg[x]]

\* Mutant of OpenPersist: the key is not UNIQUE.
OpenPersistAgain(r) ==
    /\ r \in checked /\ writer = Nobody
    /\ checked' = checked \ {r}
    /\ arb' = [arb EXCEPT ![r] = "opening"]
    /\ leg' = NewLegs(r)
    /\ opener' = [opener EXCEPT ![r].step = "spot"]
    /\ UNCHANGED <<order, job, worker, closing, writer, outside>>

\* The rest of open_arb, under the write lock: the UNIQUE key, the sizing, the rows.  A
\* SizingError leaves the session as an HTTPException and takes every row with it.
OpenPersist(r) ==
    /\ r \in checked /\ writer = Nobody
    /\ checked' = checked \ {r}
    /\ \/ UNCHANGED <<arb, leg, opener, disturbed>>
       \/ /\ Repeats(r) = {}
          /\ arb' = [arb EXCEPT ![r] = "opening"]
          /\ leg' = NewLegs(r)
          /\ opener' = [opener EXCEPT ![r].step = "spot"]
          /\ disturbed' = IF Holding(AssetOf[r]) = {} THEN disturbed
                          ELSE disturbed \cup {AssetOf[r]}
    /\ UNCHANGED <<order, job, worker, closing, writer, venue, faults>>
----------------------------------------------------------------------------
(* execute_leg *)

\* _run_open's session for leg 1: execute_leg flushes its ArbOrder, then calls.
StartSpot(r) ==
    /\ opener[r].step = "spot" /\ job[r] = NoJob /\ writer = Nobody
    /\ writer' = r
    /\ job' = [job EXCEPT ![r] = [NoJob EXCEPT !.step = "calling", !.leg = <<r, "spot">>,
                                               !.target = leg[<<r, "spot">>].target]]
    /\ UNCHANGED <<checked, book, opener, worker, closing, outside>>

\* Its session for leg 2: the target is derived again from what leg 1 filled.
StartHedge(r) ==
    /\ opener[r].step = "perp" /\ job[r] = NoJob /\ writer = Nobody
    /\ HedgeQty(opener[r].fill) > 0
    /\ writer' = r
    /\ job' = [job EXCEPT ![r] = [NoJob EXCEPT !.step = "calling", !.leg = <<r, "perp">>,
                                               !.target = HedgeQty(opener[r].fill)]]
    /\ UNCHANGED <<checked, book, opener, worker, closing, outside>>

\* Leg 1 did not fill, or too little to hedge: leg 2 is an error and is not placed.
SkipHedge(r) ==
    /\ opener[r].step = "perp" /\ job[r] = NoJob /\ writer = Nobody
    /\ HedgeQty(opener[r].fill) = 0
    /\ leg' = [leg EXCEPT ![<<r, "perp">>].status = "error"]
    /\ opener' = [opener EXCEPT ![r].step = "finalize"]
    /\ UNCHANGED <<checked, arb, order, job, worker, closing, writer, outside>>

Trade(x, q) ==
    IF x[2] = "spot"
    THEN spot' = [spot EXCEPT ![AssetOf[x[1]]] = @ + q - Fee] /\ UNCHANGED short
    ELSE short' = [short EXCEPT ![AssetOf[x[1]]] = @ + q] /\ UNCHANGED spot

\* A call is executed and its answer, or what it says of the fill, never arrives.
LoseAnswer == /\ crashes + aborts + lost < MaxFaults
              /\ lost' = lost + 1
              /\ UNCHANGED <<crashes, aborts>>

\* What a fill is recorded as: net of a base fee when the fee could be read.
Recorded(x, q) == IF x[2] = "spot" THEN {q, q - Fee} ELSE {q}

\* The venue's answers: filled in whole or in part, refused, executed and never
\* acknowledged, which the adapter reports as a failure too, or acknowledged with fills
\* that cannot be read, when what was ordered is recorded whatever was executed.
Call(a) ==
    /\ job[a].step = "calling"
    /\ LET x == job[a].leg IN
       \/ \E q \in {f \in Fills : f <= job[a].target} : \E n \in Recorded(x, q) :
             /\ Trade(x, q)
             /\ job' = [job EXCEPT ![a].step = "acked", ![a].filled = n]
             /\ UNCHANGED <<faults, disturbed>>
       \/ /\ job' = [job EXCEPT ![a].step = "failed"]
          /\ UNCHANGED <<venue, faults, disturbed>>
       \/ /\ LoseAnswer
          /\ job' = [job EXCEPT ![a].step = "failed"]
          /\ Trade(x, job[a].target)
          /\ disturbed' = disturbed \cup {AssetOf[x[1]]}
       \/ /\ LoseAnswer
          /\ job' = [job EXCEPT ![a].step = "acked", ![a].filled = job[a].target]
          /\ \/ \E q \in {f \in Fills : f < job[a].target} : Trade(x, q)
             \/ UNCHANGED venue
          /\ disturbed' = disturbed \cup {AssetOf[x[1]]}
    /\ UNCHANGED <<checked, book, opener, worker, closing, writer>>

\* Mutant of OrderAfter: one attempt too many.
OrderAfterOneMore(a) ==
    LET n == order[job[a].leg].attempts + 1 IN
    [status |-> IF job[a].step = "acked" THEN "success"
                ELSE IF n > MaxAttempts THEN "dead" ELSE "retrying",
     attempts |-> n]

\* The rows _on_leg_success and _on_leg_failure leave; the mutant of LegAfter records what
\* was ordered.
OrderAfter(a) ==
    LET n == order[job[a].leg].attempts + 1 IN
    [status |-> IF job[a].step = "acked" THEN "success"
                ELSE IF n >= MaxAttempts THEN "dead" ELSE "retrying",
     attempts |-> n]

LegAfterTarget(a) ==
    [status |-> OrderAfter(a).status, target |-> job[a].target,
     filled |-> IF job[a].step = "acked" THEN job[a].target ELSE leg[job[a].leg].filled]
LegAfter(a) ==
    [status |-> OrderAfter(a).status, target |-> job[a].target,
     filled |-> IF job[a].step = "acked" THEN job[a].filled ELSE leg[job[a].leg].filled]

\* The end of _run_open's session for a leg: its rows are committed, the fill of leg 1 is
\* remembered for the hedge.
CommitLeg(r) ==
    /\ job[r].step \in {"acked", "failed"}
    /\ leg' = [leg EXCEPT ![job[r].leg] = LegAfter(r)]
    /\ order' = [order EXCEPT ![job[r].leg] = OrderAfter(r)]
    /\ opener' = [opener EXCEPT ![r] =
                    IF job[r].leg[2] = "spot"
                    THEN [step |-> "perp", fill |-> job[r].filled]
                    ELSE [step |-> "finalize", fill |-> @.fill]]
    /\ job' = [job EXCEPT ![r] = NoJob]
    /\ writer' = Nobody
    /\ UNCHANGED <<checked, arb, worker, closing, outside>>

\* Mutants of ReadVerdict: one filled leg is enough; only a hedged pair is finalized.
ReadVerdictAny(r) ==
    /\ opener[r].step = "finalize"
    /\ opener' = [opener EXCEPT ![r].step =
                    IF \E p \in Products : leg[<<r, p>>].status = "success"
                    THEN "to_open" ELSE "to_error"]
    /\ UNCHANGED <<checked, book, job, worker, closing, writer, outside>>

ReadVerdictIfHedged(r) ==
    /\ opener[r].step = "finalize"
    /\ \A p \in Products : leg[<<r, p>>].status = "success"
    /\ opener' = [opener EXCEPT ![r].step = "to_open"]
    /\ UNCHANGED <<checked, book, job, worker, closing, writer, outside>>

\* _finalize_open_status reads the legs, alerts, and commits its verdict over whatever
\* the status is by then.
ReadVerdict(r) ==
    /\ opener[r].step = "finalize"
    /\ opener' = [opener EXCEPT ![r].step =
                    IF \A p \in Products : leg[<<r, p>>].status = "success"
                    THEN "to_open" ELSE "to_error"]
    /\ UNCHANGED <<checked, book, job, worker, closing, writer, outside>>

WriteVerdict(r) ==
    /\ opener[r].step \in {"to_open", "to_error"} /\ writer = Nobody
    /\ arb' = [arb EXCEPT ![r] = IF opener[r].step = "to_open" THEN "open" ELSE "error"]
    /\ opener' = [opener EXCEPT ![r] = NoOpener]
    /\ UNCHANGED <<checked, leg, order, job, worker, closing, writer, outside>>

RunOpen(r) == \/ StartSpot(r) \/ StartHedge(r) \/ SkipHedge(r) \/ CommitLeg(r)
              \/ ReadVerdict(r) \/ WriteVerdict(r)
----------------------------------------------------------------------------
(* _run_due_arb_retries *)

\* Mutants of Due: filled orders come up again; the last attempt never does.
DueAgain == {x \in Legs : order[x].status \in {"retrying", "success"}}
DueSparesLast == {x \in Legs : /\ order[x].status = "retrying"
                               /\ order[x].attempts < MaxAttempts - 1}
Due == {x \in Legs : order[x].status = "retrying"}

\* One pass reads the orders that are due, whatever subset of them that is now, and
\* whatever became of their arb.
ScanRetries ==
    /\ ~inPass
    /\ batch' \in (SUBSET Due) \ {{}}
    /\ inPass' = TRUE
    /\ UNCHANGED <<checked, book, opener, job, staged, closing, writer, outside>>

ReplayNext ==
    /\ inPass /\ job[Worker] = NoJob /\ writer \in {Nobody, Worker}
    /\ \E x \in batch :
          /\ batch' = batch \ {x}
          /\ job' = [job EXCEPT ![Worker] = [NoJob EXCEPT !.step = "calling", !.leg = x,
                                                          !.target = leg[x].target]]
    /\ writer' = Worker
    /\ UNCHANGED <<checked, book, opener, inPass, staged, closing, outside>>

\* The outcome stays in the session of the pass.
StageLeg ==
    /\ job[Worker].step \in {"acked", "failed"}
    /\ staged' = [staged EXCEPT ![job[Worker].leg] = [leg |-> LegAfter(Worker),
                                                      order |-> OrderAfter(Worker)]]
    /\ job' = [job EXCEPT ![Worker] = NoJob]
    /\ UNCHANGED <<checked, book, opener, inPass, batch, closing, writer, outside>>

EndPass ==
    /\ inPass /\ batch = {} /\ job[Worker] = NoJob
    /\ leg' = [x \in Legs |-> IF IsStaged(x) THEN staged[x].leg ELSE leg[x]]
    /\ order' = [x \in Legs |-> IF IsStaged(x) THEN staged[x].order ELSE order[x]]
    /\ inPass' = FALSE /\ staged' = NothingStaged /\ writer' = Nobody
    /\ UNCHANGED <<checked, arb, opener, job, batch, closing, outside>>
----------------------------------------------------------------------------
(* POST /funding-arb/close and _run_close *)

\* A close asked for while an order of the arb is unresolved, or another close runs.
Unsettled(r) ==
    \/ opener[r] # NoOpener
    \/ \E p \in Products : order[<<r, p>>].status = "retrying"
    \/ \E c \in Closers : closer[c].arb = r /\ closer[c].step # "checked"

\* close_arb reads the status, and writes it at its commit.
CloseCheck(c) ==
    /\ closer[c] = NoCloser
    /\ \E r \in Requests :
          /\ arb[r] \in {"opening", "open", "error"}
          /\ closer' = [closer EXCEPT ![c].step = "checked", ![c].arb = r]
    /\ closes < MaxCloses /\ closes' = closes + 1
    /\ UNCHANGED <<checked, book, opener, job, worker, writer, outside>>

CloseAccept(c) ==
    /\ closer[c].step = "checked" /\ writer = Nobody
    /\ LET r == closer[c].arb IN
       /\ arb' = [arb EXCEPT ![r] = "closing"]
       /\ disturbed' = IF Unsettled(r) \/ arb[r] = "closed"
                       THEN disturbed \cup {AssetOf[r]} ELSE disturbed
    /\ closer' = [closer EXCEPT ![c].step = "spot"]
    /\ UNCHANGED <<checked, leg, order, opener, job, worker, closes, writer, venue, faults>>

AfterLeg(p) == IF p = "spot" THEN "perp" ELSE "finish"
CalledStep(p) == IF p = "spot" THEN "spot_called" ELSE "perp_called"

\* A leg an earlier close flattened is left alone.
SkipClosedLeg(c, p) ==
    /\ closer[c].step = p
    /\ leg[<<closer[c].arb, p>>].status = "closed"
    /\ closer' = [closer EXCEPT ![c].step = AfterLeg(p)]
    /\ UNCHANGED <<checked, book, opener, job, worker, closes, writer, outside>>

\* The status _close_leg's commit will write; an unchanged one is not in its UPDATE.
Called(c, p, ok) ==
    LET new == IF ok THEN "closed" ELSE "error"
        old == leg[<<closer[c].arb, p>>].status
    IN  [closer EXCEPT ![c].step = CalledStep(p),
                       ![c].write = IF new = old THEN "keep" ELSE new,
                       ![c].errors = @ \/ ~ok]

\* _close_leg of a spot leg: sell what it filled, clamped to the free balance and to the
\* grid.  An unreadable balance is 0, and 0 to sell counts as flat.  The sell can be
\* refused, and can fill in part.
CloseSpot(c) ==
    /\ closer[c].step = "spot"
    /\ LET r == closer[c].arb
           s == AssetOf[r]
           x == leg[<<r, "spot">>]
           qty == SnapDown(IF x.filled < spot[s] THEN x.filled ELSE spot[s], SpotStep)
       IN
       /\ x.status # "closed"
       /\ \/ /\ closer' = Called(c, "spot", TRUE)
             /\ spot' = [spot EXCEPT ![s] = @ - qty]
             /\ UNCHANGED <<faults, disturbed>>
          \/ /\ qty > 0
             /\ \E sold \in {0} \cup {f \in Fills : f < qty} :
                   spot' = [spot EXCEPT ![s] = @ - sold]
             /\ closer' = Called(c, "spot", TRUE)
             /\ disturbed' = disturbed \cup {s}
             /\ UNCHANGED faults
          \/ /\ qty > 0
             /\ closer' = Called(c, "spot", FALSE)
             /\ \/ UNCHANGED <<spot, faults>>
                \/ LoseAnswer /\ spot' = [spot EXCEPT ![s] = @ - qty]
             /\ UNCHANGED disturbed
    /\ UNCHANGED <<checked, book, opener, job, worker, closes, writer, short>>

\* _close_leg of a perp leg: close_position closes the whole coin, and succeeds when
\* there is none.  What the order filled is not looked at: an accepted close that filled
\* nothing, or in part, is a success too.
ClosePerp(c) ==
    /\ closer[c].step = "perp"
    /\ LET r == closer[c].arb  s == AssetOf[r] IN
       /\ leg[<<r, "perp">>].status # "closed"
       /\ \/ /\ closer' = Called(c, "perp", TRUE)
             /\ short' = [short EXCEPT ![s] = 0]
             /\ UNCHANGED <<faults, disturbed>>
          \/ /\ closer' = Called(c, "perp", TRUE)
             /\ \E f \in {g \in {0} \cup Fills : g < short[s]} :
                   short' = [short EXCEPT ![s] = @ - f]
             /\ disturbed' = disturbed \cup {s}
             /\ UNCHANGED faults
          \/ /\ closer' = Called(c, "perp", FALSE)
             /\ \/ UNCHANGED <<short, faults>>
                \/ LoseAnswer /\ short' = [short EXCEPT ![s] = 0]
             /\ UNCHANGED disturbed
    /\ UNCHANGED <<checked, book, opener, job, worker, closes, writer, spot>>

\* Each leg has its own session.
CommitClosedLeg(c, p) ==
    /\ closer[c].step = CalledStep(p) /\ writer = Nobody
    /\ leg' = IF closer[c].write = "keep" THEN leg
              ELSE [leg EXCEPT ![<<closer[c].arb, p>>].status = closer[c].write]
    /\ closer' = [closer EXCEPT ![c].step = AfterLeg(p), ![c].write = "keep"]
    /\ UNCHANGED <<checked, arb, order, opener, job, worker, closes, writer, outside>>

\* Mutants of FinishClose: the errors of the legs are not looked at; a close with errors
\* never ends.
FinishCloseAnyway(c) ==
    /\ closer[c].step = "finish" /\ writer = Nobody
    /\ arb' = [arb EXCEPT ![closer[c].arb] = "closed"]
    /\ closer' = [closer EXCEPT ![c] = NoCloser]
    /\ UNCHANGED <<checked, leg, order, opener, job, worker, closes, writer, outside>>

FinishCloseClean(c) ==
    /\ closer[c].step = "finish" /\ writer = Nobody
    /\ ~closer[c].errors
    /\ arb' = [arb EXCEPT ![closer[c].arb] = "closed"]
    /\ closer' = [closer EXCEPT ![c] = NoCloser]
    /\ UNCHANGED <<checked, leg, order, opener, job, worker, closes, writer, outside>>

\* The arb is closed when no leg reported an error, and an error otherwise.
FinishClose(c) ==
    /\ closer[c].step = "finish" /\ writer = Nobody
    /\ arb' = [arb EXCEPT ![closer[c].arb] = IF closer[c].errors THEN "error" ELSE "closed"]
    /\ closer' = [closer EXCEPT ![c] = NoCloser]
    /\ UNCHANGED <<checked, leg, order, opener, job, worker, closes, writer, outside>>

RunClose(c) == \/ CloseAccept(c) \/ CloseSpot(c) \/ ClosePerp(c) \/ FinishClose(c)
               \/ \E p \in Products : SkipClosedLeg(c, p) \/ CommitClosedLeg(c, p)
----------------------------------------------------------------------------
(* Exceptions and restarts *)

Abort == /\ crashes + aborts + lost < MaxFaults
         /\ aborts' = aborts + 1
         /\ UNCHANGED <<crashes, lost>>

\* An exception (no adapter, an unreadable grid, the lock not free within busy_timeout)
\* ends _run_open; its uncommitted session is rolled back.
AbortOpen(r) ==
    /\ Abort
    /\ opener[r] # NoOpener /\ job[r] = NoJob
    /\ opener' = [opener EXCEPT ![r] = NoOpener]
    /\ UNCHANGED <<checked, book, job, worker, closing, writer, venue, disturbed>>

StagedFills == {AssetOf[x[1]] : x \in {y \in Legs : staged[y].order.status = "success"}}

\* An exception ends the pass and rolls every order of it back.
AbortPass ==
    /\ Abort
    /\ inPass /\ job[Worker].step \in {"none", "calling"}
    /\ inPass' = FALSE /\ batch' = {} /\ staged' = NothingStaged
    /\ job' = [job EXCEPT ![Worker] = NoJob]
    /\ writer' = IF writer = Worker THEN Nobody ELSE writer
    /\ disturbed' = disturbed \cup StagedFills
    /\ UNCHANGED <<checked, book, opener, closing, venue>>

\* An exception in one leg's session is an error of the close, which goes on; one at the
\* end leaves the arb closing.
AbortClose(c) ==
    /\ Abort
    /\ \/ \E p \in Products :
             /\ closer[c].step \in {p, CalledStep(p)}
             /\ closer' = [closer EXCEPT ![c].step = AfterLeg(p), ![c].write = "keep",
                                         ![c].errors = TRUE]
             /\ disturbed' = IF closer[c].step = p THEN disturbed
                             ELSE disturbed \cup {AssetOf[closer[c].arb]}
       \/ /\ closer[c].step = "finish"
          /\ closer' = [closer EXCEPT ![c] = NoCloser]
          /\ UNCHANGED disturbed
    /\ UNCHANGED <<checked, book, opener, job, worker, closes, writer, venue>>

CallOf(c) == closer[c].step \in {CalledStep(p) : p \in Products}

\* Assets where something was done at the venue that no committed row says.
Uncommitted ==
    StagedFills
    \cup {AssetOf[job[a].leg[1]] : a \in {b \in Actors : job[b].step = "acked"}}
    \cup {AssetOf[closer[c].arb] : c \in {d \in Closers : CallOf(d)}}

\* The process dies and restarts: tables stay, tasks and sessions are gone, and nothing
\* picks an arb up again.
Crash ==
    /\ crashes + aborts + lost < MaxFaults
    /\ crashes' = crashes + 1
    /\ checked' = {}
    /\ opener' = [r \in Requests |-> NoOpener]
    /\ job' = [a \in Actors |-> NoJob]
    /\ inPass' = FALSE /\ batch' = {} /\ staged' = NothingStaged
    /\ closer' = [c \in Closers |-> NoCloser]
    /\ writer' = Nobody
    /\ disturbed' = disturbed \cup Uncommitted
    /\ UNCHANGED <<book, closes, venue, aborts, lost>>

Next == \/ \E r \in Requests : OpenCheck(r) \/ OpenPersist(r) \/ RunOpen(r) \/ AbortOpen(r)
        \/ \E a \in Actors : Call(a)
        \/ ScanRetries \/ ReplayNext \/ StageLeg \/ EndPass \/ AbortPass
        \/ \E c \in Closers : CloseCheck(c) \/ RunClose(c) \/ AbortClose(c)
        \/ Crash

Spec == Init /\ [][Next]_vars

\* Accepted opens and closes run in the thread pool, the worker loops for ever, and an
\* order's next_retry_at passes.  No fairness for requests, exceptions or crashes.
FairSpec ==
    /\ Spec
    /\ \A r \in Requests : WF_vars(RunOpen(r))
    /\ \A a \in Actors : WF_vars(Call(a))
    /\ \A x \in Legs : WF_vars(ScanRetries /\ x \in batch')
    /\ WF_vars(ReplayNext) /\ WF_vars(StageLeg) /\ WF_vars(EndPass)
    /\ \A c \in Closers : WF_vars(RunClose(c))
----------------------------------------------------------------------------
(* Properties *)

RowStatus == {"none", "pending", "success", "retrying", "dead", "error", "closed"}

\* Types; no leg order is attempted more than RETRY_MAX_ATTEMPTS times, by whichever session.
TypeOK ==
    /\ checked \subseteq Requests
    /\ arb \in [Requests -> {"none", "closed"} \cup NonClosed]
    /\ \A x \in Legs :
          /\ leg[x].status \in RowStatus /\ leg[x].target \in Nat /\ leg[x].filled \in Nat
          /\ order[x].status \in {"none", "success", "retrying", "dead"}
          /\ order[x].attempts \in 0..MaxAttempts
    /\ \A r \in Requests :
          opener[r].step \in {"none", "spot", "perp", "finalize", "to_open", "to_error"}
    /\ \A a \in Actors : job[a].step \in {"none", "calling", "acked", "failed"}
    /\ inPass \in BOOLEAN /\ batch \subseteq Legs /\ DOMAIN staged = Legs
    /\ writer \in Actors \cup {Nobody}
    /\ spot \in [Assets -> Nat] /\ short \in [Assets -> Nat]
    /\ disturbed \subseteq Assets

\* A repeated open never creates a second pair, also when the two requests race past the
\* first look for a duplicate.
OneArbPerKey ==
    \A q, r \in Requests : q # r /\ KeyOf[q] = KeyOf[r] => arb[q] = "none" \/ arb[r] = "none"

\* The hedge is placed only after leg 1's fill is committed, and for the point of its own
\* grid nearest to what leg 1 is recorded to hold: never naked, never off by more than
\* half a step, whatever crashes and retries come between.
HedgeFollowsFill ==
    \A r \in Requests : order[<<r, "perp">>] # NoOrder =>
        LET gap == leg[<<r, "perp">>].target - leg[<<r, "spot">>].filled IN
        /\ order[<<r, "spot">>].status = "success"
        /\ leg[<<r, "perp">>].target > 0
        /\ 2 * gap \in -PerpStep..PerpStep

\* Whatever sessions, replays, closes and restarts do, what is committed behaves like the pairs
\* of PairBook: one arb per key, fills recorded once, the hedge after its leg, and "open" only
\* for a pair whose legs' orders both succeeded.
Pairs == INSTANCE PairBook WITH
             status <- arb,
             filled <- {x \in Legs : order[x].status = "success"}
ImplementsPairs == Pairs!Spec

LegsOf(s, p) == {x \in Legs : AssetOf[x[1]] = s /\ x[2] = p}
FilledBy(S) == MapThenSumSet(LAMBDA x : leg[x].filled, S)
Dust(s) == (SpotStep - 1) * Cardinality({x \in LegsOf(s, "spot") : leg[x].status = "closed"})

\* Nothing between a call to the venue and the commit that records it.
Quiet(s) ==
    /\ \A x \in Legs : IsStaged(x) => AssetOf[x[1]] # s
    /\ \A a \in Actors : job[a] # NoJob => AssetOf[job[a].leg[1]] # s
    /\ \A c \in Closers : CallOf(c) => AssetOf[closer[c].arb] # s

\* The venue holds what the book says: at least the fills of the legs recorded as filled
\* (less a fee that could not be read), and no more than those of the legs not closed,
\* but for dust below the grid.  For assets where no answer was lost or unreadable, no
\* session was cut between a call and its commit, and no close reported more than it
\* filled or raced an order of the arb.
BookMatchesVenue ==
    \A s \in Assets \ disturbed : Quiet(s) =>
        LET filled(p) == {x \in LegsOf(s, p) : leg[x].status = "success"}
            carried(p) == {x \in LegsOf(s, p) : leg[x].status # "closed"}
        IN  /\ short[s] \in FilledBy(filled("perp"))..FilledBy(carried("perp"))
            /\ spot[s] >= FilledBy(filled("spot")) - Fee * Cardinality(filled("spot"))
            /\ spot[s] <= FilledBy(carried("spot")) + Dust(s)

Flat(s) == short[s] = 0 /\ spot[s] <= Dust(s)
Settled(s) == \A r \in Requests : AssetOf[r] = s => ~Unsettled(r)
AllClosed(s) == \A r \in Requests : AssetOf[r] = s => arb[r] \in {"none", "closed"}

\* A closed arb left nothing at the venue, for the same assets: also one whose open
\* failed half way or was cut by a restart, or whose first close failed.
ClosedIsFlatUnlessDisturbed == \A s \in Assets \ disturbed : AllClosed(s) => Flat(s)

\* Every accepted open is finalized and every close ends, whatever replays and other closes
\* run beside it, unless a restart or an exception ended its task.
ArbSettles ==
    \A r \in Requests : arb[r] \in {"opening", "closing"}
        ~> arb[r] \notin {"opening", "closing"} \/ crashes + aborts > 0

\* Every retrying leg order is settled in the end.
LegRetriesSettle ==
    \A x \in Legs : order[x].status = "retrying" ~> order[x].status \in {"success", "dead"}

\* arb_executor.py: "Legs are flat at close".  Not even when every open has ended and no
\* order waits for a retry.
ClosedIsFlat ==
    \A s \in Assets : AllClosed(s) /\ Settled(s) => Flat(s)
============================================================================
