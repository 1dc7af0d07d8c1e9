-------------------------- MODULE OrderLifecycle --------------------------
(***************************************************************************)
(* Market orders of one strategy from the webhook to the ledger: the dedup *)
(* gate and fan-out (routes/webhook.py), the portfolio decision            *)
(* (portfolio.py), placement and its outcomes (executor.py), the retry     *)
(* worker (retry_worker.py) and a venue whose answers can be lost.         *)
(*                                                                         *)
(* Two kinds of actor run execute_order: the background task of a delivery *)
(* (one session per venue) and the retry worker (one session per pass, so  *)
(* what it has not committed yet, staged, can still be rolled back).       *)
(* FillLedger shows that booking a fill is atomic; here it is one step,    *)
(* still separate from the commit that makes the Order row durable, and an *)
(* exception or a restart can come between the two.                        *)
(***************************************************************************)
EXTENDS Integers, Sequences, FiniteSetsExt

CONSTANTS Deliveries,    \* HTTP requests TradingView makes
          KeyOf,         \* the idempotency key each carries
          ActionOf,      \* "buy" or "sell"
          Sar,           \* deliveries whose route is alert-driven (sar=true)
          VenueSeq,      \* the enabled venues of the route, in fan-out order
          OpenQty,       \* what a managed OPEN is sized to
          AlertQty,      \* the quantity of an alert-driven signal
          MaxAttempts,   \* RETRY_MAX_ATTEMPTS
          MaxCrashes,    \* bound: process restarts
          MaxAborts,     \* bound: sessions ended by an exception
          Worker         \* the retry worker

ASSUME SizeAssumption == OpenQty \in Nat \ {0} /\ AlertQty \in Nat \ {0}
ASSUME AttemptAssumption == MaxAttempts \in Nat \ {0}
ASSUME WorkerAssumption == Worker \notin Deliveries

Venues == {VenueSeq[i] : i \in DOMAIN VenueSeq}

\* _build_strategy puts each of the supported exchanges on a route at most once.
ASSUME RouteAssumption == /\ VenueSeq \in Seq(Venues)
                          /\ \A i, j \in DOMAIN VenueSeq : VenueSeq[i] = VenueSeq[j] => i = j

Orders == Deliveries \X Venues          \* the Order row of a delivery on a venue
Actors == Deliveries \cup {Worker}
VenueOf(o) == o[2]
Signed(o, q) == IF ActionOf[o[1]] = "buy" THEN q ELSE -q

VARIABLES alerts,       \* idempotency keys in the alerts table
          answer,       \* what each delivery was answered
          todo,         \* index of the venue a fan-out is at
          order,        \* committed Order rows
          job,          \* the execute_order call an actor is in
          inPass, batch, staged,   \* the retry worker's pass and its uncommitted rows
          net,          \* StrategyPosition.net_qty_base per venue
          killSwitch,
          adapters,     \* venues whose adapter the registry has built
          crashes, aborts,
          submissions, acks, booked,   \* per order: calls, acknowledged fills, bookings
          dropped,      \* orders whose session ended between their commit and the ledger's
          overlapped    \* venues where a decision was taken while another order was unresolved

worker == <<inPass, batch, staged>>
history == <<submissions, acks, booked, dropped, overlapped>>
vars == <<alerts, answer, todo, order, job, worker, net, killSwitch, adapters,
          crashes, aborts, history>>

NoOrder == [status |-> "none", qty |-> 0, attempts |-> 0, priced |-> FALSE]
NoJob == [step |-> "none", order |-> <<>>, qty |-> 0, filled |-> 0, priced |-> FALSE]
Terminal == {"success", "dead", "rejected"}

Init == /\ alerts = {}
        /\ answer = [d \in Deliveries |-> "none"]
        /\ todo = [d \in Deliveries |-> 0]
        /\ order = [o \in Orders |-> NoOrder]
        /\ job = [a \in Actors |-> NoJob]
        /\ inPass = FALSE /\ batch = {} /\ staged = [o \in Orders |-> NoOrder]
        /\ net = [v \in Venues |-> 0]
        /\ killSwitch = FALSE
        /\ adapters = {}
        /\ crashes = 0 /\ aborts = 0
        /\ submissions = [o \in Orders |-> 0]
        /\ acks = [o \in Orders |-> 0]
        /\ booked = [o \in Orders |-> 0]
        /\ dropped = {}
        /\ overlapped = {}
----------------------------------------------------------------------------
(* Webhook *)

\* Mutant of Deliver: nothing is UNIQUE.
DeliverAgain(d) ==
    /\ answer[d] = "none"
    /\ alerts' = alerts \cup {KeyOf[d]}
    /\ answer' = [answer EXCEPT ![d] = "accepted"]
    /\ todo' = [todo EXCEPT ![d] = 1]
    /\ UNCHANGED <<order, job, worker, net, killSwitch, adapters, crashes, aborts, history>>

\* tradingview_webhook: the UNIQUE key admits one delivery; an unknown strategy or one
\* with no enabled venue is answered "skipped" after its alert was persisted.
Deliver(d) ==
    /\ answer[d] = "none"
    /\ \/ /\ KeyOf[d] \in alerts
          /\ answer' = [answer EXCEPT ![d] = "duplicate"]
          /\ UNCHANGED <<alerts, todo>>
       \/ /\ KeyOf[d] \notin alerts
          /\ alerts' = alerts \cup {KeyOf[d]}
          /\ \/ /\ answer' = [answer EXCEPT ![d] = "accepted"]
                /\ todo' = [todo EXCEPT ![d] = 1]
             \/ /\ answer' = [answer EXCEPT ![d] = "skipped"]
                /\ UNCHANGED todo
    /\ UNCHANGED <<order, job, worker, net, killSwitch, adapters, crashes, aborts, history>>

\* Mutant of Sizings: a signal of the position's own side opens again.
SizingsPyramid(d, v) ==
    IF killSwitch THEN {0}
    ELSE IF d \in Sar THEN {0, AlertQty}
    ELSE IF net[v] = 0 \/ (net[v] > 0) = (ActionOf[d] = "buy") THEN {0, OpenQty}
    ELSE {IF net[v] > 0 THEN net[v] ELSE -net[v]}

\* decide: the quantities it may size an order to, 0 for REJECT.  An OPEN can be refused
\* for its step, price, minimum or cap, an alert-driven order for the cap.
Sizings(d, v) ==
    IF killSwitch THEN {0}
    ELSE IF d \in Sar THEN {0, AlertQty}
    ELSE IF net[v] = 0 THEN {0, OpenQty}
    ELSE IF (net[v] > 0) = (ActionOf[d] = "buy") THEN {0}
    ELSE {IF net[v] > 0 THEN net[v] ELSE -net[v]}

Dispatching(d) == /\ todo[d] \in DOMAIN VenueSeq
                  /\ job[d] = NoJob

\* An order on the venue whose outcome a decision taken now cannot see.
Unresolved(v) ==
    \/ \E a \in Actors : job[a] # NoJob /\ VenueOf(job[a].order) = v
    \/ \E o \in Orders : VenueOf(o) = v /\ order[o].status = "retrying"

\* record_rejected_order; its mutant never adds the row.
AuditRowMissing == NoOrder
AuditRow == [NoOrder EXCEPT !.status = "rejected"]

\* _dispatch_venue: a REJECT leaves an audit row, anything else goes to execute_order.
Dispatch(d) ==
    /\ Dispatching(d)
    /\ LET v == VenueSeq[todo[d]] IN
       /\ \E q \in Sizings(d, v) :
             IF q = 0
             THEN /\ order' = [order EXCEPT ![<<d, v>>] = AuditRow]
                  /\ todo' = [todo EXCEPT ![d] = @ + 1]
                  /\ UNCHANGED job
             ELSE /\ job' = [job EXCEPT ![d] = [NoJob EXCEPT !.step = "calling",
                                                             !.order = <<d, v>>, !.qty = q]]
                  /\ UNCHANGED <<order, todo>>
       /\ overlapped' = IF Unresolved(v) THEN overlapped \cup {v} ELSE overlapped
    /\ UNCHANGED <<alerts, answer, worker, net, killSwitch, adapters, crashes, aborts,
                   submissions, acks, booked, dropped>>
----------------------------------------------------------------------------
(* execute_order *)

\* The venue's answers to a market order: acknowledged with the quantity whose executions
\* were captured, at their price; with the requested quantity and a mark price, or none,
\* when no execution was; refused, or executed but never acknowledged (the adapter turns
\* the exception into a failure).
Call(a) ==
    /\ job[a].step = "calling"
    /\ LET o == job[a].order IN
       /\ \/ \E f \in 1..job[a].qty, p \in BOOLEAN :
                /\ p \/ f = job[a].qty
                /\ job' = [job EXCEPT ![a] = [@ EXCEPT !.step = "acked", !.filled = f, !.priced = p]]
                /\ acks' = [acks EXCEPT ![o] = @ + 1]
          \/ /\ job' = [job EXCEPT ![a] = [@ EXCEPT !.step = "failed"]]
             /\ UNCHANGED acks
       /\ submissions' = [submissions EXCEPT ![o] = @ + 1]
       /\ adapters' = adapters \cup {VenueOf(o)}
    /\ UNCHANGED <<alerts, answer, todo, order, worker, net, killSwitch, crashes, aborts,
                   booked, dropped, overlapped>>

\* The end of an actor's work on its order: a fan-out moves to its next venue.
Leave(a) == /\ job' = [job EXCEPT ![a] = NoJob]
            /\ todo' = IF a = Worker THEN todo ELSE [todo EXCEPT ![a] = @ + 1]

\* A row the session has not flushed: the fan-out's session commits it at once, the
\* worker's at the end of its pass or with its next success.
Write(a, row) ==
    LET o == job[a].order IN
    IF a = Worker
    THEN staged' = [staged EXCEPT ![o] = row] /\ UNCHANGED order
    ELSE order' = [order EXCEPT ![o] = row] /\ UNCHANGED staged

Flushed == [o \in Orders |-> IF staged[o] = NoOrder THEN order[o] ELSE staged[o]]
NothingStaged == [o \in Orders |-> NoOrder]
Attempt(a) == order[job[a].order].attempts + 1

\* Mutants: the target quantity is kept on success; one attempt too many before dead.
SuccessRowOfTarget(a) == [status |-> "success", qty |-> job[a].qty,
                          attempts |-> Attempt(a), priced |-> job[a].priced]
FailureRowLate(a) == [status |-> IF Attempt(a) > MaxAttempts THEN "dead" ELSE "retrying",
                      qty |-> job[a].qty, attempts |-> Attempt(a), priced |-> FALSE]

SuccessRow(a) == [status |-> "success", qty |-> job[a].filled,
                  attempts |-> Attempt(a), priced |-> job[a].priced]
FailureRow(a) == [status |-> IF Attempt(a) >= MaxAttempts THEN "dead" ELSE "retrying",
                  qty |-> job[a].qty, attempts |-> Attempt(a), priced |-> FALSE]

\* Mutant of RecordSuccess: the worker books first and leaves its row to the end of the pass.
RecordSuccessLate(a) ==
    /\ job[a].step = "acked" /\ job[a].priced
    /\ Write(a, SuccessRow(a))
    /\ job' = [job EXCEPT ![a].step = "recorded"]
    /\ UNCHANGED <<alerts, answer, todo, inPass, batch, net, killSwitch, adapters,
                   crashes, aborts, history>>

\* _on_success with a price: the first commit of _apply_fill_to_position makes this row
\* and everything else the session staged durable.
RecordSuccess(a) ==
    /\ job[a].step = "acked" /\ job[a].priced
    /\ order' = [IF a = Worker THEN Flushed ELSE order
                   EXCEPT ![job[a].order] = SuccessRow(a)]
    /\ staged' = IF a = Worker THEN NothingStaged ELSE staged
    /\ job' = [job EXCEPT ![a].step = "recorded"]
    /\ UNCHANGED <<alerts, answer, todo, inPass, batch, net, killSwitch, adapters,
                   crashes, aborts, history>>

\* The ledger commit of _apply_fill_to_position.
BookFill(a) ==
    /\ job[a].step = "recorded"
    /\ LET o == job[a].order IN
       /\ net' = [net EXCEPT ![VenueOf(o)] = @ + Signed(o, job[a].filled)]
       /\ booked' = [booked EXCEPT ![o] = @ + 1]
    /\ Leave(a)
    /\ UNCHANGED <<alerts, answer, order, worker, killSwitch, adapters, crashes, aborts,
                   submissions, acks, dropped, overlapped>>

\* Mutant of RecordUnpriced: a fill without a price is retried.
RecordUnpricedAsFailure(a) ==
    /\ job[a].step = "acked" /\ ~job[a].priced
    /\ Write(a, FailureRow(a))
    /\ Leave(a)
    /\ UNCHANGED <<alerts, answer, inPass, batch, net, killSwitch, adapters, crashes,
                   aborts, history>>

\* _on_success without a price: the order succeeds and the ledger is not touched.
RecordUnpriced(a) ==
    /\ job[a].step = "acked" /\ ~job[a].priced
    /\ Write(a, SuccessRow(a))
    /\ Leave(a)
    /\ UNCHANGED <<alerts, answer, inPass, batch, net, killSwitch, adapters, crashes,
                   aborts, history>>

\* _on_failure: retry later, or dead after the last attempt.
RecordFailure(a) ==
    /\ job[a].step = "failed"
    /\ Write(a, FailureRow(a))
    /\ Leave(a)
    /\ UNCHANGED <<alerts, answer, inPass, batch, net, killSwitch, adapters, crashes,
                   aborts, history>>

Execute(a) == \/ Call(a) \/ RecordSuccess(a) \/ BookFill(a) \/ RecordUnpriced(a)
              \/ RecordFailure(a)

\* What can raise: the registry, which builds a venue's adapter on first use, and every
\* write that does not get SQLite's write lock within busy_timeout.
CanRaise(a) ==
    \/ job[a].step = "calling" /\ VenueOf(job[a].order) \notin adapters
    \/ job[a].step \in {"acked", "failed", "recorded"}
    \/ IF a = Worker THEN inPass /\ job[a] = NoJob ELSE Dispatching(a)

\* Orders that are committed as a success and not booked yet.
Unbooked(S) == {job[a].order : a \in {b \in S : job[b].step = "recorded"}}

\* An exception ends the session and rolls back what it has not committed: a fan-out goes
\* on with its next venue, the worker loses its pass, and a success that is committed but
\* not booked yet stays so.
SessionRaises(a) ==
    /\ CanRaise(a)
    /\ aborts < MaxAborts
    /\ aborts' = aborts + 1
    /\ Leave(a)
    /\ IF a = Worker
       THEN inPass' = FALSE /\ batch' = {} /\ staged' = NothingStaged
       ELSE UNCHANGED worker
    /\ dropped' = dropped \cup Unbooked({a})
    /\ UNCHANGED <<alerts, answer, order, net, killSwitch, adapters, crashes, submissions,
                   acks, booked, overlapped>>
----------------------------------------------------------------------------
(* Retry worker *)

\* Mutants of ScanRetries: the last attempt is never due; dead orders are picked up as well.
ScanRetriesSparesLast ==
    /\ ~inPass
    /\ batch' \in (SUBSET {o \in Orders : /\ order[o].status = "retrying"
                                          /\ order[o].attempts < MaxAttempts - 1}) \ {{}}
    /\ inPass' = TRUE
    /\ UNCHANGED <<alerts, answer, todo, order, job, staged, net, killSwitch, adapters,
                   crashes, aborts, history>>

ScanRetriesDead ==
    /\ ~inPass
    /\ batch' \in (SUBSET {o \in Orders : order[o].status \in {"retrying", "dead"}}) \ {{}}
    /\ inPass' = TRUE
    /\ UNCHANGED <<alerts, answer, todo, order, job, staged, net, killSwitch, adapters,
                   crashes, aborts, history>>

\* One pass reads the orders that are due, whatever subset of them that is now.
ScanRetries ==
    /\ ~inPass
    /\ batch' \in (SUBSET {o \in Orders : order[o].status = "retrying"}) \ {{}}
    /\ inPass' = TRUE
    /\ UNCHANGED <<alerts, answer, todo, order, job, staged, net, killSwitch, adapters,
                   crashes, aborts, history>>

\* The next order of the pass is executed again with the quantity of its row; neither
\* the position nor the kill-switch is looked at.
ReplayNext ==
    /\ inPass /\ job[Worker] = NoJob
    /\ \E o \in batch :
          /\ batch' = batch \ {o}
          /\ job' = [job EXCEPT ![Worker] = [NoJob EXCEPT !.step = "calling", !.order = o,
                                                          !.qty = order[o].qty]]
    /\ UNCHANGED <<alerts, answer, todo, order, inPass, staged, net, killSwitch, adapters,
                   crashes, aborts, history>>

\* session_scope commits what the pass left staged.
EndPass ==
    /\ inPass /\ batch = {} /\ job[Worker] = NoJob
    /\ order' = Flushed
    /\ staged' = NothingStaged
    /\ inPass' = FALSE
    /\ UNCHANGED <<alerts, answer, todo, job, batch, net, killSwitch, adapters, crashes,
                   aborts, history>>
----------------------------------------------------------------------------
\* save_risk on the admin page.
ToggleKillSwitch ==
    /\ killSwitch' = ~killSwitch
    /\ UNCHANGED <<alerts, answer, todo, order, job, worker, net, adapters, crashes,
                   aborts, history>>

\* The process dies and restarts: tables stay, tasks and sessions are gone.
Crash ==
    /\ crashes < MaxCrashes
    /\ crashes' = crashes + 1
    /\ job' = [a \in Actors |-> NoJob]
    /\ todo' = [d \in Deliveries |-> 0]
    /\ inPass' = FALSE /\ batch' = {} /\ staged' = NothingStaged
    /\ adapters' = {}
    /\ dropped' = dropped \cup Unbooked(Actors)
    /\ UNCHANGED <<alerts, answer, order, net, killSwitch, aborts, submissions, acks, booked,
                   overlapped>>

Next == \/ \E d \in Deliveries : Deliver(d) \/ Dispatch(d)
        \/ \E a \in Actors : Execute(a) \/ SessionRaises(a)
        \/ ScanRetries \/ ReplayNext \/ EndPass
        \/ ToggleKillSwitch
        \/ Crash

Spec == Init /\ [][Next]_vars

\* Background tasks run, the worker loops for ever, and an order's next_retry_at passes,
\* so that a later scan finds it due.  No fairness for deliveries, admins, exceptions or
\* crashes.
FairSpec ==
    /\ Spec
    /\ \A d \in Deliveries : WF_vars(Dispatch(d))
    /\ \A a \in Actors : WF_vars(Execute(a))
    /\ \A o \in Orders : WF_vars(ScanRetries /\ o \in batch')
    /\ WF_vars(ReplayNext) /\ WF_vars(EndPass)
----------------------------------------------------------------------------
(* Properties *)

\* Types; no row, committed or staged in a pass, counts more than RETRY_MAX_ATTEMPTS attempts.
TypeOK ==
    /\ alerts \subseteq {KeyOf[d] : d \in Deliveries}
    /\ answer \in [Deliveries -> {"none", "accepted", "duplicate", "skipped"}]
    /\ todo \in [Deliveries -> 0..(Len(VenueSeq) + 1)]
    /\ \A o \in Orders :
          /\ order[o].status \in {"none", "retrying"} \cup Terminal
          /\ staged[o].status \in {"none", "retrying", "success", "dead"}
          /\ order[o].attempts \in 0..MaxAttempts /\ staged[o].attempts \in 0..MaxAttempts
          /\ order[o].qty \in Nat /\ order[o].priced \in BOOLEAN
    /\ \A a \in Actors :
          /\ job[a].step \in {"none", "calling", "acked", "failed", "recorded"}
          /\ job[a] # NoJob => job[a].order \in Orders
          /\ job[a].filled \in 0..job[a].qty
    /\ batch \subseteq Orders /\ inPass \in BOOLEAN
    /\ net \in [Venues -> Int]
    /\ killSwitch \in BOOLEAN /\ adapters \subseteq Venues /\ overlapped \subseteq Venues
    /\ dropped \subseteq Orders

\* The dedup gate holds end to end: whatever TradingView redelivers, and whenever, one
\* signal (idempotency key) acts on a venue at most once.
OneDispatchPerSignal ==
    \A d, e \in Deliveries : d # e /\ KeyOf[d] = KeyOf[e] =>
        \A v \in Venues : order[<<d, v>>] = NoOrder \/ order[<<e, v>>] = NoOrder

\* The ledger takes an order's fill at most once, whatever retries, rolled-back passes
\* and restarts do around the commit that makes the row "success".
BookedOnce == \A o \in Orders : booked[o] <= 1

\* An acknowledged fill is not ordered again unless a restart or a rolled-back session
\* lost the row that said so.
FilledOnce == \A o \in Orders : acks[o] <= 1 + crashes + aborts

\* The retry ladder is finite: an order reaches the venue at most MaxAttempts times, and
\* once more for every restart or rollback that lost the count.
SubmissionsBounded == \A o \in Orders : submissions[o] <= MaxAttempts + crashes + aborts

\* The replay of audit_pnl: while no order is between its commit and the ledger's, the
\* per-strategy net is what the priced success rows add up to, those aside whose session an
\* exception or a restart ended just there.
AuditClean ==
    Unbooked(Actors) = {} =>
        \A v \in Venues :
            net[v] = MapThenSumSet(LAMBDA o : Signed(o, order[o].qty),
                        {o \in Orders \ dropped : /\ VenueOf(o) = v /\ order[o].priced
                                                  /\ order[o].status = "success"})

\* decide's guard against pyramiding and its close-to-flat, over a whole history: a managed
\* strategy never holds more than one OPEN on a venue unless some decision was taken while
\* another order of that venue was still unresolved.
OneOpenUnlessOverlapped ==
    \A v \in Venues \ overlapped : net[v] \in -OpenQty..OpenQty

\* A success, dead or rejected row is never touched again by any actor.
TerminalIsFinal ==
    [][\A o \in Orders : order[o].status \in Terminal => order'[o] = order[o]]_order

\* Every retrying order is settled in the end, a worker that loses passes included.
RetryingSettles ==
    \A o \in Orders : order[o].status = "retrying" ~> order[o].status \in {"success", "dead"}

\* Every accepted signal leaves an Order row on every enabled venue, unless a restart or
\* an exception ended its task.
AcceptedLeavesOrders ==
    \A d \in Deliveries : answer[d] = "accepted" ~>
        \/ crashes + aborts > 0
        \/ \A v \in Venues : order[<<d, v>>] # NoOrder
============================================================================
