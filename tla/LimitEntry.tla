----------------------------- MODULE LimitEntry -----------------------------
(***************************************************************************)
(* Resting limit entries of one managed strategy (entry: limit) on one     *)
(* venue: placement (executor.py), the fill poller (limit_worker.py),      *)
(* cancel-on-close in the fan-out (routes/webhook.py), the replay of the   *)
(* retry worker, and the venue, where an order fills in parts, is          *)
(* cancelled by somebody else, or rests although its ack was lost.         *)
(*                                                                         *)
(* The task of every signal, the poller and the retry worker each have a   *)
(* session.  A session sees a row as it was when it loaded it (seen,       *)
(* copies) until a commit of its own expires it, and what it sets is       *)
(* invisible to others until it commits (staged, a task's pending          *)
(* "cancelled").  A booking takes two commits under _LEDGER_LOCK.          *)
(***************************************************************************)
EXTENDS Integers, FiniteSets

CONSTANTS Signals,       \* signals of the strategy, each named after its order
          ActionOf,      \* "buy" or "sell"
          Qty,           \* what a managed OPEN is sized to
          AtomicStatus,  \* order_status is one snapshot (Bybit), or two reads (Hyperliquid)
          MaxAttempts,   \* RETRY_MAX_ATTEMPTS
          MaxFaults,     \* bound: restarts and exceptions that end a session or a booking
          Poller, Worker, None

ASSUME QtyAssumption == Qty \in Nat \ {0}
ASSUME ActorAssumption == /\ IsFiniteSet(Signals)
                          /\ Poller # Worker /\ {Poller, Worker, None} \cap Signals = {}

Actors == Signals \cup {Poller, Worker}

VARIABLES venue,     \* the venue's limit order of each signal
          order,     \* committed Order rows
          net,       \* StrategyPosition.net_qty_base
          job,       \* what the session of each actor is doing
          batch,     \* working orders the poller's pass has yet to ask about
          copies,    \* qty_base_filled of the rows the poller's session has loaded
          staged,    \* statuses the poller's session has set and not committed
          faults,    \* what went wrong so far
          booked,    \* per limit order: the quantity the ledger took
          raced,     \* orders two sessions handled at the same time
          blind,     \* orders cancel-on-close gave up without a terminal answer
          misread,   \* orders whose terminal answer had fewer fills than the venue
          dropped    \* orders whose session lost the ledger's commit after the row's

pass == <<batch, copies, staged>>
history == <<booked, raced, blind, misread, dropped>>
vars == <<venue, order, net, job, pass, faults, history>>

NoOrder == [status |-> "none", type |-> "limit", qty |-> 0, filled |-> 0, attempts |-> 0, id |-> 0]
Idle == [step |-> "idle", order |-> None, seen |-> 0, state |-> "unknown", filled |-> 0, qty |-> 0]
Expired == -1
Gone == {"filled", "cancelled"}          \* terminal venue states

Signed(d, q) == IF ActionOf[d] = "buy" THEN q ELSE -q
Working == {o \in Signals : order[o].status = "working"}
NextId == 1 + Cardinality({o \in Signals : order[o].id # 0})

NothingStaged == [o \in Signals |-> "none"]
NothingLoaded == [o \in Signals |-> Expired]

Init == /\ venue = [o \in Signals |-> [state |-> "none", filled |-> 0]]
        /\ order = [o \in Signals |-> NoOrder]
        /\ net = 0
        /\ job = [a \in Actors |-> Idle]
        /\ batch = {} /\ copies = NothingLoaded /\ staged = NothingStaged
        /\ faults = 0
        /\ booked = [o \in Signals |-> 0]
        /\ raced = {} /\ blind = {} /\ misread = {} /\ dropped = {}

\* A session is at work on a limit order, or will write what it thinks of it.
Holds(a, o) == \/ job[a].step # "done" /\ job[a].order = o
               \/ a = Poller /\ (o \in batch \/ staged[o] # "none")

At(a, step) == job[a].step = step
Goto(a, step) == job' = [job EXCEPT ![a].step = step]
\* A task ends for good, the two workers wait for their next pass.
Leave(a) == job' = [job EXCEPT ![a] = IF a \in Signals THEN [Idle EXCEPT !.step = "done"] ELSE Idle]

\* The rows once a session's pending statuses are flushed: the poller's staged ones, a
\* task's "cancelled" for the entry it cancelled.
Flushed(a) ==
    [o \in Signals |->
        IF a = Poller /\ staged[o] # "none" THEN [order[o] EXCEPT !.status = staged[o]]
        ELSE IF a \in Signals /\ job[a].order = o THEN [order[o] EXCEPT !.status = "cancelled"]
        ELSE order[o]]
----------------------------------------------------------------------------
(* The venue *)

VenueFill(o) ==
    /\ venue[o].state = "resting"
    /\ venue' = [venue EXCEPT ![o].filled = @ + 1,
                              ![o].state = IF venue[o].filled + 1 = Qty THEN "filled" ELSE @]
    /\ UNCHANGED <<order, net, job, pass, faults, history>>

\* Cancelled by hand or by the exchange.
VenueCancels(o) ==
    /\ venue[o].state = "resting"
    /\ venue' = [venue EXCEPT ![o].state = "cancelled"]
    /\ UNCHANGED <<order, net, job, pass, faults, history>>
----------------------------------------------------------------------------
(* The task of a signal: _dispatch_venue *)

\* _find_working_entry: the most recent working limit order.  None: on to decide.  Of the
\* same side: the signal is ignored.  Of the other side: it is to be cancelled.
Look(d) ==
    /\ At(d, "idle")
    /\ \/ /\ Working = {}
          /\ Goto(d, "deciding")
          /\ UNCHANGED raced
       \/ \E o \in Working :
             /\ \A x \in Working : order[x].id <= order[o].id
             /\ IF ActionOf[o] = ActionOf[d]
                THEN Leave(d) /\ UNCHANGED raced
                ELSE /\ job' = [job EXCEPT ![d] = [Idle EXCEPT !.step = "cancelling", !.order = o,
                                                              !.seen = order[o].filled]]
                     /\ raced' = IF \E a \in Actors \ {d} : Holds(a, o) THEN raced \cup {o} ELSE raced
    /\ UNCHANGED <<venue, order, net, pass, faults, booked, blind, misread, dropped>>

\* cancel_order reaches the venue, or fails; either way the task asks for the status.
Cancel(d) ==
    /\ At(d, "cancelling")
    /\ \/ venue[job[d].order].state = "resting"
          /\ venue' = [venue EXCEPT ![job[d].order].state = "cancelled"]
       \/ UNCHANGED venue
    /\ Goto(d, "asking")
    /\ UNCHANGED <<order, net, pass, faults, history>>

\* The end of _cancel_working_entry: the row is set to cancelled whatever the answer was.
\* A flat ledger means the entry was unfilled and ends the task (and commits).
AfterCancel(d) ==
    /\ d \in Signals /\ At(d, "answered")
    /\ blind' = IF job[d].state \in Gone THEN blind ELSE blind \cup {job[d].order}
    /\ IF net = 0
       THEN order' = Flushed(d) /\ Leave(d)
       ELSE /\ job' = [job EXCEPT ![d] = [Idle EXCEPT !.step = "deciding", !.order = job[d].order]]
            /\ UNCHANGED order
    /\ UNCHANGED <<venue, net, pass, faults, booked, raced, misread, dropped>>

\* decide: REJECT (kill-switch, sizing, same direction), OPEN as a limit, CLOSE at market.
Decide(d) ==
    /\ At(d, "deciding")
    /\ \/ /\ order' = [Flushed(d) EXCEPT ![d] = [NoOrder EXCEPT !.status = "rejected", !.id = NextId]]
          /\ Leave(d)
       \/ /\ net = 0
          /\ Goto(d, "placing")
          /\ UNCHANGED order
       \/ /\ net # 0 /\ (net > 0) # (ActionOf[d] = "buy")
          /\ job' = [job EXCEPT ![d].step = "closing", ![d].qty = IF net > 0 THEN net ELSE -net]
          /\ UNCHANGED order
    /\ UNCHANGED <<venue, net, pass, faults, history>>
----------------------------------------------------------------------------
(* execute_order, by a task (its own order) or by the retry worker *)

Subject(a) == IF a = Worker THEN job[a].order ELSE a

\* The row of the order an actor placed, and the session's commit.
Committed(a, status, type, qty, filled) ==
    [Flushed(a) EXCEPT ![Subject(a)] =
        [status |-> status, type |-> type, qty |-> qty, filled |-> filled,
         attempts |-> @.attempts + 1, id |-> IF @.id = 0 THEN NextId ELSE @.id]]

\* limit_order: accepted, accepted with the ack lost (the adapter's except branch), or
\* refused.  The venue refuses a client_order_id it already knows.
Place(a) ==
    /\ At(a, "placing")
    /\ LET o == Subject(a) IN
       \/ /\ venue[o].state = "none"
          /\ venue' = [venue EXCEPT ![o].state = "resting"]
          /\ Goto(a, "placed") \/ Goto(a, "refused")
       \/ /\ Goto(a, "refused")
          /\ UNCHANGED venue
    /\ UNCHANGED <<order, net, pass, faults, history>>

FailedStatus(a) == IF order[Subject(a)].attempts + 1 >= MaxAttempts THEN "dead" ELSE "retrying"

CommitPlacement(a) ==
    /\ \/ At(a, "placed") /\ order' = Committed(a, "working", "limit", Qty, 0)
       \/ At(a, "refused") /\ order' = Committed(a, FailedStatus(a), "limit", Qty, 0)
    /\ Leave(a)
    /\ UNCHANGED <<venue, net, pass, faults, history>>

\* market_order of a CLOSE, filled in full or failed (OrderLifecycle has its other outcomes).
Close(a) ==
    /\ At(a, "closing")
    /\ Goto(a, "closed") \/ Goto(a, "closeFailed")
    /\ UNCHANGED <<venue, order, net, pass, faults, history>>

LedgerLockFree == \A a \in Actors : job[a].step \notin {"recorded", "closeRecorded"}

RecordClose(a) ==
    /\ At(a, "closed") /\ LedgerLockFree
    /\ order' = Committed(a, "success", "market", job[a].qty, job[a].qty)
    /\ Goto(a, "closeRecorded")
    /\ UNCHANGED <<venue, net, pass, faults, history>>

BookClose(a) ==
    /\ At(a, "closeRecorded")
    /\ net' = net + Signed(Subject(a), job[a].qty)
    /\ Leave(a)
    /\ UNCHANGED <<venue, order, pass, faults, history>>

CommitCloseFailure(a) ==
    /\ At(a, "closeFailed")
    /\ order' = Committed(a, FailedStatus(a), "market", job[a].qty, 0)
    /\ Leave(a)
    /\ UNCHANGED <<venue, net, pass, faults, history>>

\* The retry worker replays a retrying order from its row (a pass of one order).
Replay ==
    /\ At(Worker, "idle")
    /\ \E o \in Signals :
          /\ order[o].status = "retrying"
          /\ job' = [job EXCEPT ![Worker] =
                [Idle EXCEPT !.step = IF order[o].type = "limit" THEN "placing" ELSE "closing",
                             !.order = o, !.qty = order[o].qty]]
    /\ UNCHANGED <<venue, order, net, pass, faults, history>>

Execute(a) == \/ Place(a) \/ CommitPlacement(a)
              \/ Close(a) \/ RecordClose(a) \/ BookClose(a) \/ CommitCloseFailure(a)
----------------------------------------------------------------------------
(* order_status and book_limit_fill_delta, by the poller or by a task that cancels *)

\* The adapter reads the fills.  Hyperliquid reads them before the state, and takes a
\* failed read for no fills.
ReadFills(a) ==
    /\ At(a, "asking")
    /\ \E q \in {venue[job[a].order].filled} \cup (IF AtomicStatus THEN {} ELSE {0}) :
          job' = [job EXCEPT ![a].step = "reading", ![a].filled = q]
    /\ UNCHANGED <<venue, order, net, pass, faults, history>>

\* Mutant of ReadState: the fills of a cancelled order are not booked.
ReadStateCancelled(a, known) ==
    /\ At(a, "reading")
    /\ LET v == venue[job[a].order]
           q == IF AtomicStatus THEN v.filled ELSE job[a].filled IN
       /\ job' = [job EXCEPT ![a].state = IF known THEN v.state ELSE "unknown",
                             ![a].filled = q,
                             ![a].step = IF known /\ v.state # "cancelled" /\ q > job[a].seen
                                         THEN "booking" ELSE "answered"]
       /\ misread' = IF known /\ v.state \in Gone /\ q < v.filled
                     THEN misread \cup {job[a].order} ELSE misread
    /\ UNCHANGED <<venue, order, net, pass, faults, booked, raced, blind, dropped>>

\* ... then the state, or fails to.  Bybit's row carries both.
ReadState(a, known) ==
    /\ At(a, "reading")
    /\ LET v == venue[job[a].order]
           q == IF AtomicStatus THEN v.filled ELSE job[a].filled IN
       /\ job' = [job EXCEPT ![a].state = IF known THEN v.state ELSE "unknown",
                             ![a].filled = q,
                             ![a].step = IF known /\ q > job[a].seen THEN "booking" ELSE "answered"]
       /\ misread' = IF known /\ v.state \in Gone /\ q < v.filled
                     THEN misread \cup {job[a].order} ELSE misread
    /\ UNCHANGED <<venue, order, net, pass, faults, booked, raced, blind, dropped>>

\* Mutant of BookRow: qty_base_filled is set after the ledger was, and never lands.
BookRowUnset(a) ==
    /\ At(a, "booking") /\ LedgerLockFree
    /\ order' = IF a = Poller THEN Flushed(a) ELSE order
    /\ IF a = Poller
       THEN copies' = NothingLoaded /\ staged' = NothingStaged
       ELSE UNCHANGED <<copies, staged>>
    /\ Goto(a, "recorded")
    /\ UNCHANGED <<venue, net, batch, faults, history>>

\* The first commit of _apply_fill_to_position: the row says the fills are in.
BookRow(a) ==
    /\ At(a, "booking") /\ LedgerLockFree
    /\ order' = [(IF a = Poller THEN Flushed(a) ELSE order)
                    EXCEPT ![job[a].order].filled = job[a].filled]
    /\ IF a = Poller
       THEN copies' = NothingLoaded /\ staged' = NothingStaged
       ELSE UNCHANGED <<copies, staged>>
    /\ Goto(a, "recorded")
    /\ UNCHANGED <<venue, net, batch, faults, history>>

\* The second: the ledger takes what is new since the session loaded the row.
BookLedger(a) ==
    /\ At(a, "recorded")
    /\ LET o == job[a].order
           newly == job[a].filled - job[a].seen IN
       /\ net' = net + Signed(o, newly)
       /\ booked' = [booked EXCEPT ![o] = @ + newly]
    /\ Goto(a, "answered")
    /\ UNCHANGED <<venue, order, pass, faults, raced, blind, misread, dropped>>

\* The ledger's UPSERT does not get SQLite's write lock within busy_timeout.  The row is
\* committed; the poller goes on with its next order, a task with what follows its cancel.
DropBooking(a) ==
    /\ At(a, "recorded") /\ faults < MaxFaults
    /\ faults' = faults + 1
    /\ dropped' = dropped \cup {job[a].order}
    /\ job' = [job EXCEPT ![a] = IF a = Poller THEN [Idle EXCEPT !.step = "polling"]
                                 ELSE [@ EXCEPT !.step = "answered"]]
    /\ UNCHANGED <<venue, order, net, pass, booked, raced, blind, misread>>

Observe(a) == \/ ReadFills(a)
              \/ \E known \in BOOLEAN : ReadState(a, known)
              \/ BookRow(a) \/ BookLedger(a)
----------------------------------------------------------------------------
(* The poller: _poll_working_orders, also run by reconcile_on_boot *)

\* The rows of all working orders are loaded at once.
Scan ==
    /\ At(Poller, "idle") /\ Working # {}
    /\ batch' = Working
    /\ copies' = [o \in Signals |-> IF o \in Working THEN order[o].filled ELSE Expired]
    /\ raced' = raced \cup {o \in Working : \E d \in Signals : Holds(d, o)}
    /\ Goto(Poller, "polling")
    /\ UNCHANGED <<venue, order, net, staged, faults, booked, blind, misread, dropped>>

\* The next order of the pass; its row is loaded again if a booking's commit expired it.
PollNext ==
    /\ At(Poller, "polling")
    /\ \E o \in batch :
          /\ \A x \in batch : order[o].id <= order[x].id
          /\ batch' = batch \ {o}
          /\ job' = [job EXCEPT ![Poller] =
                [Idle EXCEPT !.step = "asking", !.order = o,
                             !.seen = IF copies[o] = Expired THEN order[o].filled ELSE copies[o]]]
    /\ UNCHANGED <<venue, order, net, copies, staged, faults, history>>

\* The end of _poll_one: a terminal answer settles the row.
PollVerdict ==
    /\ At(Poller, "answered")
    /\ staged' = IF job[Poller].state \in Gone
                 THEN [staged EXCEPT ![job[Poller].order] =
                          IF job[Poller].state = "filled" THEN "success" ELSE "cancelled"]
                 ELSE staged
    /\ job' = [job EXCEPT ![Poller] = [Idle EXCEPT !.step = "polling"]]
    /\ UNCHANGED <<venue, order, net, batch, copies, faults, history>>

\* Mutant of EndPass: the pass ends without a commit.
EndPassUncommitted ==
    /\ At(Poller, "polling") /\ batch = {}
    /\ copies' = NothingLoaded /\ staged' = NothingStaged
    /\ Leave(Poller)
    /\ UNCHANGED <<venue, order, net, batch, faults, history>>

EndPass ==
    /\ At(Poller, "polling") /\ batch = {}
    /\ order' = Flushed(Poller)
    /\ copies' = NothingLoaded /\ staged' = NothingStaged
    /\ Leave(Poller)
    /\ UNCHANGED <<venue, net, batch, faults, history>>

Poll == PollNext \/ PollVerdict \/ EndPass \/ Observe(Poller)
----------------------------------------------------------------------------
\* What can raise outside the try blocks around status and booking: the registry, a commit
\* that does not get the write lock; of the poller, the row's commit, after which its session
\* is of no use, and the last one.
CanRaise(a) ==
    IF a = Poller THEN At(a, "booking") \/ (At(a, "polling") /\ batch = {})
    ELSE job[a].step \notin {"idle", "done", "asking", "reading", "recorded"}

\* An exception ends a session and rolls back what it has not committed.
SessionRaises(a) ==
    /\ CanRaise(a) /\ faults < MaxFaults
    /\ faults' = faults + 1
    /\ Leave(a)
    /\ IF a = Poller
       THEN batch' = {} /\ copies' = NothingLoaded /\ staged' = NothingStaged
       ELSE UNCHANGED pass
    /\ UNCHANGED <<venue, order, net, history>>

\* The process dies and restarts: rows and the venue stay, sessions are gone.
Crash ==
    /\ faults < MaxFaults
    /\ faults' = faults + 1
    /\ job' = [a \in Actors |->
                  IF a \in Signals /\ job[a].step # "idle" THEN [Idle EXCEPT !.step = "done"] ELSE Idle]
    /\ batch' = {} /\ copies' = NothingLoaded /\ staged' = NothingStaged
    /\ dropped' = dropped \cup {job[a].order : a \in {b \in Actors : At(b, "recorded")}}
    /\ UNCHANGED <<venue, order, net, booked, raced, blind, misread>>

Task(d) == \/ Look(d) \/ Cancel(d) \/ AfterCancel(d) \/ Decide(d)
           \/ Observe(d) \/ Execute(d)

Next == \/ \E d \in Signals : VenueFill(d) \/ VenueCancels(d) \/ Task(d)
        \/ Replay \/ Execute(Worker)
        \/ Scan \/ Poll
        \/ \E a \in Actors : DropBooking(a) \/ SessionRaises(a)
        \/ Crash

Spec == Init /\ [][Next]_vars

\* The loops run for ever, a task that began goes on, and a venue that is asked again and
\* again answers.  No fairness for signals, fills, cancels or faults.
FairSpec ==
    /\ Spec
    /\ \A d \in Signals : WF_vars(~At(d, "idle") /\ Task(d))
    /\ WF_vars(Replay \/ Execute(Worker)) /\ WF_vars(Scan \/ Poll)
    /\ \A o \in Signals : SF_vars(job[Poller].order = o /\ ReadState(Poller, TRUE))
----------------------------------------------------------------------------
(* Properties *)

\* book_limit_fill_delta: the ledger never takes more of an order than the venue filled,
\* restarts and partial fills included, unless two sessions handled it at the same time.
NoOverbooking == \A o \in Signals \ raced : booked[o] <= venue[o].filled

\* An order that ends as filled or cancelled has had every fill booked, unless two sessions
\* handled it at once, cancel-on-close gave it up blind, its terminal answer carried fewer
\* fills than the venue had, or the booking was lost between its two commits: limit_worker.py
\* settles it with "any partial already booked above".
SettledIsBooked ==
    \A o \in Signals \ (raced \cup blind \cup misread \cup dropped) :
        order[o].type = "limit" /\ order[o].status \in {"success", "cancelled"}
            => booked[o] = venue[o].filled

\* The poller settles every working order that the venue has filled or cancelled.
WorkingSettles ==
    \A o \in Signals :
        order[o].status = "working" /\ venue[o].state \in Gone ~> order[o].status # "working"

\* executor.py, book_limit_fill_delta: "crash-safe + no double-count", the second half, with
\* every pair of sessions allowed.
NoDoubleCount == \A o \in Signals : booked[o] <= venue[o].filled
============================================================================
