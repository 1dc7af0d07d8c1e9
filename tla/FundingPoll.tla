---------------------------- MODULE FundingPoll ----------------------------
(***************************************************************************)
(* The funding of the arb book: the hourly poll of the venue's settlements *)
(* (funding_worker.py) and their attribution to pairs (arb_funding.py).    *)
(*                                                                         *)
(* One symbol of the dedicated account, and the pairs of that symbol: by   *)
(* the exclusivity of opens they come one after the other, but an open can *)
(* pass its look beside another, a late replay can fill, and a close can   *)
(* report flat what is not.  Time is in hours: a settlement is paid at the *)
(* instant an hour begins, everything else happens within an hour, so a    *)
(* time stamp of hour h lies after the settlement of hour h.               *)
(***************************************************************************)
EXTENDS Integers

CONSTANTS Arbs,         \* ArbPositions of the symbol
          Closers,      \* close requests running at a time
          MaxHour,      \* bound: the last hour
          Lookback,     \* _LOOKBACK_MS in hours
          MaxFaults,    \* bound: restarts, exceptions, legs that fail to close, wrong answers
          Never, Nobody

ASSUME PollAssumption == /\ Lookback \in Nat \ {0} /\ MaxHour \in Nat /\ MaxFaults \in Nat
                         /\ Never \notin 0..MaxHour /\ Nobody \notin Arbs

VARIABLES now,
          looked,      \* open requests that found the symbol free and have not written yet
          arb,         \* ArbPosition, the order of its perp leg, its _run_open task, and
                       \* whether it holds the perp
          closer,      \* _run_close tasks
          faults,      \* what went wrong so far
          paidTo,      \* who held the perp when an hour's settlement was paid
          muddled,     \* history: hours at whose settlement two pairs were live
          events,      \* ArbFundingEvent rows by funding_time
          loop,        \* funding_loop: its step, the poll's start, fetched events to store
          polls        \* hours at which a poll was started that stored all it should

pairs == <<looked, arb, closer, faults>>
paid == <<paidTo, muddled>>
worker == <<events, loop, polls>>
vars == <<now, pairs, paid, worker>>

Hours == 0..MaxHour
Asleep == [step |-> "asleep", start |-> 0, todo |-> {}]
NoArb == [status |-> "none", opened |-> Never, closed |-> Never, opener |-> FALSE,
          perp |-> "none", holds |-> FALSE]
NoCloser == [arb |-> Nobody, step |-> "none"]
NonClosed == {"opening", "open", "closing", "error"}
Held == \E a \in Arbs : arb[a].status \in NonClosed

Init == /\ now = 0
        /\ looked = {} /\ arb = [a \in Arbs |-> NoArb]
        /\ closer = [c \in Closers |-> NoCloser] /\ faults = 0
        /\ paidTo = [h \in Hours |-> {}] /\ muddled = {}
        /\ events = [h \in Hours |-> 0]
        /\ loop = Asleep /\ polls = {}
----------------------------------------------------------------------------
(* The venue *)

\* A pair that holds the perp, is not closed, or has a close still running.
Live(a) == \/ arb[a].holds \/ arb[a].status \in NonClosed
           \/ \E c \in Closers : closer[c].arb = a

\* Whoever holds the perp when the hour begins pays or receives funding; funding_loop sleeps
\* to the full hour.
Tick ==
    /\ now < MaxHour
    /\ now' = now + 1
    /\ paidTo' = [paidTo EXCEPT ![now + 1] = {a \in Arbs : arb[a].holds}]
    /\ muddled' = IF \E a, b \in Arbs : a # b /\ Live(a) /\ Live(b)
                  THEN muddled \cup {now + 1} ELSE muddled
    /\ loop' = IF loop = Asleep THEN [Asleep EXCEPT !.step = "due"] ELSE loop
    /\ UNCHANGED <<pairs, events, polls>>
----------------------------------------------------------------------------
(* The pairs, as far as their perp and their time stamps go *)

PairStep(a, row) == /\ arb' = [arb EXCEPT ![a] = row]
                    /\ UNCHANGED <<now, paid, worker>>

Fault(occurs) == /\ faults' = faults + IF occurs THEN 1 ELSE 0
                 /\ faults' <= MaxFaults

\* POST /funding-arb/open looks whether another pair holds the symbol ...
OpenCheck(a) == /\ arb[a].status = "none" /\ a \notin looked /\ ~Held
                /\ looked' = looked \cup {a}
                /\ UNCHANGED <<now, arb, closer, faults, paid, worker>>

\* ... and writes its rows later, or none when it cannot size the pair.
OpenPersist(a) ==
    /\ a \in looked
    /\ looked' = looked \ {a}
    /\ \/ /\ PairStep(a, [arb[a] EXCEPT !.status = "opening", !.opener = TRUE])
          /\ Fault(Held)
       \/ PairStep(a, arb[a]) /\ UNCHANGED faults
    /\ UNCHANGED closer

\* The perp order: placed by _run_open, replayed by the retry worker whatever became of
\* the arb.  It can fill and be recorded as failed, or not at all, and the other way round.
PerpOrder(a) ==
    /\ arb[a].perp = "due" \/ (arb[a].perp = "none" /\ arb[a].opener)
    /\ \E fills \in BOOLEAN, p \in {"due", "filled"} :
          /\ Fault(fills # (p = "filled"))
          /\ PairStep(a, [arb[a] EXCEPT !.perp = p, !.holds = @ \/ fills])
    /\ UNCHANGED <<looked, closer>>

\* _finalize_open_status overwrites whatever the status is by then; opened_at is recorded
\* on success only, once.
FinalizeOpen(a) ==
    /\ arb[a].opener
    /\ \/ /\ arb[a].perp = "filled"
          /\ PairStep(a, [arb[a] EXCEPT !.status = "open", !.opener = FALSE,
                                        !.opened = IF @ = Never THEN now ELSE @])
       \/ PairStep(a, [arb[a] EXCEPT !.status = "error", !.opener = FALSE])
    /\ UNCHANGED <<looked, closer, faults>>

\* POST /funding-arb/close, also of a pair that is still opening.
Close(c, a) ==
    /\ closer[c] = NoCloser /\ arb[a].status \in {"opening", "open", "error"}
    /\ closer' = [closer EXCEPT ![c] = [arb |-> a, step |-> "perp"]]
    /\ PairStep(a, [arb[a] EXCEPT !.status = "closing"])
    /\ UNCHANGED <<looked, faults>>

\* The perp leg of _run_close: skipped when it is closed; else the whole position of the symbol
\* is closed, but what that reports is not what it did.
ClosePerp(c) ==
    /\ closer[c].step = "perp"
    /\ \/ /\ arb[closer[c].arb].perp = "closed"
          /\ closer' = [closer EXCEPT ![c].step = "ok"]
          /\ UNCHANGED <<arb, faults>>
       \/ /\ arb[closer[c].arb].perp # "closed"
          /\ \E ok, flat \in BOOLEAN :
                /\ closer' = [closer EXCEPT ![c].step = IF ok THEN "ok" ELSE "failed"]
                /\ arb' = [a \in Arbs |-> [arb[a] EXCEPT
                      !.holds = @ /\ ~flat,
                      !.perp = IF a = closer[c].arb /\ ok /\ @ = "filled" THEN "closed" ELSE @]]
                /\ Fault(~(ok /\ flat))
    /\ UNCHANGED <<now, looked, paid, worker>>

\* The end of _run_close: closed_at is recorded when no leg reported an error, neither the perp
\* nor the spot leg, whose failure is a fault.
FinalizeClose(c) ==
    /\ closer[c].step \in {"ok", "failed"}
    /\ \E status \in {"closed", "error"} :
          /\ closer[c].step = "failed" => status = "error"
          /\ LET a == closer[c].arb IN
             PairStep(a, [arb[a] EXCEPT !.status = status,
                                        !.closed = IF status = "closed" THEN now ELSE @])
          /\ Fault(closer[c].step = "ok" /\ status = "error")
    /\ closer' = [closer EXCEPT ![c] = NoCloser]
    /\ UNCHANGED looked

\* An exception ends a task.
Abort ==
    /\ \/ \E a \in Arbs : /\ arb[a].opener /\ UNCHANGED closer
                          /\ PairStep(a, [arb[a] EXCEPT !.opener = FALSE])
       \/ \E c \in Closers : /\ closer[c] # NoCloser /\ UNCHANGED <<now, arb, paid, worker>>
                             /\ closer' = [closer EXCEPT ![c] = NoCloser]
    /\ Fault(TRUE)
    /\ UNCHANGED looked
----------------------------------------------------------------------------
(* leg_funding *)

\* Mutant of InWindow: no lower bound.
InWindowFromStart(u, a) == u <= IF arb[a].closed = Never THEN now ELSE arb[a].closed

\* [opened_at, closed_at or now], without a lower bound as long as opened_at is not set.
InWindow(u, a) ==
    /\ arb[a].opened = Never \/ u > arb[a].opened
    /\ u <= IF arb[a].closed = Never THEN now ELSE arb[a].closed

\* Whether leg_funding counts the settlement of an hour for a pair.
Credited(u, a) == events[u] > 0 /\ InWindow(u, a)
----------------------------------------------------------------------------
(* funding_loop *)

PollStep(next) == loop' = next /\ UNCHANGED <<now, pairs, paid>>

\* Mutant of Window: an hour short.
WindowShort(start) == {h \in Hours : start - Lookback + 1 < h /\ h <= start}

\* [now - lookback, now]: the settlement a full lookback before the poll's hour began lies
\* before it.
Window(start) == {h \in Hours : start - Lookback < h /\ h <= start}

\* The sleep is over and the directional poll_once done; poll_arb_once: _arb_perp_legs finds
\* legs of non-closed arbs only, the window ends now, and get_funding answers with what was
\* paid in it, the settlement of this very hour perhaps not yet.
BeginPoll ==
    /\ loop.step = "due" /\ Held
    /\ \E unreported \in SUBSET {now} :
          PollStep([step |-> "storing", start |-> now,
                    todo |-> {u \in Window(now) \ unreported : paidTo[u] # {}}])
    /\ UNCHANGED <<events, polls>>

\* Mutant of Store: an INSERT without ON CONFLICT DO NOTHING, and no unique key.
StoreAgain(u) ==
    /\ loop.step = "storing" /\ u \in loop.todo
    /\ events' = [events EXCEPT ![u] = @ + 1]
    /\ PollStep([loop EXCEPT !.todo = @ \ {u}])
    /\ UNCHANGED polls

\* Each event in a session of its own, insert-or-ignore.
Store(u) ==
    /\ loop.step = "storing" /\ u \in loop.todo
    /\ events' = [events EXCEPT ![u] = 1]
    /\ PollStep([loop EXCEPT !.todo = @ \ {u}])
    /\ UNCHANGED polls

\* The pass is over and the loop sleeps to the next full hour: nothing to poll, all stored,
\* an empty answer of get_funding after a failure, or an exception, which skips the leg or is
\* caught by funding_loop.
EndPass ==
    /\ loop.step # "asleep"
    /\ polls' = IF loop.step = "storing" /\ loop.todo = {} THEN polls \cup {loop.start} ELSE polls
    /\ PollStep(Asleep)
    /\ UNCHANGED events

\* A crash and the next boot: requests and tasks are gone, the loop sleeps first.
Restart ==
    /\ looked' = {} /\ closer' = [c \in Closers |-> NoCloser]
    /\ arb' = [a \in Arbs |-> [arb[a] EXCEPT !.opener = FALSE]]
    /\ loop' = Asleep
    /\ Fault(TRUE)
    /\ UNCHANGED <<now, paid, events, polls>>

Next == \/ Tick
        \/ \E a \in Arbs : OpenCheck(a) \/ OpenPersist(a) \/ PerpOrder(a) \/ FinalizeOpen(a)
        \/ \E c \in Closers : (\E a \in Arbs : Close(c, a)) \/ ClosePerp(c) \/ FinalizeClose(c)
        \/ Abort
        \/ BeginPoll \/ (\E u \in Hours : Store(u)) \/ EndPass
        \/ Restart

Spec == Init /\ [][Next]_vars
----------------------------------------------------------------------------
(* Properties *)

\* A settlement that is missing was in the window of no poll that succeeded: an outage, a
\* failed poll, a crash between two inserts or a late report lose nothing as long as a later
\* poll comes within the lookback and some pair is still there to be polled for.
MissedOnlyWithoutPoll ==
    \A u \in Hours : paidTo[u] # {} /\ events[u] = 0 =>
        \A p \in polls : p <= u \/ p >= u + Lookback

\* arb_funding.py: "a settlement from a PRIOR closed arb on the same (re-used) symbol can't
\* leak into this one": an opened pair is credited with settlements of its own position only,
\* and with each once, whatever later polls store of earlier hours.  Not so for the hours
\* at whose settlement two pairs were live, which takes a second open past the look, a perp
\* order filled late, a close that reported flat what was not, or one that still ran.
FundingIsOwn ==
    \A a \in Arbs : arb[a].opened # Never =>
        \A u \in Hours \ muddled : Credited(u, a) => paidTo[u] = {a} /\ events[u] = 1
============================================================================
