--------------------------- MODULE EquityHistory ---------------------------
(***************************************************************************)
(* The table behind the equity curve, equity_snapshots: one live point an  *)
(* hour by funding_loop, and after each boot the one-time tasks of         *)
(* _startup_backfill (funding_worker.py), which sweep off-hour points of   *)
(* an older release and fill in history from the venues' own records       *)
(* (equity_backfill.py), guarded by markers in app_meta.                   *)
(***************************************************************************)
EXTENDS Integers

CONSTANTS MaxHour,      \* bound: the last hour
          Venues,       \* venues asked for their history
          HasHistory    \* those that have some

ASSUME HistoryAssumption == MaxHour \in Nat /\ HasHistory \subseteq Venues

VARIABLES now,
          loop,       \* funding_loop: "asleep", or "polling" the venues before its snapshot
          wakeAt,     \* the hour it sleeps to
          live,       \* rows of source "live" by the hour of captured_at
          offHour,    \* there are off-hour rows of source "live"
          swept,      \* the marker offhour_live_cleanup is set
          history,    \* whose records the rows of source "backfill" carry; {}: no rows
          marker,     \* the marker equity_backfill has the fingerprint of this version and start
          task,       \* where _startup_backfill is
          pulled      \* venues whose history it has pulled

hourly == <<now, loop, wakeAt, live>>
startup == <<offHour, swept, history, marker, task, pulled>>
vars == <<hourly, startup>>

Hours == 0..MaxHour

Init == /\ now = 0 /\ loop = "asleep" /\ wakeAt = 1
        /\ live = [h \in Hours |-> 0]
        /\ offHour \in BOOLEAN /\ swept = FALSE
        /\ history \in {{}, HasHistory}    \* none yet, or what an older version wrote
        /\ marker = FALSE /\ task = "delay" /\ pulled = {}
----------------------------------------------------------------------------
(* funding_loop *)

Tick == /\ now < MaxHour /\ now' = now + 1
        /\ UNCHANGED <<loop, wakeAt, live, startup>>

Wake == /\ loop = "asleep" /\ now >= wakeAt
        /\ loop' = "polling"
        /\ UNCHANGED <<now, wakeAt, live, startup>>

\* Mutant of Snapshot: a fixed sleep that may end in the same hour.
SnapshotUnaligned ==
    /\ loop = "polling"
    /\ live' \in {live, [live EXCEPT ![now] = @ + 1]}
    /\ loop' = "asleep" /\ wakeAt' = now
    /\ UNCHANGED <<now, startup>>

\* After the polls, however long they took, write_equity_snapshot stamps its row with the floor
\* of the present hour, best-effort; then the loop sleeps to the next hour.
Snapshot ==
    /\ loop = "polling"
    /\ live' \in {live, [live EXCEPT ![now] = @ + 1]}
    /\ loop' = "asleep" /\ wakeAt' = now + 1
    /\ UNCHANGED <<now, startup>>
----------------------------------------------------------------------------
(* _startup_backfill *)

Goto(step) == task' = step /\ UNCHANGED hourly

\* Mutant of Sweep: every live row goes, the marker is not looked at.
SweepAll ==
    /\ task = "delay"
    /\ swept' = TRUE /\ offHour' = FALSE /\ live' = [h \in Hours |-> 0]
    /\ task' = "check"
    /\ UNCHANGED <<now, loop, wakeAt, history, marker, pulled>>

\* After the delay, _maybe_cleanup_offhour_live: rows and marker in one session, once; it may fail.
Sweep ==
    /\ task = "delay"
    /\ \/ ~swept /\ swept' = TRUE /\ offHour' = FALSE
       \/ UNCHANGED <<swept, offHour>>
    /\ Goto("check")
    /\ UNCHANGED <<history, marker, pulled>>

\* _maybe_backfill_equity: not again for the same version and start date.
CheckMarker ==
    /\ task = "check"
    /\ Goto(IF marker THEN "done" ELSE "pulling")
    /\ UNCHANGED <<offHour, swept, history, marker, pulled>>

\* The adapters answer.  One whose first use fails raises, and the rows stay as they are.  One
\* whose request fails (get_pnl_history, get_closed_pnl, get_account_funding) logs it and
\* returns what it has, as if the venue had no more.  Nothing from anybody counts as an error.
Pull ==
    /\ task = "pulling"
    /\ \/ Goto("done") /\ UNCHANGED pulled
       \/ \E got \in (SUBSET HasHistory) \ {{}} : pulled' = got /\ Goto("writing")
    /\ UNCHANGED <<offHour, swept, history, marker>>

\* Mutants of WriteHistory: the marker first; the delete without its filter on the source.
MarkThenWrite ==
    /\ task = "writing"
    /\ \/ marker' = TRUE /\ task' = "writing" /\ UNCHANGED history
       \/ history' = pulled /\ task' = "marking" /\ UNCHANGED marker
    /\ UNCHANGED <<hourly, offHour, swept, pulled>>
WriteOverAll ==
    /\ task = "writing"
    /\ history' = pulled /\ live' = [h \in Hours |-> 0]
    /\ task' = "marking"
    /\ UNCHANGED <<now, loop, wakeAt, offHour, swept, marker, pulled>>

\* backfill_equity replaces the rows of an earlier backfill in one session, which may fail.
WriteHistory ==
    /\ task = "writing"
    /\ \/ history' = pulled /\ Goto("marking")
       \/ Goto("done") /\ UNCHANGED history
    /\ UNCHANGED <<offHour, swept, marker, pulled>>

\* The marker has a session of its own, which may fail.
MarkDone ==
    /\ task = "marking"
    /\ marker' \in {marker, TRUE}
    /\ Goto("done")
    /\ UNCHANGED <<offHour, swept, history, pulled>>

\* A crash and the next boot: loop and task start from the beginning.
Restart == /\ loop' = "asleep" /\ wakeAt' = now + 1
           /\ task' = "delay" /\ pulled' = {}
           /\ UNCHANGED <<now, live, offHour, swept, history, marker>>

Startup == Sweep \/ CheckMarker \/ Pull \/ WriteHistory \/ MarkDone

Next == Tick \/ Wake \/ Snapshot \/ Startup \/ Restart

Spec == Init /\ [][Next]_vars
----------------------------------------------------------------------------
(* Properties *)

\* The live curve has one point an hour at most, polls that last over the hour and restarts
\* within it included.
OnePointPerHour == \A h \in Hours : live[h] <= 1

\* No live point is lost to the sweep or to a backfill that replaces its own rows.
PointsKept == [][\A h \in Hours : live[h] <= live'[h]]_live

\* The marker is only set when rows are there: a crash between the two sessions, a failed pull or
\* an empty one leave the backfill to the next boot.
MarkerIsEarned == marker => history # {}
============================================================================
