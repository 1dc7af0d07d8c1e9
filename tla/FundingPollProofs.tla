------------------------- MODULE FundingPollProofs -------------------------
(***************************************************************************)
(* Funding of the arb book: what the hourly poll stores, and whose it is,  *)
(* for any number of pairs, closes, faults and hours and any lookback.     *)
(***************************************************************************)
EXTENDS FundingPoll, TLAPS

Stamps == Hours \cup {Never}
Rows == [status : {"none", "closed"} \cup NonClosed, opened : Stamps, closed : Stamps,
         opener : BOOLEAN, perp : {"none", "due", "filled", "closed"}, holds : BOOLEAN]
Jobs == [arb : Arbs \cup {Nobody}, step : {"none", "perp", "ok", "failed"}]

\* No close of the pair is running.
Quiet(a) == \A c \in Closers : closer[c].arb # a

\* What the records and sets are made of.
TypeInv ==
    /\ now \in Hours
    /\ looked \subseteq Arbs
    /\ arb \in [Arbs -> Rows]
    /\ closer \in [Closers -> Jobs]
    /\ paidTo \in [Hours -> SUBSET Arbs]
    /\ events \in [Hours -> {0, 1}]
    /\ loop \in [step : {"asleep", "due", "storing"}, start : Hours, todo : SUBSET Hours]
    /\ polls \subseteq Hours

\* What a settlement before the poll and within its lookback comes to.
Covers(p, u) == u < p /\ p < u + Lookback /\ paidTo[u] # {}

\* Nothing is paid ahead of the clock; a poll looks back from a moment that is over, stores
\* only what was paid, and has all of its window stored or still to store.
PollInv ==
    /\ \A u \in Hours : u > now => paidTo[u] = {}
    /\ loop.start <= now
    /\ \A u \in loop.todo : paidTo[u] # {}
    /\ \A u \in Hours : events[u] = 1 => paidTo[u] # {}
    /\ \A p \in polls : p <= now
    /\ loop.step = "storing" =>
          \A u \in Hours : Covers(loop.start, u) => u \in loop.todo \/ events[u] = 1

\* A pair before its open has neither task nor stamps, a running open has no opening time yet,
\* a closed pair has its closing time, and stamps lie in the past.
PairInv ==
    /\ \A a \in looked : arb[a].status = "none"
    /\ \A c \in Closers : closer[c] = NoCloser \/ closer[c].arb \in Arbs
    /\ \A a \in Arbs :
          /\ arb[a].status = "none" => arb[a].opened = Never /\ ~arb[a].opener /\ Quiet(a)
          /\ arb[a].opener => arb[a].opened = Never
          /\ arb[a].status = "closed" => arb[a].closed # Never
          /\ arb[a].opened = Never \/ arb[a].opened <= now
          /\ arb[a].closed = Never \/ arb[a].closed <= now

\* A settlement that was not paid to the pair alone, with no second pair live, came before its
\* opening, or after its close was over.
Apart(u, a) == \/ arb[a].opened >= u
               \/ arb[a].status = "closed" /\ Quiet(a) /\ arb[a].closed < u

OwnInv ==
    \A a \in Arbs : arb[a].opened # Never =>
        \A u \in Hours \ muddled :
            u <= now /\ paidTo[u] # {} /\ paidTo[u] # {a} => Apart(u, a)

IInv == /\ TypeInv /\ PollInv /\ PairInv /\ OwnInv
        /\ MissedOnlyWithoutPoll
----------------------------------------------------------------------------
\* Hours are numbers, and no hour is Never.
LEMMA HoursAreNat ==
  /\ \A h \in Hours : h \in Nat /\ h # Never
  /\ Lookback \in Nat /\ MaxHour \in Nat /\ Nobody \notin Arbs
  BY PollAssumption DEF Hours

\* The invariant holds initially.
LEMMA InitInv == Init => IInv
  <1> SUFFICES ASSUME Init PROVE IInv
    OBVIOUS
  <1> USE HoursAreNat DEF Init
  <1>0. 0 \in Hours
    BY DEF Hours
  <1>1. TypeInv
    BY <1>0 DEF TypeInv, Asleep, NoArb, NoCloser, Stamps, Rows, Jobs
  <1>2. PollInv
    BY <1>0 DEF PollInv, Covers, Asleep
  <1>3. PairInv /\ OwnInv
    BY DEF PairInv, OwnInv, NoArb, NoCloser, Quiet
  <1>4. MissedOnlyWithoutPoll
    BY DEF MissedOnlyWithoutPoll
  <1>5. QED
    BY <1>1, <1>2, <1>3, <1>4 DEF IInv

\* Who is paid when an hour begins: the pairs that hold the perp.
LEMMA TickInv == ASSUME IInv, Tick PROVE IInv'
  <1> USE HoursAreNat
  <1>1. now \in Hours /\ now + 1 \in Hours
    BY DEF Tick, IInv, TypeInv, Hours
  <1>2. /\ paidTo' \in [Hours -> SUBSET Arbs]
        /\ paidTo'[now + 1] = {a \in Arbs : arb[a].holds}
        /\ \A u \in Hours : u # now + 1 => paidTo'[u] = paidTo[u]
    BY <1>1 DEF Tick, IInv, TypeInv
  <1>3. /\ now' = now + 1
        /\ UNCHANGED <<looked, arb, closer, events, polls>>
        /\ loop' = loop \/ loop' = [Asleep EXCEPT !.step = "due"]
    BY DEF Tick, pairs
  <1>4. 0 \in Hours
    BY DEF Hours
  <1>5. TypeInv'
    BY <1>1, <1>2, <1>3, <1>4 DEF IInv, TypeInv, Asleep
  <1>6. PollInv'
    <2>1. \A u \in Hours : u > now + 1 => paidTo'[u] = {}
      BY <1>1, <1>2 DEF IInv, PollInv
    <2>2. \A u \in Hours : paidTo[u] # {} => paidTo'[u] # {}
      BY <1>1, <1>2 DEF IInv, PollInv
    <2>3. CASE loop' = loop
      <3>1. \A u \in Hours : Covers(loop.start, u)' => Covers(loop.start, u)
        <4>1. loop.start <= now /\ loop.start \in Hours
          BY DEF IInv, TypeInv, PollInv
        <4>2. \A u \in Hours : u < loop.start => u # now + 1
          BY <4>1, <1>1
        <4>3. QED
          BY <4>2, <1>2, <2>3 DEF Covers
      <3>2. loop.start <= now + 1 /\ \A q \in polls : q <= now + 1
        BY <1>1 DEF IInv, TypeInv, PollInv
      <3>3. loop.todo \subseteq Hours
        BY DEF IInv, TypeInv
      <3>4. QED
        BY <2>1, <2>2, <2>3, <3>1, <3>2, <3>3, <1>3 DEF IInv, PollInv
    <2>4. CASE loop' = [Asleep EXCEPT !.step = "due"]
      BY <2>1, <2>2, <2>4, <1>1, <1>2, <1>3 DEF IInv, TypeInv, PollInv, Asleep
    <2>5. QED
      BY <2>3, <2>4, <1>3
  <1>7. PairInv'
    <2>1. \A t \in Stamps : t = Never \/ t <= now => t = Never \/ t <= now + 1
      BY <1>1 DEF Stamps
    <2>2. \A a \in Arbs : arb[a].opened \in Stamps /\ arb[a].closed \in Stamps
      BY DEF IInv, TypeInv, Rows, Jobs
    <2>3. QED
      BY <2>1, <2>2, <1>3 DEF IInv, PairInv, Quiet
  <1>8. OwnInv'
    <2> SUFFICES ASSUME NEW a \in Arbs, arb[a].opened # Never,
                        NEW u \in Hours \ muddled', u <= now + 1,
                        paidTo'[u] # {}, paidTo'[u] # {a}
                 PROVE  Apart(u, a)
      BY <1>3 DEF OwnInv, Apart, Quiet
    <2>1. muddled \subseteq muddled'
      BY DEF Tick
    <2>2. CASE u # now + 1
      BY <2>1, <2>2, <1>1, <1>2 DEF IInv, OwnInv
    <2>3. CASE u = now + 1
      <3>1. PICK b \in Arbs : arb[b].holds /\ b # a
        BY <2>3, <1>2
      <3>2. b # a /\ Live(b)
        BY <3>1 DEF Live
      <3>3. ~Live(a)
        <4>1. ~(\E x, y \in Arbs : x # y /\ Live(x) /\ Live(y))
          BY <2>3 DEF Tick
        <4>2. QED
          BY <4>1, <3>2
      <3>4. arb[a].status = "closed" /\ Quiet(a)
        BY <3>3 DEF Live, Quiet, IInv, TypeInv, PairInv, Rows, Jobs
      <3>5. arb[a].closed \in Hours /\ arb[a].closed <= now
        BY <3>4 DEF IInv, PairInv, TypeInv, Stamps, Rows, Jobs
      <3>6. arb[a].closed < u
        BY <3>5, <2>3, <1>1
      <3>7. QED
        BY <3>4, <3>6 DEF Apart
    <2>4. QED
      BY <2>2, <2>3
  <1>9. MissedOnlyWithoutPoll'
    <2> SUFFICES ASSUME NEW u \in Hours, paidTo'[u] # {}, events[u] = 0, NEW p \in polls
                 PROVE  p <= u \/ p >= u + Lookback
      BY <1>3 DEF MissedOnlyWithoutPoll
    <2>1. CASE u # now + 1
      BY <2>1, <1>2 DEF IInv, MissedOnlyWithoutPoll
    <2>2. CASE u = now + 1
      BY <2>2, <1>1 DEF IInv, PollInv, TypeInv
    <2>3. QED
      BY <2>1, <2>2
  <1>10. QED
    BY <1>5, <1>6, <1>7, <1>8, <1>9 DEF IInv
----------------------------------------------------------------------------
(* The pairs. *)

\* What the steps of the pairs leave alone.
LEMMA PairFrame ==
  ASSUME IInv, UNCHANGED <<now, paid, worker>>
  PROVE  PollInv' /\ MissedOnlyWithoutPoll'
  <1>1. UNCHANGED <<now, paidTo, muddled, events, loop, polls>>
    BY DEF paid, worker
  <1>2. QED
    BY <1>1 DEF IInv, PollInv, Covers, MissedOnlyWithoutPoll

\* What the steps of the worker leave alone.
LEMMA WorkerFrame ==
  ASSUME IInv, UNCHANGED <<now, pairs, paid>>
  PROVE  PairInv' /\ OwnInv'
  <1>1. UNCHANGED <<now, looked, arb, closer, paidTo, muddled>>
    BY DEF pairs, paid
  <1>2. QED
    BY <1>1 DEF IInv, PairInv, OwnInv, Apart, Quiet

\* The status, the time stamps and the task of a pair are what they were.
SameStamps(b) == /\ arb'[b].status = arb[b].status /\ arb'[b].opened = arb[b].opened
                 /\ arb'[b].closed = arb[b].closed /\ arb'[b].opener = arb[b].opener

\* One pair's row changes, the other pairs' but for their perp do not, and no close of another
\* pair begins.
LEMMA RowsInv ==
  ASSUME IInv, NEW a \in Arbs,
         UNCHANGED <<now, paid, worker>>, looked' \subseteq looked,
         closer' \in [Closers -> Jobs],
         \A c \in Closers : closer'[c] = NoCloser \/ closer'[c].arb \in Arbs,
         \A b \in Arbs \ {a} : Quiet(b) => Quiet(b)',
         arb' \in [Arbs -> Rows],
         NEW row, arb'[a] = row,
         \A b \in Arbs \ {a} : SameStamps(b),
         a \in looked' => row.status = "none",
         row.status = "none" => row.opened = Never /\ ~row.opener /\ Quiet(a)',
         row.opener => row.opened = Never,
         row.status = "closed" => row.closed # Never,
         row.opened = Never \/ row.opened <= now,
         row.closed = Never \/ row.closed <= now,
         \/ row.opened = Never \/ row.opened = now
         \/ /\ row.opened = arb[a].opened
            /\ arb[a].status = "closed" /\ Quiet(a) =>
                  row.status = "closed" /\ row.closed = arb[a].closed /\ Quiet(a)'
  PROVE  IInv'
  <1> USE HoursAreNat
  <1>1. UNCHANGED <<now, paidTo, muddled, events, loop, polls>>
    BY DEF paid, worker
  <1>2. arb'[a] = row /\ \A b \in Arbs : b # a => SameStamps(b)
    OBVIOUS
  <1>3. TypeInv'
    BY <1>1 DEF IInv, TypeInv
  <1>4. PairInv'
    <2>1. /\ \A b \in looked : b \in Arbs /\ arb[b].status = "none"
          /\ \A b \in Arbs : Quiet(b) /\ b # a => Quiet(b)'
      BY DEF IInv, TypeInv, PairInv
    <2>2. \A b \in looked' : arb'[b].status = "none"
      BY <2>1, <1>2 DEF SameStamps
    <2>3. ASSUME NEW b \in Arbs
          PROVE  /\ arb'[b].status = "none" =>
                       arb'[b].opened = Never /\ ~arb'[b].opener /\ Quiet(b)'
                 /\ arb'[b].opener => arb'[b].opened = Never
                 /\ arb'[b].status = "closed" => arb'[b].closed # Never
                 /\ arb'[b].opened = Never \/ arb'[b].opened <= now
                 /\ arb'[b].closed = Never \/ arb'[b].closed <= now
      BY <2>1, <1>2 DEF IInv, PairInv, SameStamps
    <2>4. QED
      BY <2>2, <2>3, <1>1 DEF PairInv
  <1>5. OwnInv'
    <2> SUFFICES ASSUME NEW b \in Arbs, arb'[b].opened # Never, NEW u \in Hours \ muddled,
                        u <= now, paidTo[u] # {}, paidTo[u] # {b}
                 PROVE  Apart(u, b)'
      BY <1>1 DEF OwnInv
    <2>1. CASE b # a
      BY <2>1, <1>1, <1>2 DEF IInv, OwnInv, Apart, SameStamps
    <2>2. CASE b = a /\ row.opened = now
      BY <2>2, <1>2, <1>1 DEF Apart, IInv, TypeInv
    <2>3. CASE b = a /\ row.opened # now
      <3>1. Apart(u, a) /\ row.opened = arb[a].opened
        BY <2>3, <1>2 DEF IInv, OwnInv
      <3>2. QED
        BY <2>3, <3>1, <1>1, <1>2 DEF Apart
    <2>4. QED
      BY <2>1, <2>2, <2>3
  <1>6. QED
    BY <1>3, <1>4, <1>5, PairFrame DEF IInv

\* One pair's row changes and no other.
LEMMA RowInv ==
  ASSUME IInv, NEW a \in Arbs,
         UNCHANGED <<now, paid, worker>>, looked' \subseteq looked,
         closer' \in [Closers -> Jobs],
         \A c \in Closers : closer'[c] = NoCloser \/ closer'[c].arb \in Arbs,
         \A b \in Arbs \ {a} : Quiet(b) => Quiet(b)',
         NEW row, arb' = [arb EXCEPT ![a] = row],
         row \in Rows,
         a \in looked' => row.status = "none",
         row.status = "none" => row.opened = Never /\ ~row.opener /\ Quiet(a)',
         row.opener => row.opened = Never,
         row.status = "closed" => row.closed # Never,
         row.opened = Never \/ row.opened <= now,
         row.closed = Never \/ row.closed <= now,
         \/ row.opened = Never \/ row.opened = now
         \/ /\ row.opened = arb[a].opened
            /\ arb[a].status = "closed" /\ Quiet(a) =>
                  row.status = "closed" /\ row.closed = arb[a].closed /\ Quiet(a)'
  PROVE  IInv'
  <1>1. arb' \in [Arbs -> Rows] /\ arb'[a] = row /\ \A b \in Arbs \ {a} : SameStamps(b)
    BY DEF IInv, TypeInv, SameStamps
  <1>2. QED
    BY <1>1, RowsInv

\* The steps of an open.
LEMMA OpenInv ==
  ASSUME IInv, NEW a \in Arbs,
         OpenCheck(a) \/ OpenPersist(a) \/ PerpOrder(a) \/ FinalizeOpen(a)
  PROVE  IInv'
  <1> USE HoursAreNat
  <1>1. /\ arb[a] \in Rows
        /\ looked \subseteq Arbs /\ now \in Hours
    BY DEF IInv, TypeInv
  <1>2. /\ arb[a].status = "none" => arb[a].opened = Never /\ ~arb[a].opener /\ Quiet(a)
        /\ arb[a].opener => arb[a].opened = Never
        /\ arb[a].status = "closed" => arb[a].closed # Never
        /\ arb[a].opened = Never \/ arb[a].opened <= now
        /\ arb[a].closed = Never \/ arb[a].closed <= now
        /\ a \in looked => arb[a].status = "none"
    BY DEF IInv, PairInv
  <1>0. ASSUME UNCHANGED closer
        PROVE  /\ closer' \in [Closers -> Jobs]
               /\ \A c \in Closers : closer'[c] = NoCloser \/ closer'[c].arb \in Arbs
               /\ \A b \in Arbs : Quiet(b) => Quiet(b)'
    BY <1>0 DEF IInv, TypeInv, PairInv, Quiet
  <1>3. CASE OpenCheck(a)
    <2>1. UNCHANGED <<now, arb, closer, paidTo, muddled, events, loop, polls>>
      BY <1>3 DEF OpenCheck, paid, worker
    <2>2. looked' = looked \cup {a} /\ arb[a].status = "none"
      BY <1>3 DEF OpenCheck
    <2>3. TypeInv' /\ PairInv' /\ OwnInv'
      BY <2>1, <2>2 DEF IInv, TypeInv, PairInv, OwnInv, Apart, Quiet
    <2>4. QED
      BY <2>1, <2>3, PairFrame DEF IInv, paid, worker
  <1>4. CASE OpenPersist(a)
    <2> DEFINE row == [arb[a] EXCEPT !.status = "opening", !.opener = TRUE]
    <2>1. UNCHANGED <<now, closer, paid, worker>> /\ looked' = looked \ {a} /\ a \in looked
      BY <1>4 DEF OpenPersist, PairStep
    <2>2. CASE arb' = [arb EXCEPT ![a] = row]
      <3>1. row \in Rows
        BY <1>1 DEF NonClosed, Rows, Jobs
      <3>2. row.opened = Never /\ row.status = "opening" /\ row.closed = arb[a].closed
        BY <1>1, <1>2, <2>1
      <3> HIDE DEF row
      <3>3. QED
        BY <1>2, <2>1, <2>2, <3>1, <3>2, <1>0, RowInv
    <2>3. CASE arb' = [arb EXCEPT ![a] = arb[a]]
      BY <1>1, <1>2, <2>1, <2>3, <1>0, RowInv
    <2>4. QED
      BY <1>4, <2>2, <2>3 DEF OpenPersist, PairStep
  <1>5. CASE PerpOrder(a)
    <2>1. PICK fills \in BOOLEAN, p \in {"due", "filled"} :
             arb' = [arb EXCEPT ![a] = [arb[a] EXCEPT !.perp = p, !.holds = @ \/ fills]]
      BY <1>5 DEF PerpOrder, PairStep
    <2>2. UNCHANGED <<now, closer, paid, worker, looked>>
      BY <1>5 DEF PerpOrder, PairStep
    <2> DEFINE row == [arb[a] EXCEPT !.perp = p, !.holds = @ \/ fills]
    <2>3. row \in Rows
      BY <1>1 DEF Rows, Jobs
    <2>4. /\ row.status = arb[a].status /\ row.opened = arb[a].opened
          /\ row.closed = arb[a].closed /\ row.opener = arb[a].opener
      BY <1>1
    <2> HIDE DEF row
    <2>5. QED
      BY <1>2, <2>1, <2>2, <2>3, <2>4, <1>0, RowInv DEF row
  <1>6. CASE FinalizeOpen(a)
    <2>1. UNCHANGED <<now, closer, paid, worker, looked>> /\ arb[a].opener
      BY <1>6 DEF FinalizeOpen, PairStep
    <2>2. arb[a].opened = Never /\ a \notin looked
      BY <1>2, <2>1
    <2> DEFINE good == [arb[a] EXCEPT !.status = "open", !.opener = FALSE,
                                      !.opened = IF @ = Never THEN now ELSE @]
               bad == [arb[a] EXCEPT !.status = "error", !.opener = FALSE]
    <2>3. /\ good \in Rows /\ good.status = "open" /\ good.opened = now /\ ~good.opener
          /\ good.closed = arb[a].closed
      BY <1>1, <2>2 DEF NonClosed, Stamps, Rows, Jobs
    <2>4. /\ bad \in Rows /\ bad.status = "error" /\ bad.opened = Never /\ ~bad.opener
          /\ bad.closed = arb[a].closed
      BY <1>1, <2>2 DEF NonClosed, Rows, Jobs
    <2>5. arb' = [arb EXCEPT ![a] = good] \/ arb' = [arb EXCEPT ![a] = bad]
      BY <1>6 DEF FinalizeOpen, PairStep
    <2>6. now <= now
      BY <1>1
    <2> HIDE DEF good, bad
    <2>7. CASE arb' = [arb EXCEPT ![a] = good]
      BY <1>2, <2>1, <2>2, <2>3, <2>6, <2>7, <1>0, RowInv
    <2>8. CASE arb' = [arb EXCEPT ![a] = bad]
      BY <1>2, <2>1, <2>2, <2>4, <2>8, <1>0, RowInv
    <2>9. QED
      BY <2>5, <2>7, <2>8
  <1>7. QED
    BY <1>3, <1>4, <1>5, <1>6

\* The steps of a close: it is of a pair whose close is not over yet.
LEMMA CloseInv ==
  ASSUME IInv, NEW c \in Closers,
         (\E a \in Arbs : Close(c, a)) \/ ClosePerp(c) \/ FinalizeClose(c)
  PROVE  IInv'
  <1> USE HoursAreNat
  <1>1. /\ \A a \in Arbs : arb[a] \in Rows
        /\ closer \in [Closers -> Jobs] /\ now \in Hours /\ now <= now
    BY DEF IInv, TypeInv
  <1>2. ASSUME NEW a \in Arbs
        PROVE  /\ arb[a].status = "none" => arb[a].opened = Never /\ ~arb[a].opener /\ Quiet(a)
               /\ arb[a].opener => arb[a].opened = Never
               /\ arb[a].status = "closed" => arb[a].closed # Never
               /\ arb[a].opened = Never \/ arb[a].opened <= now
               /\ arb[a].closed = Never \/ arb[a].closed <= now
               /\ a \in looked => arb[a].status = "none"
    BY DEF IInv, PairInv
  <1>3. \A e \in Closers : closer[e] = NoCloser \/ closer[e].arb \in Arbs
    BY DEF IInv, PairInv
  <1>4. ASSUME NEW a \in Arbs, Close(c, a) PROVE IInv'
    <2> DEFINE row == [arb[a] EXCEPT !.status = "closing"]
    <2>1. /\ arb' = [arb EXCEPT ![a] = row]
          /\ UNCHANGED <<now, paid, worker, looked>>
          /\ closer' = [closer EXCEPT ![c] = [arb |-> a, step |-> "perp"]]
          /\ arb[a].status \in {"opening", "open", "error"}
      BY <1>4 DEF Close, PairStep
    <2>2. /\ row \in Rows /\ row.status = "closing" /\ row.opened = arb[a].opened
          /\ row.closed = arb[a].closed /\ row.opener = arb[a].opener
      BY <1>1 DEF NonClosed, Rows, Jobs
    <2>3. /\ closer' \in [Closers -> Jobs]
          /\ \A e \in Closers : closer'[e] = NoCloser \/ closer'[e].arb \in Arbs
          /\ \A b \in Arbs \ {a} : Quiet(b) => Quiet(b)'
      BY <1>1, <1>3, <2>1 DEF Quiet, Rows, Jobs
    <2> HIDE DEF row
    <2>4. QED
      BY <1>2, <2>1, <2>2, <2>3, RowInv
  <1>5. ASSUME ClosePerp(c) \/ FinalizeClose(c), NEW a, a = closer[c].arb
        PROVE  a \in Arbs /\ arb[a].status # "none" /\ a \notin looked /\ ~Quiet(a)
    <2>1. closer[c].step \in {"perp", "ok", "failed"}
      BY <1>5 DEF ClosePerp, FinalizeClose
    <2>2. closer[c] # NoCloser
      BY <2>1 DEF NoCloser
    <2>3. a \in Arbs /\ ~Quiet(a)
      BY <2>2, <1>3, <1>5 DEF Quiet
    <2>4. QED
      BY <2>3, <1>2
  <1>6. CASE ClosePerp(c)
    <2>1. PICK a \in Arbs : a = closer[c].arb
      BY <1>5, <1>6
    <2>2. UNCHANGED <<now, paid, worker, looked>>
      BY <1>6 DEF ClosePerp
    <2>3. arb[a].status # "none" /\ a \notin looked /\ ~Quiet(a)
      BY <1>5, <1>6, <2>1
    <2>4. PICK step \in {"ok", "failed"} : closer' = [closer EXCEPT ![c].step = step]
      BY <1>6, <2>1 DEF ClosePerp
    <2>5. /\ closer' \in [Closers -> Jobs]
          /\ \A e \in Closers : closer'[e] = NoCloser \/ closer'[e].arb \in Arbs
          /\ \A b \in Arbs : Quiet(b) => Quiet(b)'
      <3>1. \A e \in Closers : closer'[e].arb = closer[e].arb
        BY <1>1, <2>4
      <3>2. \A e \in Closers : e # c => closer'[e] = closer[e]
        BY <1>1, <2>4
      <3>3. closer' \in [Closers -> Jobs]
        BY <1>1, <2>4 DEF Jobs
      <3>4. QED
        BY <1>3, <2>1, <3>1, <3>2, <3>3 DEF Quiet
    <2>6. arb' \in [Arbs -> Rows] /\ \A b \in Arbs : SameStamps(b)
      <3>1. CASE UNCHANGED arb
        BY <3>1 DEF IInv, TypeInv, SameStamps
      <3>2. CASE \E ok, flat \in BOOLEAN :
                    arb' = [b \in Arbs |-> [arb[b] EXCEPT
                      !.holds = @ /\ ~flat,
                      !.perp = IF b = closer[c].arb /\ ok /\ @ = "filled" THEN "closed" ELSE @]]
        <4>1. PICK ok \in BOOLEAN, flat \in BOOLEAN :
                 arb' = [b \in Arbs |-> [arb[b] EXCEPT
                   !.holds = @ /\ ~flat,
                   !.perp = IF b = closer[c].arb /\ ok /\ @ = "filled" THEN "closed" ELSE @]]
          BY <3>2
        <4>2. ASSUME NEW b \in Arbs PROVE arb'[b] \in Rows /\ SameStamps(b)
          BY <1>1, <4>1 DEF Rows, SameStamps
        <4>3. QED
          BY <4>1, <4>2
      <3>3. QED
        BY <1>6, <3>1, <3>2 DEF ClosePerp
    <2>7. /\ arb'[a].status = arb[a].status /\ arb'[a].opened = arb[a].opened
          /\ arb'[a].closed = arb[a].closed /\ arb'[a].opener = arb[a].opener
      BY <2>6 DEF SameStamps
    <2>8. QED
      BY <1>2, <2>2, <2>3, <2>5, <2>6, <2>7, RowsInv
  <1>7. CASE FinalizeClose(c)
    <2>1. PICK a \in Arbs : a = closer[c].arb
      BY <1>5, <1>7
    <2>2. /\ UNCHANGED <<now, paid, worker, looked>>
          /\ closer' = [closer EXCEPT ![c] = NoCloser]
      BY <1>7 DEF FinalizeClose, PairStep
    <2>3. PICK status \in {"closed", "error"} :
             arb' = [arb EXCEPT ![a] = [arb[a] EXCEPT !.status = status,
                        !.closed = IF status = "closed" THEN now ELSE @]]
      BY <1>7, <2>1 DEF FinalizeClose, PairStep
    <2> DEFINE row == [arb[a] EXCEPT !.status = status,
                                     !.closed = IF status = "closed" THEN now ELSE @]
    <2>4. /\ row \in Rows /\ row.status = status /\ row.opened = arb[a].opened
          /\ row.opener = arb[a].opener
          /\ row.closed = IF status = "closed" THEN now ELSE arb[a].closed
      BY <1>1 DEF NonClosed, Stamps, Rows
    <2>5. /\ closer' \in [Closers -> Jobs]
          /\ \A e \in Closers : closer'[e] = NoCloser \/ closer'[e].arb \in Arbs
          /\ \A b \in Arbs : Quiet(b) => Quiet(b)'
      BY <1>1, <1>3, <2>2 DEF Quiet, NoCloser, Jobs
    <2>6. arb[a].status # "none" /\ a \notin looked /\ ~Quiet(a)
      BY <1>5, <1>7, <2>1
    <2>7. now # Never
      BY <1>1
    <2>8. arb' = [arb EXCEPT ![a] = row]
      BY <2>3
    <2> HIDE DEF row
    <2>9. QED
      BY <1>1, <1>2, <2>2, <2>4, <2>5, <2>6, <2>7, <2>8, RowInv
  <1>8. QED
    BY <1>4, <1>6, <1>7

\* Tasks that end without their last step.
LEMMA EndedInv ==
  ASSUME IInv, UNCHANGED <<now, paid>>, looked' \subseteq looked,
         TypeInv', PollInv', MissedOnlyWithoutPoll',
         \A c \in Closers : closer'[c] = closer[c] \/ closer'[c] = NoCloser,
         \A a \in Arbs : /\ arb'[a].status = arb[a].status /\ arb'[a].opened = arb[a].opened
                         /\ arb'[a].closed = arb[a].closed /\ (arb'[a].opener => arb[a].opener)
  PROVE  IInv'
  <1> USE HoursAreNat
  <1>1. UNCHANGED <<now, paidTo, muddled>>
    BY DEF paid
  <1>2. \A a \in Arbs : Quiet(a) => Quiet(a)'
    BY DEF Quiet, NoCloser
  <1>3. PairInv'
    BY <1>1, <1>2 DEF IInv, TypeInv, PairInv
  <1>4. OwnInv'
    BY <1>1, <1>2 DEF IInv, OwnInv, Apart
  <1>5. QED
    BY <1>3, <1>4 DEF IInv

\* An exception.
LEMMA AbortInv == ASSUME IInv, Abort PROVE IInv'
  <1> USE HoursAreNat
  <1>1. UNCHANGED <<now, paid, worker, looked>>
    BY DEF Abort, PairStep
  <1>2. PollInv' /\ MissedOnlyWithoutPoll'
    BY <1>1, PairFrame
  <1>3. UNCHANGED <<paidTo, events, loop, polls>>
    BY <1>1 DEF paid, worker
  <1>4. CASE \E a \in Arbs : /\ arb[a].opener /\ UNCHANGED closer
                             /\ PairStep(a, [arb[a] EXCEPT !.opener = FALSE])
    <2>1. PICK a \in Arbs : arb' = [arb EXCEPT ![a] = [arb[a] EXCEPT !.opener = FALSE]]
      BY <1>4 DEF PairStep
    <2>2. UNCHANGED closer
      BY <1>4
    <2>3. TypeInv'
      <3>0. \A b \in Arbs : arb[b] \in Rows
        BY DEF IInv, TypeInv
      <3>1. \A b \in Arbs : [arb[b] EXCEPT !.opener = FALSE] \in Rows
        BY <3>0 DEF Rows
      <3>2. QED
        BY <1>1, <1>3, <2>1, <2>2, <3>1 DEF IInv, TypeInv
    <2>4. QED
      BY <1>1, <1>2, <2>1, <2>2, <2>3, EndedInv DEF IInv, TypeInv
  <1>5. CASE \E c \in Closers : /\ closer[c] # NoCloser /\ UNCHANGED <<now, arb, paid, worker>>
                                /\ closer' = [closer EXCEPT ![c] = NoCloser]
    <2>1. PICK c \in Closers : closer' = [closer EXCEPT ![c] = NoCloser]
      BY <1>5
    <2>2. UNCHANGED arb
      BY <1>5
    <2>3. TypeInv'
      BY <1>1, <1>3, <2>1, <2>2 DEF IInv, TypeInv, NoCloser, Rows, Jobs
    <2>4. QED
      BY <1>1, <1>2, <2>1, <2>2, <2>3, EndedInv DEF IInv, TypeInv
  <1>6. QED
    BY <1>4, <1>5 DEF Abort

\* A restart.
LEMMA RestartInv == ASSUME IInv, Restart PROVE IInv'
  <1> USE HoursAreNat
  <1>1. UNCHANGED <<now, paid, paidTo, muddled, events, polls>>
    BY DEF Restart, paid
  <1>2. /\ looked' = {} /\ closer' = [c \in Closers |-> NoCloser] /\ loop' = Asleep
        /\ arb' = [a \in Arbs |-> [arb[a] EXCEPT !.opener = FALSE]]
    BY DEF Restart
  <1>3. now \in Hours /\ 0 \in Hours
    BY DEF IInv, TypeInv, Hours
  <1>4. TypeInv'
    <2>0. \A b \in Arbs : arb[b] \in Rows
      BY DEF IInv, TypeInv
    <2>1. \A b \in Arbs : [arb[b] EXCEPT !.opener = FALSE] \in Rows
      BY <2>0 DEF Rows
    <2>2. closer' \in [Closers -> Jobs]
      BY <1>2 DEF NoCloser, Rows, Jobs
    <2>3. QED
      BY <1>1, <1>2, <1>3, <2>1, <2>2 DEF IInv, TypeInv, Asleep
  <1>5. PollInv' /\ MissedOnlyWithoutPoll'
    BY <1>1, <1>2, <1>3 DEF IInv, PollInv, MissedOnlyWithoutPoll, Asleep
  <1>6. \A a \in Arbs : /\ arb'[a].status = arb[a].status /\ arb'[a].opened = arb[a].opened
                        /\ arb'[a].closed = arb[a].closed /\ ~arb'[a].opener
    BY <1>2 DEF IInv, TypeInv, Rows, Jobs
  <1>7. QED
    BY <1>1, <1>2, <1>4, <1>5, <1>6, EndedInv
----------------------------------------------------------------------------
(* The worker. *)

\* The poll, its inserts and its end.
LEMMA WorkerInv ==
  ASSUME IInv, BeginPoll \/ (\E u \in Hours : Store(u)) \/ EndPass
  PROVE  IInv'
  <1> USE HoursAreNat
  <1>1. UNCHANGED <<now, pairs, paid>>
    BY DEF BeginPoll, Store, EndPass, PollStep
  <1>2. PairInv' /\ OwnInv'
    BY <1>1, WorkerFrame
  <1>3. UNCHANGED <<now, looked, arb, closer, paidTo>>
    BY <1>1 DEF pairs, paid
  <1>4. now \in Hours /\ 0 \in Hours
    BY DEF IInv, TypeInv, Hours
  <1>5. CASE BeginPoll
    <2>1. PICK unreported \in SUBSET {now} :
             loop' = [step |-> "storing", start |-> now,
                      todo |-> {u \in Window(now) \ unreported : paidTo[u] # {}}]
      BY <1>5 DEF BeginPoll, PollStep
    <2>2. UNCHANGED <<events, polls>>
      BY <1>5 DEF BeginPoll
    <2>3. TypeInv'
      BY <1>3, <1>4, <2>1, <2>2 DEF IInv, TypeInv, Window
    <2>4. \A u \in Hours : Covers(now, u) => u \in loop'.todo
      <3> SUFFICES ASSUME NEW u \in Hours, Covers(now, u) PROVE u \in loop'.todo
        OBVIOUS
      <3>1. u \in Window(now) /\ u \notin unreported
        BY <1>4 DEF Covers, Window
      <3>2. QED
        BY <3>1, <2>1 DEF Covers
    <2>5. PollInv'
      <3>1. loop'.start = now /\ \A u \in loop'.todo : paidTo[u] # {}
        BY <2>1
      <3>2. \A u \in Hours : Covers(loop.start, u)' => Covers(now, u)
        BY <3>1, <1>3 DEF Covers
      <3>3. QED
        BY <3>1, <3>2, <2>4, <1>3, <1>4, <2>2 DEF IInv, PollInv
    <2>6. MissedOnlyWithoutPoll'
      BY <1>3, <2>2 DEF IInv, MissedOnlyWithoutPoll
    <2>7. QED
      BY <1>2, <2>3, <2>5, <2>6 DEF IInv
  <1>6. ASSUME NEW u \in Hours, Store(u) PROVE IInv'
    <2>1. /\ u \in loop.todo /\ loop.step = "storing"
          /\ events' = [events EXCEPT ![u] = 1] /\ UNCHANGED polls
          /\ loop' = [loop EXCEPT !.todo = @ \ {u}]
      BY <1>6 DEF Store, PollStep
    <2>2. TypeInv'
      BY <1>3, <2>1 DEF IInv, TypeInv
    <2>3. /\ \A v \in Hours : events'[v] = IF v = u THEN 1 ELSE events[v]
          /\ loop'.start = loop.start /\ loop'.todo = loop.todo \ {u}
          /\ loop'.step = loop.step
      BY <2>1 DEF IInv, TypeInv
    <2>4. PollInv'
      BY <1>3, <2>1, <2>3 DEF IInv, PollInv, Covers
    <2>5. MissedOnlyWithoutPoll'
      BY <1>3, <2>1, <2>3 DEF IInv, MissedOnlyWithoutPoll
    <2>6. QED
      BY <1>2, <2>2, <2>4, <2>5 DEF IInv
  <1>7. CASE EndPass
    <2>1. UNCHANGED events /\ loop' = Asleep
      BY <1>7 DEF EndPass, PollStep
    <2>2. CASE polls' = polls
      <3>1. TypeInv'
        BY <1>3, <1>4, <2>1, <2>2 DEF IInv, TypeInv, Asleep
      <3>2. PollInv' /\ MissedOnlyWithoutPoll'
        BY <1>3, <1>4, <2>1, <2>2 DEF IInv, PollInv, MissedOnlyWithoutPoll, Asleep
      <3>3. QED
        BY <1>2, <3>1, <3>2 DEF IInv
    <2>3. CASE loop.step = "storing" /\ loop.todo = {} /\ polls' = polls \cup {loop.start}
      <3>1. loop.start \in Hours /\ loop.start <= now
        BY DEF IInv, TypeInv, PollInv
      <3>2. TypeInv'
        BY <1>3, <1>4, <2>1, <2>3, <3>1 DEF IInv, TypeInv, Asleep
      <3>3. PollInv'
        BY <1>3, <1>4, <2>1, <2>3, <3>1 DEF IInv, PollInv, Asleep
      <3>4. MissedOnlyWithoutPoll'
        <4> SUFFICES ASSUME NEW u \in Hours, paidTo[u] # {}, events[u] = 0, NEW p \in polls'
                     PROVE  p <= u \/ p >= u + Lookback
          BY <1>3, <2>1 DEF MissedOnlyWithoutPoll
        <4>1. CASE p \in polls
          BY <4>1 DEF IInv, MissedOnlyWithoutPoll
        <4>2. CASE p = loop.start
          <5>1. ~Covers(loop.start, u)
            BY <2>3 DEF IInv, PollInv
          <5>2. QED
            BY <5>1, <4>2, <3>1 DEF Covers
        <4>3. QED
          BY <2>3, <4>1, <4>2
      <3>5. QED
        BY <1>2, <3>2, <3>3, <3>4 DEF IInv
    <2>4. QED
      BY <1>7, <2>2, <2>3 DEF EndPass
  <1>8. QED
    BY <1>5, <1>6, <1>7
----------------------------------------------------------------------------
\* Nothing happens.
LEMMA StutterInv == ASSUME IInv, UNCHANGED vars PROVE IInv'
  <1>1. UNCHANGED <<now, looked, arb, closer, paidTo, muddled, events, loop, polls>>
    BY DEF vars, pairs, paid, worker
  <1>2. QED
    BY <1>1 DEF IInv, TypeInv, PollInv, Covers, PairInv, Quiet, OwnInv, Apart,
                MissedOnlyWithoutPoll

\* The invariant of clock, poll and pairs is inductive: what a running poll fetched covers its
\* window, and what was not paid to a pair alone lies outside the pair's own time.
THEOREM Invariant == Spec => []IInv
  <1>1. IInv /\ [Next]_vars => IInv'
    BY TickInv, OpenInv, CloseInv, AbortInv, RestartInv, WorkerInv, StutterInv DEF Next
  <1>2. QED
    BY <1>1, InitInv, PTL DEF Spec

\* A settlement that is missing was in the window of no poll that succeeded.
THEOREM MissedMeansNoPoll == Spec => []MissedOnlyWithoutPoll
  <1>1. IInv => MissedOnlyWithoutPoll
    BY DEF IInv
  <1>2. QED
    BY <1>1, Invariant, PTL

\* The funding of an opened pair is its own, settlements at which two pairs were live aside.
THEOREM FundingStaysOwn == Spec => []FundingIsOwn
  <1>1. ASSUME IInv PROVE FundingIsOwn
    <2> USE HoursAreNat
    <2> SUFFICES ASSUME NEW a \in Arbs, arb[a].opened # Never, NEW u \in Hours \ muddled,
                        Credited(u, a)
                 PROVE  paidTo[u] = {a} /\ events[u] = 1
      BY DEF FundingIsOwn
    <2>1. events[u] = 1
      BY <1>1 DEF Credited, IInv, TypeInv
    <2>2. paidTo[u] # {} /\ u <= now
      BY <1>1, <2>1 DEF IInv, PollInv, TypeInv
    <2>3. SUFFICES ASSUME paidTo[u] # {a} PROVE FALSE
      BY <2>1
    <2>4. Apart(u, a)
      BY <1>1, <2>2, <2>3 DEF IInv, OwnInv
    <2>5. arb[a].opened \in Hours /\ arb[a].closed \in Stamps
      BY <1>1 DEF IInv, TypeInv, Stamps, Rows, Jobs
    <2>6. CASE arb[a].opened >= u
      BY <2>5, <2>6 DEF Credited, InWindow
    <2>7. CASE arb[a].status = "closed" /\ Quiet(a) /\ arb[a].closed < u
      <3>1. arb[a].closed # Never
        BY <1>1, <2>7 DEF IInv, PairInv
      <3>2. QED
        BY <3>1, <2>5, <2>7 DEF Credited, InWindow, Stamps
    <2>8. QED
      BY <2>4, <2>6, <2>7 DEF Apart
  <1>2. QED
    BY <1>1, Invariant, PTL
============================================================================
