-------------------------- MODULE LimitEntryProofs --------------------------
(* What the ledger takes of a resting limit entry, for any signals, sizes,  *)
(* numbers of attempts and of faults, and both kinds of order_status; and   *)
(* which settled orders are booked in full.                                 *)
EXTENDS LimitEntry, FiniteSetTheorems, TLAPS

Watchers == Signals \cup {Poller}       \* the sessions that ask for an order's status
Asking == {"cancelling", "asking", "reading", "booking", "recorded", "answered"}
Executing == {"deciding", "placing", "placed", "refused", "closing", "closed", "closeFailed",
              "closeRecorded"}

VenueType == [state : {"none", "resting", "filled", "cancelled"}, filled : Nat]
RowType == [status : {"none", "working", "retrying", "success", "cancelled", "dead", "rejected"},
            type : {"limit", "market"}, qty : Nat, filled : Nat, attempts : Nat, id : Nat]
JobType == [step : {"idle", "polling", "done"} \cup Asking \cup Executing,
            order : Signals \cup {None}, seen : Int,
            state : {"none", "resting", "filled", "cancelled", "unknown"}, filled : Nat, qty : Nat]

Shape ==
    /\ venue \in [Signals -> VenueType]
    /\ order \in [Signals -> RowType]
    /\ net \in Int
    /\ job \in [Actors -> JobType]
    /\ batch \subseteq Signals
    /\ copies \in [Signals -> Int]
    /\ staged \in [Signals -> {"none", "success", "cancelled"}]
    /\ faults \in Nat
    /\ booked \in [Signals -> Int]

\* The row of a limit order that the venue accepted: from now on it is only ever settled.
Accepted(o) == order[o].type = "limit" /\ order[o].status \in {"working", "success", "cancelled"}
\* Settled, or about to be by the poller.
Ends(o) == staged[o] # "none" \/ (order[o].type = "limit" /\ order[o].status \in {"success", "cancelled"})

\* Who is where, and which rows a session may write.
TaskCtl(d) ==
    /\ job[d].step \in {"idle", "done"} \cup Asking \cup Executing
    /\ job[d].step \notin {"done", "closeRecorded"} => order[d].status = "none"
PollerCtl == job[Poller].step \in {"idle", "polling", "asking", "reading", "booking", "recorded",
                                   "answered"}
WorkerCtl ==
    /\ job[Worker].step \in {"idle"} \cup (Executing \ {"deciding"})
    /\ job[Worker].step \notin {"idle", "closeRecorded"} =>
          job[Worker].order \in Signals /\ order[job[Worker].order].status = "retrying"
WatchCtl(a) ==
    /\ job[a].step \in Asking => job[a].order \in Signals
    /\ job[a].step \in {"idle", "polling", "done"} => job[a].order = None
    /\ job[a].order \in Signals => Accepted(job[a].order)
PassCtl(o) == o \in batch \/ staged[o] # "none" \/ order[o].status = "working" => Accepted(o)
Ctl == /\ \A d \in Signals : TaskCtl(d)
       /\ PollerCtl /\ WorkerCtl
       /\ \A a \in Watchers : WatchCtl(a)
       /\ \A o \in Signals : PassCtl(o)

\* A session that has an order in hand, or will write its status.
Has(a, o) == job[a].order = o \/ (a = Poller /\ (o \in batch \/ staged[o] # "none"))

\* What a session remembers of an order nobody else has in hand is still true.
Memory(a, o) ==
    job[a].order = o =>
       /\ job[a].step \in {"cancelling", "asking", "reading", "booking"} =>
             job[a].seen = order[o].filled
       /\ job[a].step = "reading" => job[a].filled <= venue[o].filled
       /\ job[a].step = "booking" => /\ job[a].seen < job[a].filled
                                     /\ job[a].filled <= venue[o].filled
       /\ job[a].step = "recorded" => job[a].filled = order[o].filled /\ booked[o] <= job[a].seen
BookOf(o) ==
    /\ Accepted(o) => booked[o] <= order[o].filled /\ order[o].filled <= venue[o].filled
    /\ \A a, b \in Watchers : Has(a, o) /\ Has(b, o) => a = b
    /\ o \in batch => job[Poller].order # o
    /\ o \in batch => copies[o] \in {Expired, order[o].filled}
    /\ \A a \in Watchers : Memory(a, o)
BookInv == /\ \A o \in Signals : ~Accepted(o) => booked[o] = 0
           /\ \A o \in Signals \ raced : BookOf(o)

IInv == Shape /\ Ctl /\ BookInv
----------------------------------------------------------------------------
\* The actors are different from each other and from no order.
LEMMA ActorFacts ==
  /\ Watchers \subseteq Actors /\ Signals \subseteq Watchers /\ Poller \in Watchers
  /\ Worker \in Actors /\ Worker \notin Watchers /\ Poller \notin Signals /\ None \notin Signals
  /\ Actors = Watchers \cup {Worker}
  BY ActorAssumption DEF Actors, Watchers

\* An actor that does nothing.
LEMMA IdleFacts ==
  /\ Idle \in JobType /\ Idle.step = "idle" /\ Idle.order = None
  /\ NoOrder \in RowType /\ NoOrder.status = "none" /\ NoOrder.filled = 0
  BY DEF Idle, NoOrder, JobType, RowType, Asking, Executing

\* A new database, a new process and a venue with no orders.
LEMMA InitInv == Init => IInv
  <1> SUFFICES ASSUME Init PROVE IInv
    OBVIOUS
  <1> USE ActorFacts, IdleFacts DEF Init
  <1>0. \A a \in Actors : job[a] = Idle /\ job[a].step = "idle" /\ job[a].order = None
    <2> HIDE DEF Idle
    <2> QED
      OBVIOUS
  <1>1. Shape
    <2>1. venue \in [Signals -> VenueType]
      BY DEF VenueType
    <2> HIDE DEF Idle, NoOrder
    <2>2. QED
      BY <2>1 DEF Shape, NothingStaged, NothingLoaded, Expired
  <1>2. \A o \in Signals : order[o].status = "none" /\ ~Accepted(o)
    BY DEF NoOrder, Accepted
  <1>3. Ctl
    <2>1. \A o \in Signals : PassCtl(o)
      BY <1>2 DEF PassCtl, NothingStaged
    <2>2. \A a \in Watchers : WatchCtl(a)
      BY <1>0 DEF WatchCtl, Asking
    <2>3. QED
      BY <1>0, <1>2, <2>1, <2>2 DEF Ctl, TaskCtl, PollerCtl, WorkerCtl
  <1>4. BookInv
    <2>1. \A o \in Signals, a \in Watchers : ~Has(a, o) /\ job[a].order # o
      BY <1>0 DEF Has, NothingStaged
    <2>2. QED
      BY <1>2, <2>1 DEF BookInv, BookOf, Memory
  <1>5. QED
    BY <1>1, <1>3, <1>4 DEF IInv
----------------------------------------------------------------------------
(* Jobs. *)

\* A job is the record of its fields.
J(s, o, n, v, f, q) == [step |-> s, order |-> o, seen |-> n, state |-> v, filled |-> f, qty |-> q]

\* Changing the step alone.
LEMMA StepField ==
  ASSUME NEW s, NEW o, NEW n, NEW v, NEW f, NEW q, NEW x
  PROVE  [J(s, o, n, v, f, q) EXCEPT !.step = x] = J(x, o, n, v, f, q)
  BY DEF J

\* A session takes an order in hand.
LEMMA AskFields ==
  ASSUME NEW x, NEW y, NEW z
  PROVE  [Idle EXCEPT !.step = x, !.order = y, !.seen = z]
         = J(x, y, z, "unknown", 0, 0)
  <1>1. [Idle EXCEPT !.step = x, !.order = y, !.seen = z]
        = [[[Idle EXCEPT !.step = x] EXCEPT !.order = y] EXCEPT !.seen = z]
    OBVIOUS
  <1>2. Idle = J("idle", None, 0, "unknown", 0, 0)
    BY DEF Idle, J
  <1>3. [J("idle", None, 0, "unknown", 0, 0) EXCEPT !.step = x] = J(x, None, 0, "unknown", 0, 0)
    BY DEF J
  <1>4. [J(x, None, 0, "unknown", 0, 0) EXCEPT !.order = y] = J(x, y, 0, "unknown", 0, 0)
    BY DEF J
  <1>5. [J(x, y, 0, "unknown", 0, 0) EXCEPT !.seen = z] = J(x, y, z, "unknown", 0, 0)
    BY DEF J
  <1>6. QED
    BY <1>1, <1>2, <1>3, <1>4, <1>5, Zenon

\* A session goes on with a fresh job for the order in hand.
LEMMA KeepFields ==
  ASSUME NEW x, NEW y
  PROVE  [Idle EXCEPT !.step = x, !.order = y] = J(x, y, 0, "unknown", 0, 0)
  <1>1. [Idle EXCEPT !.step = x, !.order = y] = [[Idle EXCEPT !.step = x] EXCEPT !.order = y]
    OBVIOUS
  <1>2. Idle = J("idle", None, 0, "unknown", 0, 0)
    BY DEF Idle, J
  <1>3. [J("idle", None, 0, "unknown", 0, 0) EXCEPT !.step = x] = J(x, None, 0, "unknown", 0, 0)
    BY DEF J
  <1>4. [J(x, None, 0, "unknown", 0, 0) EXCEPT !.order = y] = J(x, y, 0, "unknown", 0, 0)
    BY DEF J
  <1>5. QED
    BY <1>1, <1>2, <1>3, <1>4, Zenon

\* The retry worker does.
LEMMA ReplayFields ==
  ASSUME NEW x, NEW y, NEW z
  PROVE  [Idle EXCEPT !.step = x, !.order = y, !.qty = z]
         = J(x, y, 0, "unknown", 0, z)
  <1>1. [Idle EXCEPT !.step = x, !.order = y, !.qty = z]
        = [[[Idle EXCEPT !.step = x] EXCEPT !.order = y] EXCEPT !.qty = z]
    OBVIOUS
  <1>2. Idle = J("idle", None, 0, "unknown", 0, 0)
    BY DEF Idle, J
  <1>3. [J("idle", None, 0, "unknown", 0, 0) EXCEPT !.step = x] = J(x, None, 0, "unknown", 0, 0)
    BY DEF J
  <1>4. [J(x, None, 0, "unknown", 0, 0) EXCEPT !.order = y] = J(x, y, 0, "unknown", 0, 0)
    BY DEF J
  <1>5. [J(x, y, 0, "unknown", 0, 0) EXCEPT !.qty = z] = J(x, y, 0, "unknown", 0, z)
    BY DEF J
  <1>6. QED
    BY <1>1, <1>2, <1>3, <1>4, <1>5, Zenon

\* A session that rests.
LEMMA RestFields ==
  ASSUME NEW x
  PROVE  [Idle EXCEPT !.step = x] = J(x, None, 0, "unknown", 0, 0)
  BY DEF Idle, J

\* An idle job.
LEMMA IdleIsJ == Idle = J("idle", None, 0, "unknown", 0, 0)
  BY DEF Idle, J

\* The fields of a job are its own.
LEMMA JobIsJ == \A j \in JobType : j = J(j.step, j.order, j.seen, j.state, j.filled, j.qty)
  BY DEF JobType, J

Steps == {"idle", "polling", "done"} \cup Asking \cup Executing
States == {"none", "resting", "filled", "cancelled", "unknown"}

\* One actor's job becomes another.
LEMMA JobChanges ==
  ASSUME Shape, NEW a \in Actors, NEW j \in JobType, job' = [job EXCEPT ![a] = j]
  PROVE  job' \in [Actors -> JobType] /\ job'[a] = j /\ \A b \in Actors : b # a => job'[b] = job[b]
  BY DEF Shape

\* The fields an actor's job has.
LEMMA JobHas ==
  ASSUME Shape, NEW a \in Actors
  PROVE  /\ job[a].step \in Steps /\ job[a].order \in Signals \cup {None} /\ job[a].seen \in Int
         /\ job[a].state \in States /\ job[a].filled \in Nat /\ job[a].qty \in Nat
         /\ job[a] = J(job[a].step, job[a].order, job[a].seen, job[a].state, job[a].filled, job[a].qty)
  <1>1. job[a] \in JobType
    BY DEF Shape
  <1>2. QED
    BY <1>1, JobIsJ DEF JobType, Steps, States

\* An actor goes on with what it has in hand.
LEMMA GotoFacts ==
  ASSUME Shape, NEW a \in Actors, NEW s \in Steps, Goto(a, s)
  PROVE  /\ job' \in [Actors -> JobType] /\ \A b \in Actors : b # a => job'[b] = job[b]
         /\ job'[a].step = s /\ job'[a].order = job[a].order /\ job'[a].seen = job[a].seen
         /\ job'[a].state = job[a].state /\ job'[a].filled = job[a].filled /\ job'[a].qty = job[a].qty
  <1> DEFINE j == J(s, job[a].order, job[a].seen, job[a].state, job[a].filled, job[a].qty)
  <1>1. job' = [job EXCEPT ![a] = [job[a] EXCEPT !.step = s]]
    BY DEF Goto
  <1>2. [job[a] EXCEPT !.step = s] = j
    BY JobHas, StepField
  <1> HIDE DEF j
  <1>3. job' = [job EXCEPT ![a] = j]
    BY <1>1, <1>2
  <1>4. j \in JobType /\ j.step = s /\ j.order = job[a].order /\ j.seen = job[a].seen
        /\ j.state = job[a].state /\ j.filled = job[a].filled /\ j.qty = job[a].qty
    BY JobHas DEF j, Steps, States, J, JobType
  <1>5. QED
    BY <1>3, <1>4, JobChanges

\* It is done with it.
LEMMA LeaveFacts ==
  ASSUME Shape, NEW a \in Actors, Leave(a)
  PROVE  /\ job' \in [Actors -> JobType] /\ \A b \in Actors : b # a => job'[b] = job[b]
         /\ job'[a].step = (IF a \in Signals THEN "done" ELSE "idle") /\ job'[a].order = None
  <1> DEFINE s == IF a \in Signals THEN "done" ELSE "idle"
             j == J(s, None, 0, "unknown", 0, 0)
  <1>1. (IF a \in Signals THEN [Idle EXCEPT !.step = "done"] ELSE Idle) = j
    BY IdleIsJ, StepField
  <1>2. j \in JobType /\ j.step = s /\ j.order = None
    BY DEF J, JobType
  <1> HIDE DEF j
  <1>3. job' = [job EXCEPT ![a] = j]
    BY <1>1, Zenon DEF Leave
  <1> HIDE DEF s
  <1>4. /\ job' \in [Actors -> JobType] /\ \A b \in Actors : b # a => job'[b] = job[b]
        /\ job'[a].step = s /\ job'[a].order = None
    BY <1>2, <1>3, JobChanges
  <1>5. QED
    BY <1>4 DEF s

\* It begins another job.
LEMMA JobSet ==
  ASSUME Shape, NEW a \in Actors, NEW j, job' = [job EXCEPT ![a] = j]
  PROVE  job'[a] = j /\ \A b \in Actors : b # a => job'[b] = job[b]
  BY DEF Shape
----------------------------------------------------------------------------
(* Rows. *)

\* A row that a step leaves alone, or settles, or whose settling it commits.
RowKept(o) == /\ order'[o].filled = order[o].filled
              /\ Accepted(o)' <=> Accepted(o)
              /\ ~Accepted(o) => order'[o] = order[o]

\* One more row has an id.
LEMMA NextIdIsNat == NextId \in Nat
  <1>1. IsFiniteSet({o \in Signals : order[o].id # 0})
    BY ActorAssumption, FS_Subset
  <1>2. QED
    BY <1>1, FS_CardinalityType DEF NextId

\* Flushing a session's statuses settles rows of accepted orders only.
LEMMA FlushedFacts ==
  ASSUME Shape, Ctl, NEW a \in Actors
  PROVE  /\ Flushed(a) \in [Signals -> RowType]
         /\ \A o \in Signals : Flushed(a)[o].filled = order[o].filled
         /\ \A o \in Signals : Flushed(a)[o].type = order[o].type
         /\ \A o \in Signals : Accepted(o) => Flushed(a)[o].status \in {"working", "success", "cancelled"}
         /\ \A o \in Signals : ~Accepted(o) => Flushed(a)[o] = order[o]
  <1> DEFINE R(o, v) == [order[o] EXCEPT !.status = v]
  <1>1. ASSUME NEW o \in Signals, NEW v \in {"success", "cancelled"}
        PROVE  /\ R(o, v) \in RowType /\ R(o, v).status = v
               /\ R(o, v).filled = order[o].filled /\ R(o, v).type = order[o].type
    BY DEF Shape, RowType
  <1>2. ASSUME NEW o \in Signals
        PROVE  /\ staged[o] # "none" => staged[o] \in {"success", "cancelled"} /\ Accepted(o)
               /\ a \in Signals /\ job[a].order = o => Accepted(o)
               /\ order[o] \in RowType
    BY ActorFacts DEF Shape, Ctl, PassCtl, WatchCtl
  <1>3. ASSUME NEW o \in Signals
        PROVE  \/ Flushed(a)[o] = order[o]
               \/ Accepted(o) /\ \E v \in {"success", "cancelled"} :
                                    Flushed(a)[o] = R(o, v)
    BY <1>2, Zenon DEF Flushed
  <1> HIDE DEF R
  <1>4. ASSUME NEW o \in Signals
        PROVE  /\ Flushed(a)[o] \in RowType /\ Flushed(a)[o].filled = order[o].filled
               /\ Flushed(a)[o].type = order[o].type
               /\ Accepted(o) => Flushed(a)[o].status \in {"working", "success", "cancelled"}
               /\ ~Accepted(o) => Flushed(a)[o] = order[o]
    <2>1. order[o] \in RowType
      BY <1>2
    <2>2. CASE Flushed(a)[o] = order[o]
      BY <2>1, <2>2 DEF Accepted
    <2>3. CASE Accepted(o) /\ \E v \in {"success", "cancelled"} :
                                  Flushed(a)[o] = R(o, v)
      <3>1. PICK v \in {"success", "cancelled"} : Flushed(a)[o] = R(o, v)
        BY <2>3
      <3>2. /\ Flushed(a)[o] \in RowType /\ Flushed(a)[o].status = v
            /\ Flushed(a)[o].filled = order[o].filled /\ Flushed(a)[o].type = order[o].type
        BY <1>1, <3>1
      <3>3. QED
        BY <2>3, <3>2
    <2>4. QED
      BY <1>3, <2>2, <2>3
  <1>5. QED
    BY <1>4 DEF Flushed

\* What a commit that settles rows alone does.
LEMMA FlushKeeps ==
  ASSUME Shape, Ctl, NEW a \in Actors, order' = Flushed(a)
  PROVE  order' \in [Signals -> RowType] /\ \A o \in Signals : RowKept(o)
  BY FlushedFacts DEF RowKept, Accepted

\* What the commit of the row of an order an actor placed, or closed with, does.
LEMMA CommitKeeps ==
  ASSUME Shape, Ctl, NEW a \in Actors, NEW s \in Signals, s = Subject(a), ~Accepted(s),
         NEW st \in {"working", "retrying", "success", "dead"}, NEW ty \in {"limit", "market"},
         NEW q \in Nat, NEW f \in Nat, order' = Committed(a, st, ty, q, f)
  PROVE  /\ order' \in [Signals -> RowType]
         /\ order'[s].status = st /\ order'[s].type = ty /\ order'[s].filled = f
         /\ \A o \in Signals : o # s => RowKept(o) /\ order'[o] = Flushed(a)[o]
  <1> DEFINE r == Flushed(a)[s]
             i == IF r.id = 0 THEN NextId ELSE r.id
             row == [status |-> st, type |-> ty, qty |-> q, filled |-> f,
                     attempts |-> r.attempts + 1, id |-> i]
  <1>1. r \in RowType /\ Flushed(a) \in [Signals -> RowType]
    BY FlushedFacts
  <1>2. r.attempts + 1 \in Nat /\ i \in Nat
    <2> HIDE DEF r
    <2>1. r.attempts \in Nat /\ r.id \in Nat
      BY <1>1 DEF RowType
    <2>2. QED
      BY <2>1, NextIdIsNat
  <1>3. order' = [Flushed(a) EXCEPT ![s] = row]
    BY Zenon DEF Committed
  <1> HIDE DEF i, r
  <1>4. row \in RowType /\ row.status = st /\ row.type = ty /\ row.filled = f
    BY <1>2 DEF RowType
  <1> HIDE DEF row
  <1>5. order' \in [Signals -> RowType] /\ order'[s] = row
        /\ \A o \in Signals : o # s => order'[o] = Flushed(a)[o]
    BY <1>1, <1>3, <1>4
  <1>6. \A o \in Signals : o # s => RowKept(o)
    BY <1>5, FlushedFacts DEF RowKept, Accepted
  <1>7. QED
    BY <1>4, <1>5, <1>6
----------------------------------------------------------------------------
(* What a step leaves alone. *)

\* Control: what has to be shown of the actor that steps, when rows only go forward.
LEMMA CtlFrame ==
  ASSUME Shape, Ctl, NEW a \in Actors, \A b \in Actors : b # a => job'[b] = job[b],
         \A o \in Signals : Accepted(o) => Accepted(o)',
         \A o \in Signals : o # a /\ order[o].status = "none" => order'[o] = order[o],
         a # Worker => \A o \in Signals : order[o].status = "retrying" => order'[o] = order[o],
         \A o \in Signals : PassCtl(o)',
         a \in Signals => TaskCtl(a)', a = Poller => PollerCtl', a = Worker => WorkerCtl',
         a \in Watchers => WatchCtl(a)'
  PROVE  Ctl'
  <1> USE ActorFacts
  <1>1. ASSUME NEW d \in Signals PROVE TaskCtl(d)'
    BY DEF Ctl, TaskCtl
  <1>2. PollerCtl'
    BY DEF Ctl, PollerCtl
  <1>3. WorkerCtl'
    BY DEF Ctl, WorkerCtl
  <1>4. ASSUME NEW b \in Watchers PROVE WatchCtl(b)'
    BY DEF Ctl, WatchCtl
  <1>5. QED
    BY <1>1, <1>2, <1>3, <1>4 DEF Ctl

\* Rows that are kept, and a pass of accepted orders.
LEMMA PassFrame ==
  ASSUME NEW o \in Signals, PassCtl(o), RowKept(o),
         o \in batch' \/ staged'[o] # "none" => Accepted(o)
  PROVE  PassCtl(o)'
  BY DEF PassCtl, RowKept

\* The sessions learn nothing new of an order.
Quiet(o) == \A w \in Watchers : \/ job'[w] = job[w]
                                \/ job'[w].order # o
                                \/ /\ job[w].order = o
                                   /\ job'[w].step \notin {"cancelling", "asking", "reading",
                                                           "booking", "recorded"}

\* A pass that takes up nothing new and forgets nothing that is not committed.
PassQuiet(o) == /\ o \in batch' => o \in batch
                /\ staged'[o] # "none" => Has(Poller, o)
                /\ copies'[o] \in {copies[o], Expired}

\* Such steps keep what is known of an order whose row and bookings stay.
LEMMA BookFrame ==
  ASSUME Shape, NEW o \in Signals, BookOf(o), RowKept(o), PassQuiet(o), Quiet(o),
         venue'[o].filled \in Nat, venue[o].filled <= venue'[o].filled, booked'[o] = booked[o]
  PROVE  BookOf(o)'
  <1>1. order[o].filled \in Nat /\ venue[o].filled \in Nat /\ booked[o] \in Int
    BY DEF Shape, RowType, VenueType
  <1>2. order'[o].filled = order[o].filled /\ (Accepted(o)' <=> Accepted(o))
    BY DEF RowKept
  <1>3. \A w \in Watchers : job'[w].order = o =>
           \/ job'[w] = job[w]
           \/ /\ job[w].order = o
              /\ job'[w].step \notin {"cancelling", "asking", "reading", "booking", "recorded"}
    BY DEF Quiet
  <1>4. \A w \in Watchers : Has(w, o)' => Has(w, o)
    BY <1>3 DEF Has, PassQuiet
  <1>5. \A w \in Watchers : Memory(w, o)'
    <2>1. ASSUME NEW w \in Watchers, job'[w] = job[w] PROVE Memory(w, o)'
      <3>1. job[w].filled \in Nat
        BY JobHas, ActorFacts
      <3>2. Memory(w, o)
        BY DEF BookOf
      <3>3. QED
        BY <1>1, <1>2, <2>1, <3>1, <3>2 DEF Memory
    <2>2. ASSUME NEW w \in Watchers, job'[w] # job[w] PROVE Memory(w, o)'
      BY <1>3, <2>2 DEF Memory
    <2>3. QED
      BY <2>1, <2>2
  <1>6. Accepted(o)' => booked'[o] <= order'[o].filled /\ order'[o].filled <= venue'[o].filled
    BY <1>1, <1>2 DEF BookOf
  <1>7. o \in batch' => job'[Poller].order # o /\ copies'[o] \in {Expired, order'[o].filled}
    BY <1>2, <1>3, ActorFacts DEF BookOf, PassQuiet
  <1>8. QED
    BY <1>4, <1>5, <1>6, <1>7 DEF BookOf

\* All orders.
LEMMA BooksFrame ==
  ASSUME Shape, BookInv, \A o \in Signals : RowKept(o) /\ PassQuiet(o) /\ Quiet(o),
         venue' \in [Signals -> VenueType],
         \A o \in Signals : venue[o].filled <= venue'[o].filled,
         booked' = booked, raced \subseteq raced'
  PROVE  BookInv'
  <1>1. \A o \in Signals : ~Accepted(o)' => booked'[o] = 0
    BY DEF BookInv, RowKept
  <1>2. ASSUME NEW o \in Signals \ raced' PROVE BookOf(o)'
    <2>1. BookOf(o) /\ venue'[o].filled \in Nat
      BY DEF BookInv, VenueType
    <2>2. QED
      BY <2>1, BookFrame
  <1>3. QED
    BY <1>1, <1>2 DEF BookInv

\* The commit of the row of an order that was not accepted before, and of which nobody knows.
LEMMA BooksCommit ==
  ASSUME IInv, NEW s \in Signals, ~Accepted(s), Accepted(s)' => order'[s].filled = 0,
         \A o \in Signals : o # s => RowKept(o), \A o \in Signals : Quiet(o), UNCHANGED <<venue, batch, copies, staged, booked, raced>>
  PROVE  BookInv'
  <1>1. booked[s] = 0
    BY DEF IInv, BookInv
  <1>2. \A w \in Watchers : ~Has(w, s)
    BY DEF Has, IInv, Ctl, WatchCtl, PassCtl
  <1>3. \A o \in Signals : PassQuiet(o)
    BY DEF PassQuiet, Has
  <1>4. \A o \in Signals : ~Accepted(o)' => booked'[o] = 0
    BY <1>1 DEF IInv, BookInv, RowKept
  <1>5. ASSUME NEW o \in Signals \ raced', o # s PROVE BookOf(o)'
    <2>1. BookOf(o) /\ RowKept(o) /\ Shape
      BY <1>5 DEF IInv, BookInv
    <2>2. venue'[o].filled \in Nat /\ venue[o].filled <= venue'[o].filled
      BY DEF IInv, Shape, VenueType
    <2>3. QED
      BY <1>3, <2>1, <2>2, BookFrame
  <1>6. BookOf(s)'
    <2>1. \A w \in Watchers : job'[w].order # s
      BY <1>2 DEF Quiet, Has
    <2>2. \A w \in Watchers : ~Has(w, s)'
      BY <1>2, <2>1, ActorFacts DEF Has
    <2>3. venue'[s].filled \in Nat
      BY DEF IInv, Shape, VenueType
    <2>4. Accepted(s)' => booked'[s] <= order'[s].filled /\ order'[s].filled <= venue'[s].filled
      BY <1>1, <2>3
    <2>5. s \notin batch'
      BY <1>2, ActorFacts DEF Has
    <2>6. QED
      BY <2>1, <2>2, <2>4, <2>5 DEF BookOf, Memory
  <1>7. QED
    BY <1>4, <1>5, <1>6 DEF BookInv
----------------------------------------------------------------------------
(* The venue. *)

\* It fills a part of a resting order, or cancels it.
LEMMA VenueStep ==
  ASSUME IInv, NEW o \in Signals, VenueFill(o) \/ VenueCancels(o)
  PROVE  IInv'
  <1> USE DEF pass, history
  <1>1. UNCHANGED <<order, net, job, batch, copies, staged, faults, booked, raced>>
    BY DEF VenueFill, VenueCancels
  <1>2. /\ venue' \in [Signals -> VenueType]
        /\ \A r \in Signals : venue[r].filled <= venue'[r].filled
    <2>1. venue \in [Signals -> VenueType] /\ venue[o].filled \in Nat
      BY DEF IInv, Shape, VenueType
    <2>2. CASE VenueCancels(o)
      <3>1. venue' = [venue EXCEPT ![o] = [venue[o] EXCEPT !.state = "cancelled"]]
        BY <2>2 DEF VenueCancels
      <3>2. /\ [venue[o] EXCEPT !.state = "cancelled"] \in VenueType
            /\ [venue[o] EXCEPT !.state = "cancelled"].filled = venue[o].filled
        BY <2>1 DEF VenueType
      <3>3. QED
        BY <2>1, <3>1, <3>2 DEF VenueType
    <2>3. CASE VenueFill(o)
      <3> DEFINE st == IF venue[o].filled + 1 = Qty THEN "filled" ELSE venue[o].state
                 x == [state |-> venue[o].state, filled |-> venue[o].filled + 1]
                 y == [state |-> st, filled |-> venue[o].filled + 1]
      <3>1. venue' = [[venue EXCEPT ![o].filled = @ + 1] EXCEPT
                        ![o].state = IF venue[o].filled + 1 = Qty THEN "filled" ELSE @]
        BY <2>3 DEF VenueFill
      <3>2. [venue EXCEPT ![o].filled = @ + 1] = [venue EXCEPT ![o] = x]
        <4>1. [venue[o] EXCEPT !.filled = venue[o].filled + 1] = x
          BY <2>1 DEF VenueType
        <4>2. [venue EXCEPT ![o].filled = @ + 1]
              = [venue EXCEPT ![o] = [venue[o] EXCEPT !.filled = venue[o].filled + 1]]
          OBVIOUS
        <4> HIDE DEF x
        <4>3. QED
          BY <4>1, <4>2
      <3> DEFINE w == [venue EXCEPT ![o] = x]
      <3>3. w[o] = x /\ x.state = venue[o].state /\ [x EXCEPT !.state = st] = y
        BY <2>1
      <3>4. venue' = [venue EXCEPT ![o] = y]
        <4>1. venue' = [w EXCEPT ![o].state = IF venue[o].filled + 1 = Qty THEN "filled" ELSE @]
          BY <3>1, <3>2, Zenon
        <4>2. DOMAIN w = Signals /\ w[o].state = venue[o].state
          BY <2>1, <3>3
        <4> HIDE DEF w
        <4>3. venue' = [w EXCEPT ![o] = [w[o] EXCEPT !.state = st]]
          BY <4>1, <4>2
        <4> HIDE DEF x, y, st
        <4>4. venue' = [w EXCEPT ![o] = y]
          BY <3>3, <4>3
        <4>5. QED
          BY <2>1, <4>4 DEF w
      <3>5. st \in {"none", "resting", "filled", "cancelled"}
        BY <2>1 DEF VenueType
      <3> HIDE DEF st
      <3>6. y \in VenueType /\ y.filled = venue[o].filled + 1
        BY <2>1, <3>5 DEF VenueType
      <3> HIDE DEF y
      <3>7. QED
        BY <2>1, <3>4, <3>6 DEF VenueType
    <2>4. QED
      BY <2>2, <2>3
  <1>3. Shape'
    BY <1>1, <1>2 DEF IInv, Shape
  <1>4. Ctl'
    BY <1>1 DEF IInv, Ctl, TaskCtl, PollerCtl, WorkerCtl, WatchCtl, PassCtl, Accepted
  <1>5. BookInv'
    <2>1. \A r \in Signals : RowKept(r) /\ PassQuiet(r) /\ Quiet(r)
      BY <1>1 DEF RowKept, PassQuiet, Quiet, Accepted, Has
    <2>2. QED
      BY <1>1, <1>2, <2>1, BooksFrame DEF IInv
  <1>6. QED
    BY <1>3, <1>4, <1>5 DEF IInv
----------------------------------------------------------------------------
(* The task of a signal. *)

\* One actor steps, and learns nothing new of an order.
LEMMA QuietStep ==
  ASSUME NEW a \in Actors, \A b \in Actors : b # a => job'[b] = job[b], NEW o \in Signals,
         \/ a \notin Watchers
         \/ job'[a].order # o
         \/ /\ job'[a].order = job[a].order
            /\ job'[a].step \notin {"cancelling", "asking", "reading", "booking", "recorded"}
  PROVE  Quiet(o)
  BY ActorFacts DEF Quiet

\* Rows and passes that stay.
LEMMA SameRows ==
  ASSUME UNCHANGED <<order, batch, copies, staged>>
  PROVE  \A o \in Signals : RowKept(o) /\ PassQuiet(o)
  BY DEF RowKept, PassQuiet, Accepted, Has

\* What a step of an actor has to show when it changes its job alone.
LEMMA JobOnly ==
  ASSUME IInv, NEW a \in Actors, job' \in [Actors -> JobType], \A b \in Actors : b # a => job'[b] = job[b],
         venue' \in [Signals -> VenueType], \A o \in Signals : venue[o].filled <= venue'[o].filled,
         UNCHANGED <<order, batch, copies, staged, booked>>, net' \in Int, faults' \in Nat,
         raced \subseteq raced',
         \/ a \notin Watchers
         \/ job'[a].order \notin Signals
         \/ /\ job'[a].order = job[a].order
            /\ job'[a].step \notin {"cancelling", "asking", "reading", "booking", "recorded"},
         a \in Signals => TaskCtl(a)', a = Poller => PollerCtl', a = Worker => WorkerCtl',
         a \in Watchers => WatchCtl(a)'
  PROVE  IInv'
  <1>1. Shape'
    BY DEF IInv, Shape
  <1>2. Ctl'
    <2>1. \A o \in Signals : Accepted(o) => Accepted(o)'
      BY DEF Accepted
    <2>2. \A o \in Signals : PassCtl(o)'
      BY DEF IInv, Ctl, PassCtl, Accepted
    <2>3. QED
      BY <2>1, <2>2, CtlFrame DEF IInv
  <1>3. BookInv'
    <2>1. \A o \in Signals : Quiet(o)
      BY QuietStep
    <2>2. QED
      BY <2>1, SameRows, BooksFrame DEF IInv
  <1>4. QED
    BY <1>1, <1>2, <1>3 DEF IInv

\* _find_working_entry.
LEMMA LookStep ==
  ASSUME IInv, NEW d \in Signals, Look(d)
  PROVE  IInv'
  <1> USE ActorFacts DEF pass, history
  <1>1. /\ job[d].step = "idle" /\ job[d].order = None /\ order[d].status = "none" /\ Shape
        /\ UNCHANGED <<venue, order, net, batch, copies, staged, faults, booked>>
    BY DEF Look, At, IInv, Ctl, TaskCtl, WatchCtl
  <1>2. venue' \in [Signals -> VenueType] /\ \A o \in Signals : venue[o].filled <= venue'[o].filled
    BY <1>1 DEF Shape, VenueType
  <1>3. ASSUME job' \in [Actors -> JobType], \A b \in Actors : b # d => job'[b] = job[b],
               job'[d].order = None, job'[d].step \in {"deciding", "done"}, UNCHANGED raced
        PROVE  IInv'
    <2>1. TaskCtl(d)'
      BY <1>1, <1>3 DEF TaskCtl, Executing
    <2>2. WatchCtl(d)'
      BY <1>3 DEF WatchCtl, Asking
    <2>3. QED
      BY <1>1, <1>2, <1>3, <2>1, <2>2, JobOnly DEF Shape
  <1>4. CASE Goto(d, "deciding") /\ UNCHANGED raced
    BY <1>1, <1>3, <1>4, GotoFacts DEF Steps, Executing
  <1>5. CASE Leave(d) /\ UNCHANGED raced
    BY <1>1, <1>3, <1>5, LeaveFacts
  <1>6. ASSUME NEW o \in Working,
               job' = [job EXCEPT ![d] = [Idle EXCEPT !.step = "cancelling", !.order = o,
                                                      !.seen = order[o].filled]],
               raced' = IF \E a \in Actors \ {d} : Holds(a, o) THEN raced \cup {o} ELSE raced
        PROVE  IInv'
    <2> DEFINE j == J("cancelling", o, order[o].filled, "unknown", 0, 0)
    <2>1. o \in Signals /\ order[o].filled \in Nat
      BY <1>1 DEF Working, Shape, RowType
    <2>2. [Idle EXCEPT !.step = "cancelling", !.order = o, !.seen = order[o].filled] = j
      BY AskFields
    <2>3. /\ j \in JobType /\ j.step = "cancelling" /\ j.order = o /\ j.seen = order[o].filled
      BY <2>1 DEF J, JobType, Asking
    <2> HIDE DEF j
    <2>4. job' = [job EXCEPT ![d] = j]
      BY <1>6, <2>2
    <2>5. /\ job' \in [Actors -> JobType] /\ \A b \in Actors : b # d => job'[b] = job[b]
          /\ job'[d].step = "cancelling" /\ job'[d].order = o /\ job'[d].seen = order[o].filled
      BY <1>1, <2>3, <2>4, JobChanges
    <2>6. Accepted(o)
      BY <1>6, <2>1 DEF Working, IInv, Ctl, PassCtl
    <2>7. Shape'
      BY <1>1, <2>5 DEF Shape
    <2>8. Ctl'
      <3>1. TaskCtl(d)' /\ WatchCtl(d)'
        BY <1>1, <2>1, <2>5, <2>6 DEF TaskCtl, WatchCtl, Asking, Accepted
      <3>2. \A r \in Signals : (Accepted(r) => Accepted(r)') /\ PassCtl(r)'
        BY <1>1 DEF IInv, Ctl, PassCtl, Accepted
      <3>3. QED
        BY <1>1, <2>5, <3>1, <3>2, CtlFrame DEF IInv
    <2>9. BookInv'
      <3>1. \A r \in Signals : RowKept(r) /\ PassQuiet(r) /\ (~Accepted(r)' => booked'[r] = 0)
        BY <1>1, SameRows DEF IInv, BookInv, RowKept
      <3>2. ASSUME NEW r \in Signals \ raced', r # o PROVE BookOf(r)'
        <4>1. Quiet(r)
          BY <2>5, <3>2, QuietStep
        <4>2. r \notin raced
          BY <1>6
        <4>3. QED
          BY <1>1, <1>2, <3>1, <4>1, <4>2, BookFrame DEF IInv, BookInv, VenueType
      <3>3. ASSUME o \notin raced' PROVE BookOf(o)'
        <4>1. o \notin raced /\ \A a \in Actors \ {d} : ~Holds(a, o)
          BY <1>6, <3>3
        <4>2. \A w \in Watchers : w # d => ~Has(w, o) /\ job[w].order # o
          BY <2>1, <4>1 DEF Has, Holds, IInv, Ctl, WatchCtl
        <4>3. \A w \in Watchers : w # d => ~Has(w, o)' /\ job'[w].order # o
          BY <1>1, <2>5, <4>2 DEF Has
        <4>4. BookOf(o) /\ o \notin batch'
          BY <1>1, <2>1, <4>1, <4>2 DEF IInv, BookInv, Has
        <4>5. QED
          BY <1>1, <2>5, <2>6, <4>3, <4>4 DEF BookOf, Memory, Accepted
      <3>4. QED
        BY <3>1, <3>2, <3>3 DEF BookInv
    <2>10. QED
      BY <2>7, <2>8, <2>9 DEF IInv
  <1>7. QED
    BY <1>4, <1>5, <1>6 DEF Look

\* A session that goes on with the order in hand and remembers what is true.
LEMMA MemoryStep ==
  ASSUME IInv, NEW a \in Watchers, NEW o \in Signals, job[a].order = o, job'[a].order = o,
         job' \in [Actors -> JobType], \A b \in Actors : b # a => job'[b] = job[b],
         venue' \in [Signals -> VenueType], \A r \in Signals : venue[r].filled <= venue'[r].filled,
         UNCHANGED <<order, net, batch, copies, staged, faults, booked, raced>>,
         job'[a].step \in Asking, job[a].step \in Asking,
         a = Poller => job'[Poller].step # "cancelling",
         Memory(a, o) => Memory(a, o)'
  PROVE  IInv'
  <1> USE ActorFacts
  <1>1. Shape'
    BY DEF IInv, Shape
  <1>2. Accepted(o) /\ \A r \in Signals : Accepted(r)' <=> Accepted(r)
    BY DEF IInv, Ctl, WatchCtl, Accepted
  <1>3. Ctl'
    <2>1. a \in Signals => TaskCtl(a)'
      BY DEF IInv, Ctl, TaskCtl, Asking
    <2>2. a = Poller => PollerCtl'
      BY DEF PollerCtl, Asking
    <2>3. WatchCtl(a)'
      BY <1>2 DEF WatchCtl, Asking
    <2>4. \A r \in Signals : PassCtl(r)'
      BY <1>2 DEF IInv, Ctl, PassCtl
    <2>5. QED
      BY <1>2, <2>1, <2>2, <2>3, <2>4, CtlFrame DEF IInv
  <1>4. BookInv'
    <2>1. \A r \in Signals : RowKept(r) /\ PassQuiet(r) /\ (~Accepted(r)' => booked'[r] = 0)
      BY <1>2, SameRows DEF IInv, BookInv
    <2>2. ASSUME NEW r \in Signals \ raced', r # o PROVE BookOf(r)'
      <3>1. Quiet(r)
        BY <2>2, QuietStep
      <3>2. QED
        BY <2>1, <3>1, BookFrame DEF IInv, BookInv, VenueType
    <2>3. ASSUME o \notin raced' PROVE BookOf(o)'
      <3>1. BookOf(o)
        BY <2>3 DEF IInv, BookInv
      <3>2. \A w \in Watchers : Has(w, o)' <=> Has(w, o)
        BY DEF Has
      <3>3. \A w \in Watchers : w # a => job'[w].order # o
        BY <3>1 DEF BookOf, Has
      <3>4. \A w \in Watchers : Memory(w, o)'
        BY <3>1, <3>3 DEF BookOf, Memory
      <3>5. order[o].filled \in Nat /\ venue[o].filled \in Nat /\ venue'[o].filled \in Nat
            /\ venue[o].filled <= venue'[o].filled
        BY DEF IInv, Shape, RowType, VenueType
      <3>6. order'[o].filled <= venue'[o].filled /\ booked'[o] <= order'[o].filled
        BY <1>2, <3>1, <3>5 DEF BookOf
      <3>7. o \in batch' => job'[Poller].order # o /\ copies'[o] \in {Expired, order'[o].filled}
        BY <3>1, <3>3 DEF BookOf
      <3>8. QED
        BY <3>1, <3>2, <3>4, <3>6, <3>7 DEF BookOf
    <2>4. QED
      BY <2>1, <2>2, <2>3 DEF BookInv
  <1>5. QED
    BY <1>1, <1>3, <1>4 DEF IInv

\* cancel_order.
LEMMA CancelStep ==
  ASSUME IInv, NEW d \in Signals, Cancel(d)
  PROVE  IInv'
  <1> USE ActorFacts DEF pass, history
  <1>1. /\ job[d].step = "cancelling" /\ Shape /\ Goto(d, "asking")
        /\ UNCHANGED <<order, net, batch, copies, staged, faults, booked, raced>>
    BY DEF Cancel, At, IInv
  <1>2. PICK o \in Signals : o = job[d].order
    BY <1>1 DEF IInv, Ctl, WatchCtl, Asking
  <1>3. /\ venue' \in [Signals -> VenueType]
        /\ \A r \in Signals : venue'[r].filled = venue[r].filled
    <2>1. CASE UNCHANGED venue
      BY <1>1, <2>1 DEF Shape
    <2>2. CASE venue' = [venue EXCEPT ![o].state = "cancelled"]
      <3>1. venue[o] \in VenueType
        BY <1>1 DEF Shape
      <3>2. /\ [venue[o] EXCEPT !.state = "cancelled"] \in VenueType
            /\ [venue[o] EXCEPT !.state = "cancelled"].filled = venue[o].filled
        BY <3>1 DEF VenueType
      <3>3. venue' = [venue EXCEPT ![o] = [venue[o] EXCEPT !.state = "cancelled"]]
        BY <2>2
      <3>4. QED
        BY <1>1, <3>2, <3>3 DEF Shape
    <2>3. QED
      BY <1>2, <2>1, <2>2 DEF Cancel
  <1>4. /\ job' \in [Actors -> JobType] /\ \A b \in Actors : b # d => job'[b] = job[b]
        /\ job'[d].step = "asking" /\ job'[d].order = o /\ job'[d].seen = job[d].seen
    BY <1>1, <1>2, GotoFacts DEF Steps, Asking
  <1>5. \A r \in Signals : venue[r].filled <= venue'[r].filled
    BY <1>3 DEF VenueType
  <1>6. Memory(d, o) => Memory(d, o)'
    BY <1>1, <1>2, <1>4 DEF Memory
  <1>7. QED
    BY <1>1, <1>2, <1>3, <1>4, <1>5, <1>6, MemoryStep DEF Asking

\* The task goes on to decide.
LEMMA DecidesNext ==
  ASSUME Shape, NEW d \in Signals, job[d].order \in Signals \cup {None},
         job' = [job EXCEPT ![d] = [Idle EXCEPT !.step = "deciding", !.order = job[d].order]]
  PROVE  /\ job' \in [Actors -> JobType] /\ \A b \in Actors : b # d => job'[b] = job[b]
         /\ job'[d].step = "deciding" /\ job'[d].order = job[d].order
  <1> USE ActorFacts
  <1> DEFINE o == job[d].order
             j == J("deciding", o, 0, "unknown", 0, 0)
  <1> HIDE DEF o
  <1>1. [Idle EXCEPT !.step = "deciding", !.order = o] = j
    BY KeepFields
  <1>2. o \in Signals \cup {None}
    BY DEF o
  <1>3. j \in JobType /\ j.step = "deciding" /\ j.order = o
    BY <1>2 DEF J, JobType, Executing
  <1>4. job' = [job EXCEPT ![d] = [Idle EXCEPT !.step = "deciding", !.order = o]]
    BY DEF o
  <1> HIDE DEF j
  <1>5. job' = [job EXCEPT ![d] = j]
    BY <1>1, <1>4
  <1>6. QED
    BY <1>3, <1>5, JobChanges DEF o

\* The end of _cancel_working_entry.
LEMMA AfterCancelStep ==
  ASSUME IInv, NEW d \in Signals, AfterCancel(d)
  PROVE  IInv'
  <1> USE ActorFacts DEF pass, history
  <1>1. /\ job[d].step = "answered" /\ Shape /\ order[d].status = "none"
        /\ UNCHANGED <<venue, net, batch, copies, staged, faults, booked, raced>>
    BY DEF AfterCancel, At, IInv, Ctl, TaskCtl
  <1>2. venue' \in [Signals -> VenueType] /\ \A r \in Signals : venue[r].filled <= venue'[r].filled
    BY <1>1 DEF Shape, VenueType
  <1>3. CASE /\ job' = [job EXCEPT ![d] = [Idle EXCEPT !.step = "deciding", !.order = job[d].order]]
             /\ UNCHANGED order
    <2>1. /\ job' \in [Actors -> JobType] /\ \A b \in Actors : b # d => job'[b] = job[b]
          /\ job'[d].step = "deciding" /\ job'[d].order = job[d].order
      BY <1>1, <1>3, JobHas, DecidesNext
    <2>2. TaskCtl(d)' /\ WatchCtl(d)'
      BY <1>1, <1>3, <2>1 DEF TaskCtl, WatchCtl, Executing, Asking, Accepted, IInv, Ctl
    <2>3. QED
      BY <1>1, <1>2, <1>3, <2>1, <2>2, JobOnly DEF Shape
  <1>4. CASE order' = Flushed(d) /\ Leave(d)
    <2>1. /\ job' \in [Actors -> JobType] /\ \A b \in Actors : b # d => job'[b] = job[b]
          /\ job'[d].step = "done" /\ job'[d].order = None
      BY <1>1, <1>4, LeaveFacts
    <2>2. order' \in [Signals -> RowType] /\ \A o \in Signals : RowKept(o)
      BY <1>4, FlushKeeps DEF IInv
    <2>3. Shape'
      BY <1>1, <2>1, <2>2 DEF Shape
    <2>4. Ctl'
      <3>1. TaskCtl(d)' /\ WatchCtl(d)'
        BY <2>1 DEF TaskCtl, WatchCtl, Asking
      <3>2. \A o \in Signals : /\ (Accepted(o) => Accepted(o)') /\ PassCtl(o)'
                               /\ (order[o].status \in {"none", "retrying"} => order'[o] = order[o])
        BY <1>1, <2>2, PassFrame DEF IInv, Ctl, PassCtl, RowKept, Accepted
      <3>3. QED
        BY <2>1, <3>1, <3>2, CtlFrame DEF IInv
    <2>5. BookInv'
      <3>1. \A o \in Signals : PassQuiet(o) /\ Quiet(o)
        BY <1>1, <2>1, QuietStep DEF PassQuiet, Has
      <3>2. QED
        BY <1>1, <1>2, <2>2, <3>1, BooksFrame DEF IInv
    <2>6. QED
      BY <2>3, <2>4, <2>5 DEF IInv
  <1>5. QED
    BY <1>3, <1>4 DEF AfterCancel

\* A commit that writes the row of the order an actor decided on, placed or closed with.
LEMMA CommitStep ==
  ASSUME IInv, NEW a \in Actors, a # Poller, NEW s \in Signals,
         order[s].status = (IF a = Worker THEN "retrying" ELSE "none"), a # Worker => s = a,
         order' \in [Signals -> RowType], \A o \in Signals : o # s => RowKept(o),
         Accepted(s)' => order'[s].filled = 0,
         order'[s].status = "working" => order'[s].type = "limit",
         job' \in [Actors -> JobType], \A b \in Actors : b # a => job'[b] = job[b],
         \/ job'[a].order = None /\ job'[a].step = (IF a \in Signals THEN "done" ELSE "idle")
         \/ job'[a].order = job[a].order /\ job'[a].step = "closeRecorded",
         UNCHANGED <<venue, net, batch, copies, staged, faults, booked, raced>>
  PROVE  IInv'
  <1> USE ActorFacts
  <1>1. Shape' /\ ~Accepted(s)
    BY DEF IInv, Shape, Accepted
  <1>2. \A o \in Signals : (Accepted(o) => Accepted(o)') /\ PassCtl(o)'
    <2>1. ASSUME NEW o \in Signals, o # s PROVE (Accepted(o) => Accepted(o)') /\ PassCtl(o)'
      <3>1. RowKept(o) /\ PassCtl(o)
        BY <2>1 DEF IInv, Ctl
      <3>2. o \in batch' \/ staged'[o] # "none" => Accepted(o)
        BY <3>1 DEF PassCtl
      <3>3. QED
        BY <3>1, <3>2, PassFrame DEF RowKept
    <2>2. PassCtl(s)'
      BY <1>1 DEF IInv, Ctl, PassCtl, Accepted
    <2>3. QED
      BY <1>1, <2>1, <2>2
  <1>3. \A o \in Signals : o # s /\ order[o].status \in {"none", "retrying"} => order'[o] = order[o]
    BY DEF RowKept, Accepted
  <1>4. Ctl'
    <2>1. a \in Signals => TaskCtl(a)'
      BY DEF TaskCtl, Executing
    <2>2. a = Worker => WorkerCtl'
      BY DEF WorkerCtl, Executing
    <2>3. a \in Watchers => WatchCtl(a)'
      BY <1>2 DEF IInv, Ctl, WatchCtl, Asking
    <2>4. a # Worker => \A o \in Signals : order[o].status = "retrying" => order'[o] = order[o]
      BY <1>3
    <2>5. \A o \in Signals : o # a /\ order[o].status = "none" => order'[o] = order[o]
      BY <1>3
    <2>6. QED
      BY <1>2, <2>1, <2>2, <2>3, <2>4, <2>5, CtlFrame DEF IInv
  <1>5. BookInv'
    <2>1. \A o \in Signals : Quiet(o)
      BY QuietStep
    <2>2. QED
      BY <1>1, <2>1, BooksCommit
  <1>6. QED
    BY <1>1, <1>4, <1>5 DEF IInv

\* decide found a position to close.
LEMMA CloseJob ==
  ASSUME Shape, NEW d \in Signals,
         job' = [job EXCEPT ![d].step = "closing", ![d].qty = IF net > 0 THEN net ELSE -net]
  PROVE  /\ job' \in [Actors -> JobType] /\ \A b \in Actors : b # d => job'[b] = job[b]
         /\ job'[d].step = "closing" /\ job'[d].order = job[d].order
  <1> USE ActorFacts
  <1> DEFINE q == IF net > 0 THEN net ELSE -net
             j0 == J(job[d].step, job[d].order, job[d].seen, job[d].state, job[d].filled, job[d].qty)
             j1 == J("closing", job[d].order, job[d].seen, job[d].state, job[d].filled, job[d].qty)
             j == J("closing", job[d].order, job[d].seen, job[d].state, job[d].filled, q)
  <1>1. q \in Nat
    BY DEF Shape
  <1>2. job' = [job EXCEPT ![d] = [[job[d] EXCEPT !.step = "closing"] EXCEPT !.qty = q]]
    OBVIOUS
  <1> HIDE DEF q
  <1>3. job[d] = j0 /\ [j0 EXCEPT !.step = "closing"] = j1 /\ [j1 EXCEPT !.qty = q] = j
    BY JobHas DEF J
  <1>4. j \in JobType
    BY <1>1, JobHas DEF J, JobType, States, Executing
  <1>5. j.step = "closing" /\ j.order = job[d].order
    BY DEF J
  <1> HIDE DEF j0, j1, j
  <1>6. job' = [job EXCEPT ![d] = j]
    BY <1>2, <1>3, Zenon
  <1>7. QED
    BY <1>4, <1>5, <1>6, JobChanges

\* decide.
LEMMA DecideStep ==
  ASSUME IInv, NEW d \in Signals, Decide(d)
  PROVE  IInv'
  <1> USE ActorFacts DEF pass, history
  <1>1. /\ job[d].step = "deciding" /\ Shape /\ order[d].status = "none" /\ ~Accepted(d)
        /\ UNCHANGED <<venue, net, batch, copies, staged, faults, booked, raced>>
    BY DEF Decide, At, IInv, Ctl, TaskCtl, Accepted
  <1>2. venue' \in [Signals -> VenueType] /\ \A r \in Signals : venue[r].filled <= venue'[r].filled
    BY <1>1 DEF Shape, VenueType
  <1>3. ASSUME job' \in [Actors -> JobType], \A b \in Actors : b # d => job'[b] = job[b],
               job'[d].order = job[d].order, job'[d].step \in {"placing", "closing"}, UNCHANGED order
        PROVE  IInv'
    <2>1. TaskCtl(d)' /\ WatchCtl(d)'
      BY <1>1, <1>3 DEF TaskCtl, WatchCtl, Executing, Asking, Accepted, IInv, Ctl
    <2>2. QED
      BY <1>1, <1>2, <1>3, <2>1, JobOnly DEF Shape
  <1>4. CASE Goto(d, "placing") /\ UNCHANGED order
    BY <1>1, <1>3, <1>4, GotoFacts DEF Steps, Executing
  <1>5. CASE /\ net # 0
             /\ job' = [job EXCEPT ![d].step = "closing", ![d].qty = IF net > 0 THEN net ELSE -net]
             /\ UNCHANGED order
    BY <1>1, <1>3, <1>5, CloseJob
  <1>6. CASE /\ order' = [Flushed(d) EXCEPT ![d] = [NoOrder EXCEPT !.status = "rejected", !.id = NextId]]
             /\ Leave(d)
    <2> DEFINE row == [NoOrder EXCEPT !.status = "rejected", !.id = NextId]
    <2>1. row \in RowType /\ row.status = "rejected"
      BY NextIdIsNat DEF NoOrder, RowType
    <2> HIDE DEF row
    <2>2. order' = [Flushed(d) EXCEPT ![d] = row]
      BY <1>6 DEF row
    <2>3. /\ order' \in [Signals -> RowType] /\ order'[d].status = "rejected"
          /\ \A o \in Signals : o # d => order'[o] = Flushed(d)[o]
      BY <1>1, <2>1, <2>2, FlushedFacts DEF IInv
    <2>4. \A o \in Signals : o # d => RowKept(o)
      BY <1>1, <2>3, FlushedFacts DEF IInv, RowKept, Accepted
    <2>5. /\ job' \in [Actors -> JobType] /\ \A b \in Actors : b # d => job'[b] = job[b]
          /\ job'[d].step = "done" /\ job'[d].order = None
      BY <1>1, <1>6, LeaveFacts
    <2>6. ~Accepted(d)'
      BY <2>3 DEF Accepted
    <2>7. QED
      BY <1>1, <2>3, <2>4, <2>5, <2>6, CommitStep
  <1>7. QED
    BY <1>4, <1>5, <1>6 DEF Decide
----------------------------------------------------------------------------
(* execute_order. *)

\* The order an actor executes has no row, or is to be retried.
LEMMA Executes ==
  ASSUME IInv, NEW a \in Signals \cup {Worker},
         job[a].step \in Executing \ {"deciding", "closeRecorded"}
  PROVE  /\ Shape /\ a \in Actors /\ a # Poller /\ Subject(a) \in Signals
         /\ order[Subject(a)].status = (IF a = Worker THEN "retrying" ELSE "none")
         /\ ~Accepted(Subject(a)) /\ (a # Worker => Subject(a) = a)
  <1>1. a \in Actors /\ a # Poller
    BY ActorAssumption DEF Actors
  <1>2. QED
    BY <1>1, ActorFacts DEF IInv, Ctl, TaskCtl, WorkerCtl, Subject, Executing, Accepted

\* A step of an execution that writes no row.
LEMMA ExecutionGoesOn ==
  ASSUME IInv, NEW a \in Signals \cup {Worker},
         job[a].step \in Executing \ {"deciding", "closeRecorded"},
         NEW t \in Executing \ {"deciding", "closeRecorded"}, Goto(a, t),
         venue' \in [Signals -> VenueType], \A o \in Signals : venue[o].filled <= venue'[o].filled,
         UNCHANGED <<order, net, batch, copies, staged, faults, booked, raced>>
  PROVE  IInv'
  <1>1. Shape /\ a \in Actors /\ a # Poller
    BY Executes
  <1>2. /\ job' \in [Actors -> JobType] /\ \A b \in Actors : b # a => job'[b] = job[b]
        /\ job'[a].step = t /\ job'[a].order = job[a].order
    BY <1>1, GotoFacts DEF Steps
  <1>3. a \in Signals => TaskCtl(a)'
    BY <1>2 DEF IInv, Ctl, TaskCtl, Executing
  <1>4. a = Worker => WorkerCtl'
    BY <1>2 DEF IInv, Ctl, WorkerCtl, Executing
  <1>5. a \in Watchers => WatchCtl(a)'
    BY <1>2 DEF IInv, Ctl, WatchCtl, Executing, Asking, Accepted
  <1>6. t \notin {"cancelling", "asking", "reading", "booking", "recorded"}
    BY DEF Executing
  <1>7. net' \in Int /\ raced \subseteq raced'
    BY <1>1 DEF Shape
  <1>8. QED
    BY <1>1, <1>2, <1>3, <1>4, <1>5, <1>6, <1>7, JobOnly DEF Shape

\* limit_order, and market_order of a close.
LEMMA OrderStep ==
  ASSUME IInv, NEW a \in Signals \cup {Worker}, Place(a) \/ Close(a)
  PROVE  IInv'
  <1> USE DEF pass, history
  <1>1. /\ job[a].step \in Executing \ {"deciding", "closeRecorded"}
        /\ UNCHANGED <<order, net, batch, copies, staged, faults, booked, raced>>
    BY DEF Place, Close, At, Executing
  <1>2. \E t \in Executing \ {"deciding", "closeRecorded"} : Goto(a, t)
    BY DEF Place, Close, Executing
  <1>3. Shape /\ Subject(a) \in Signals
    BY <1>1, Executes
  <1>4. venue' \in [Signals -> VenueType] /\ \A o \in Signals : venue[o].filled <= venue'[o].filled
    <2>1. CASE UNCHANGED venue
      BY <1>3, <2>1 DEF Shape, VenueType
    <2>2. CASE venue' = [venue EXCEPT ![Subject(a)].state = "resting"]
      <3>1. PICK o \in Signals : o = Subject(a)
        BY <1>3
      <3>2. venue[o] \in VenueType
        BY <1>3 DEF Shape
      <3>3. /\ [venue[o] EXCEPT !.state = "resting"] \in VenueType
            /\ [venue[o] EXCEPT !.state = "resting"].filled = venue[o].filled
        BY <3>2 DEF VenueType
      <3>4. venue' = [venue EXCEPT ![o] = [venue[o] EXCEPT !.state = "resting"]]
        BY <2>2, <3>1
      <3>5. venue' \in [Signals -> VenueType] /\ \A r \in Signals : venue'[r].filled = venue[r].filled
        BY <1>3, <3>3, <3>4 DEF Shape
      <3>6. QED
        BY <3>5 DEF VenueType
    <2>3. QED
      BY <2>1, <2>2 DEF Place, Close
  <1>5. QED
    BY <1>1, <1>2, <1>4, ExecutionGoesOn

\* _on_success of a resting order, _on_failure, and the first commit of a close.
LEMMA ResultStep ==
  ASSUME IInv, NEW a \in Signals \cup {Worker},
         CommitPlacement(a) \/ CommitCloseFailure(a) \/ RecordClose(a)
  PROVE  IInv'
  <1> USE DEF pass, history
  <1>1. /\ job[a].step \in Executing \ {"deciding", "closeRecorded"}
        /\ UNCHANGED <<venue, net, batch, copies, staged, faults, booked, raced>>
    BY DEF CommitPlacement, CommitCloseFailure, RecordClose, At, Executing
  <1>2. /\ Shape /\ Ctl /\ a \in Actors /\ a # Poller
        /\ order[Subject(a)].status = (IF a = Worker THEN "retrying" ELSE "none")
        /\ ~Accepted(Subject(a)) /\ (a # Worker => Subject(a) = a)
    BY <1>1, Executes DEF IInv
  <1>3. PICK s \in Signals : s = Subject(a)
    BY <1>1, Executes
  <1>4. job[a].qty \in Nat /\ Qty \in Nat /\ 0 \in Nat /\ FailedStatus(a) \in {"dead", "retrying"}
    BY <1>2, JobHas, QtyAssumption DEF FailedStatus
  <1>5. PICK st \in {"working", "retrying", "success", "dead"}, ty \in {"limit", "market"},
             q \in Nat, f \in Nat :
           /\ order' = Committed(a, st, ty, q, f)
           /\ ty = "limit" => f = 0
           /\ st = "working" => ty = "limit"
    <2>1. CASE CommitPlacement(a)
      BY <1>4, <2>1 DEF CommitPlacement
    <2>2. CASE CommitCloseFailure(a)
      BY <1>4, <2>2 DEF CommitCloseFailure
    <2>3. CASE RecordClose(a)
      BY <1>4, <2>3 DEF RecordClose
    <2>4. QED
      BY <2>1, <2>2, <2>3
  <1>6. /\ order' \in [Signals -> RowType]
        /\ order'[s].status = st /\ order'[s].type = ty /\ order'[s].filled = f
        /\ \A o \in Signals : o # s => RowKept(o)
    BY <1>2, <1>3, <1>5, CommitKeeps
  <1>7. /\ job' \in [Actors -> JobType] /\ \A b \in Actors : b # a => job'[b] = job[b]
        /\ \/ job'[a].order = None /\ job'[a].step = (IF a \in Signals THEN "done" ELSE "idle")
           \/ job'[a].order = job[a].order /\ job'[a].step = "closeRecorded"
    <2>1. CASE Leave(a)
      BY <1>2, <2>1, LeaveFacts
    <2>2. CASE Goto(a, "closeRecorded")
      BY <1>2, <2>2, GotoFacts DEF Steps, Executing
    <2>3. QED
      BY <2>1, <2>2 DEF CommitPlacement, CommitCloseFailure, RecordClose
  <1>8. Accepted(s)' => order'[s].filled = 0
    BY <1>5, <1>6 DEF Accepted
  <1>9. QED
    BY <1>1, <1>2, <1>3, <1>5, <1>6, <1>7, <1>8, CommitStep

\* The ledger commit of a close.
LEMMA BookCloseStep ==
  ASSUME IInv, NEW a \in Signals \cup {Worker}, BookClose(a)
  PROVE  IInv'
  <1> USE DEF pass, history
  <1>1. /\ job[a].step = "closeRecorded" /\ Leave(a) /\ Shape /\ a \in Actors /\ a # Poller
        /\ UNCHANGED <<venue, order, batch, copies, staged, faults, booked, raced>>
    BY ActorFacts DEF BookClose, At, IInv
  <1>2. /\ job' \in [Actors -> JobType] /\ \A b \in Actors : b # a => job'[b] = job[b]
        /\ job'[a].step = (IF a \in Signals THEN "done" ELSE "idle") /\ job'[a].order = None
    BY <1>1, LeaveFacts
  <1>3. net' \in Int
    <2>1. job[a].qty \in Int /\ net \in Int
      BY <1>1, JobHas DEF Shape
    <2>2. QED
      BY <2>1 DEF BookClose, Signed
  <1>4. a \in Signals => TaskCtl(a)' /\ WatchCtl(a)'
    BY <1>2, ActorFacts DEF TaskCtl, WatchCtl, Asking
  <1>5. a = Worker => WorkerCtl'
    BY <1>2, ActorFacts DEF WorkerCtl
  <1>6. venue' \in [Signals -> VenueType] /\ \A o \in Signals : venue[o].filled <= venue'[o].filled
    BY <1>1 DEF Shape, VenueType
  <1>7. QED
    BY <1>1, <1>2, <1>3, <1>4, <1>5, <1>6, JobOnly, ActorFacts DEF Shape

\* The retry worker takes an order up.
LEMMA ReplayStep ==
  ASSUME IInv, Replay
  PROVE  IInv'
  <1> USE DEF pass, history
  <1>1. /\ job[Worker].step = "idle" /\ Shape
        /\ UNCHANGED <<venue, order, net, batch, copies, staged, faults, booked, raced>>
    BY DEF Replay, At, IInv
  <1>2. PICK o \in Signals :
           /\ order[o].status = "retrying"
           /\ job' = [job EXCEPT ![Worker] =
                [Idle EXCEPT !.step = IF order[o].type = "limit" THEN "placing" ELSE "closing",
                             !.order = o, !.qty = order[o].qty]]
    BY DEF Replay
  <1> DEFINE t == IF order[o].type = "limit" THEN "placing" ELSE "closing"
             j == J(t, o, 0, "unknown", 0, order[o].qty)
  <1>3. t \in {"placing", "closing"} /\ order[o].qty \in Nat
    BY <1>1 DEF Shape, RowType
  <1>4. job' = [job EXCEPT ![Worker] = [Idle EXCEPT !.step = t, !.order = o, !.qty = order[o].qty]]
    BY <1>2
  <1> HIDE DEF t
  <1>5. [Idle EXCEPT !.step = t, !.order = o, !.qty = order[o].qty] = j
    BY ReplayFields
  <1>6. j \in JobType /\ j.step = t /\ j.order = o
    BY <1>3 DEF J, JobType, Executing
  <1> HIDE DEF j
  <1>7. /\ job' \in [Actors -> JobType] /\ \A b \in Actors : b # Worker => job'[b] = job[b]
        /\ job'[Worker].step = t /\ job'[Worker].order = o
    BY <1>1, <1>4, <1>5, <1>6, JobChanges, ActorFacts
  <1>8. WorkerCtl'
    BY <1>1, <1>2, <1>3, <1>7 DEF WorkerCtl, Executing
  <1>9. venue' \in [Signals -> VenueType] /\ \A r \in Signals : venue[r].filled <= venue'[r].filled
    BY <1>1 DEF Shape, VenueType
  <1>10. net' \in Int /\ raced \subseteq raced'
    BY <1>1 DEF Shape
  <1>11. QED
    BY <1>1, <1>7, <1>8, <1>9, <1>10, JobOnly, ActorFacts DEF Shape
----------------------------------------------------------------------------
(* order_status and book_limit_fill_delta. *)

\* The session that asks has an accepted order in hand.
LEMMA Watches ==
  ASSUME IInv, NEW a \in Watchers, job[a].step \in Asking
  PROVE  /\ Shape /\ a \in Actors /\ job[a].order \in Signals /\ Accepted(job[a].order)
         /\ \A o \in Signals : venue[o].filled \in Nat /\ order[o].filled \in Nat
  BY ActorFacts DEF IInv, Ctl, WatchCtl, Shape, VenueType, RowType

\* The fills are read.
LEMMA ReadFillsJob ==
  ASSUME IInv, NEW a \in Watchers, ReadFills(a)
  PROVE  \E q \in Nat :
            /\ q <= venue[job[a].order].filled
            /\ job' \in [Actors -> JobType] /\ \A b \in Actors : b # a => job'[b] = job[b]
            /\ job'[a].step = "reading" /\ job'[a].order = job[a].order
            /\ job'[a].seen = job[a].seen /\ job'[a].filled = q
  <1>1. job[a].step = "asking" /\ job[a].step \in Asking
    BY DEF ReadFills, At, Asking
  <1>2. PICK o \in Signals : o = job[a].order
    BY <1>1, Watches
  <1>3. Shape /\ a \in Actors /\ venue[o].filled \in Nat
    BY <1>1, Watches
  <1>4. PICK q \in Nat : /\ q <= venue[o].filled
                         /\ job' = [job EXCEPT ![a].step = "reading", ![a].filled = q]
    <2>1. \A q \in {venue[o].filled} \cup (IF AtomicStatus THEN {} ELSE {0}) :
             q \in Nat /\ q <= venue[o].filled
      BY <1>3
    <2>2. QED
      BY <1>2, <2>1 DEF ReadFills
  <1> DEFINE j0 == J(job[a].step, job[a].order, job[a].seen, job[a].state, job[a].filled, job[a].qty)
             j1 == J("reading", job[a].order, job[a].seen, job[a].state, job[a].filled, job[a].qty)
             j == J("reading", job[a].order, job[a].seen, job[a].state, q, job[a].qty)
  <1>5. job[a] = j0 /\ [j0 EXCEPT !.step = "reading"] = j1 /\ [j1 EXCEPT !.filled = q] = j
    BY <1>3, JobHas DEF J
  <1>6. /\ j \in JobType /\ j.step = "reading" /\ j.order = o /\ j.seen = job[a].seen /\ j.filled = q
    BY <1>2, <1>3, JobHas DEF J, JobType, Asking, States
  <1> HIDE DEF j0, j1, j
  <1>7. job' = [job EXCEPT ![a] = j]
    <2>1. job' = [job EXCEPT ![a] = [[job[a] EXCEPT !.step = "reading"] EXCEPT !.filled = q]]
      BY <1>4
    <2>2. QED
      BY <1>5, <2>1, Zenon
  <1>8. job' \in [Actors -> JobType] /\ job'[a] = j /\ \A b \in Actors : b # a => job'[b] = job[b]
    BY <1>3, <1>6, <1>7, JobChanges
  <1>9. QED
    BY <1>2, <1>4, <1>6, <1>8

\* A session that has read the fills.
LEMMA ReadFillsStep ==
  ASSUME IInv, NEW a \in Watchers, ReadFills(a)
  PROVE  IInv'
  <1> USE DEF pass, history
  <1>1. /\ job[a].step = "asking" /\ job[a].step \in Asking
        /\ UNCHANGED <<venue, order, net, batch, copies, staged, faults, booked, raced>>
    BY DEF ReadFills, At, Asking
  <1>2. PICK o \in Signals : o = job[a].order
    BY <1>1, Watches
  <1>3. PICK q \in Nat : /\ q <= venue[o].filled
                         /\ job' \in [Actors -> JobType] /\ \A b \in Actors : b # a => job'[b] = job[b]
                         /\ job'[a].step = "reading" /\ job'[a].order = o
                         /\ job'[a].seen = job[a].seen /\ job'[a].filled = q
    BY <1>2, ReadFillsJob
  <1>4. venue' \in [Signals -> VenueType] /\ \A r \in Signals : venue[r].filled <= venue'[r].filled
    BY <1>1, Watches DEF Shape, VenueType
  <1>5. Memory(a, o) => Memory(a, o)'
    BY <1>1, <1>2, <1>3 DEF Memory
  <1>6. QED
    BY <1>1, <1>2, <1>3, <1>4, <1>5, MemoryStep DEF Asking

\* What the fills that were read, the state, and what the session saw make of its job.
FillsRead(a, o) == IF AtomicStatus THEN venue[o].filled ELSE job[a].filled
StateRead(known, o) == IF known THEN venue[o].state ELSE "unknown"
AfterRead(a, known, o) == IF known /\ FillsRead(a, o) > job[a].seen THEN "booking" ELSE "answered"

\* The state is read: on to book what is new.
LEMMA ReadStateJob ==
  ASSUME IInv, NEW a \in Watchers, NEW known \in BOOLEAN, ReadState(a, known),
         NEW o \in Signals, o = job[a].order
  PROVE  /\ FillsRead(a, o) \in Nat /\ AfterRead(a, known, o) \in {"booking", "answered"}
         /\ job' \in [Actors -> JobType] /\ \A b \in Actors : b # a => job'[b] = job[b]
         /\ job'[a].step = AfterRead(a, known, o) /\ job'[a].order = o
         /\ job'[a].seen = job[a].seen /\ job'[a].state = StateRead(known, o)
         /\ job'[a].filled = FillsRead(a, o)
  <1>1. job[a].step = "reading" /\ job[a].step \in Asking
    BY DEF ReadState, At, Asking
  <1>2. Shape /\ a \in Actors /\ venue[o].filled \in Nat /\ job[a].filled \in Nat
    BY <1>1, Watches, JobHas
  <1> DEFINE q == FillsRead(a, o)
             st == StateRead(known, o)
             t == AfterRead(a, known, o)
  <1>3. q \in Nat
    BY <1>2 DEF FillsRead
  <1>4. t \in {"booking", "answered"}
    BY DEF AfterRead
  <1>5. st \in States
    BY <1>2 DEF StateRead, Shape, VenueType, States
  <1>6. job' = [job EXCEPT ![a].state = st, ![a].filled = q, ![a].step = t]
    BY DEF ReadState, FillsRead, StateRead, AfterRead
  <1> HIDE DEF q, st, t
  <1> DEFINE j0 == J(job[a].step, job[a].order, job[a].seen, job[a].state, job[a].filled, job[a].qty)
             j1 == J(job[a].step, job[a].order, job[a].seen, st, job[a].filled, job[a].qty)
             j2 == J(job[a].step, job[a].order, job[a].seen, st, q, job[a].qty)
             j == J(t, job[a].order, job[a].seen, st, q, job[a].qty)
  <1>7. job[a] = j0
    BY <1>2, JobHas
  <1>8. [j0 EXCEPT !.state = st] = j1 /\ [j1 EXCEPT !.filled = q] = j2 /\ [j2 EXCEPT !.step = t] = j
    BY DEF J
  <1>9. j \in JobType
    BY <1>2, <1>3, <1>4, <1>5, JobHas DEF J, JobType, Asking, States
  <1>10. j.step = t /\ j.order = o /\ j.seen = job[a].seen /\ j.state = st /\ j.filled = q
    BY DEF J
  <1> HIDE DEF j0, j1, j2, j
  <1>11. job' = [job EXCEPT ![a] = j]
    <2>1. job' = [job EXCEPT ![a] =
                     [[[job[a] EXCEPT !.state = st] EXCEPT !.filled = q] EXCEPT !.step = t]]
      BY <1>6
    <2>2. QED
      BY <1>7, <1>8, <2>1, Zenon
  <1>12. job' \in [Actors -> JobType] /\ job'[a] = j /\ \A b \in Actors : b # a => job'[b] = job[b]
    BY <1>2, <1>9, <1>11, JobChanges
  <1>13. QED
    BY <1>3, <1>4, <1>10, <1>12 DEF q, st, t

\* A session that has read the state.
LEMMA ReadStateStep ==
  ASSUME IInv, NEW a \in Watchers, NEW known \in BOOLEAN, ReadState(a, known)
  PROVE  IInv'
  <1> USE DEF pass, history
  <1>1. /\ job[a].step = "reading" /\ job[a].step \in Asking
        /\ UNCHANGED <<venue, order, net, batch, copies, staged, faults, booked, raced>>
    BY DEF ReadState, At, Asking
  <1>2. PICK o \in Signals : o = job[a].order
    BY <1>1, Watches
  <1>3. /\ FillsRead(a, o) \in Nat /\ AfterRead(a, known, o) \in {"booking", "answered"}
        /\ job' \in [Actors -> JobType] /\ \A b \in Actors : b # a => job'[b] = job[b]
        /\ job'[a].step = AfterRead(a, known, o) /\ job'[a].order = o
        /\ job'[a].seen = job[a].seen /\ job'[a].filled = FillsRead(a, o)
    BY <1>2, ReadStateJob
  <1>4. Shape /\ a \in Actors /\ venue[o].filled \in Nat /\ job[a].seen \in Int
    BY <1>1, Watches, JobHas
  <1>5. FillsRead(a, o) = venue[o].filled \/ FillsRead(a, o) = job[a].filled
    BY DEF FillsRead
  <1>6. AfterRead(a, known, o) = "booking" => job[a].seen < FillsRead(a, o)
    BY <1>3, <1>4 DEF AfterRead
  <1>7. venue' \in [Signals -> VenueType] /\ \A r \in Signals : venue[r].filled <= venue'[r].filled
    BY <1>1, <1>4 DEF Shape, VenueType
  <1>8. Memory(a, o) => Memory(a, o)'
    BY <1>1, <1>2, <1>3, <1>4, <1>5, <1>6 DEF Memory
  <1>9. QED
    BY <1>1, <1>2, <1>3, <1>7, <1>8, MemoryStep DEF Asking

\* A commit that settles rows, the flush of a session or none.
LEMMA BaseRows ==
  ASSUME Shape, Ctl, NEW a \in Actors, NEW B, B = (IF a = Poller THEN Flushed(a) ELSE order)
  PROVE  /\ B \in [Signals -> RowType]
         /\ \A o \in Signals : /\ B[o].filled = order[o].filled /\ B[o].type = order[o].type
                               /\ Accepted(o) => B[o].status \in {"working", "success", "cancelled"}
                               /\ ~Accepted(o) => B[o] = order[o]
  <1>1. CASE a = Poller
    BY <1>1, FlushedFacts
  <1>2. CASE a # Poller
    BY <1>2 DEF Shape, Accepted
  <1>3. QED
    BY <1>1, <1>2

\* The rows after the first commit of a booking.
LEMMA BookRowRows ==
  ASSUME IInv, NEW a \in Watchers, BookRow(a), NEW o \in Signals, o = job[a].order
  PROVE  /\ order' \in [Signals -> RowType] /\ order'[o].filled = job[a].filled
         /\ \A r \in Signals : r # o => RowKept(r)
         /\ \A r \in Signals : /\ Accepted(r)' <=> Accepted(r)
                               /\ ~Accepted(r) => order'[r] = order[r]
                               /\ Ends(r)' => Ends(r)
  <1> USE DEF pass, history
  <1>1. job[a].step = "booking" /\ job[a].step \in Asking
    BY DEF BookRow, At, Asking
  <1>2. Shape /\ Ctl /\ a \in Actors /\ Accepted(o) /\ job[a].filled \in Nat
    BY <1>1, Watches, JobHas DEF IInv
  <1> DEFINE B == IF a = Poller THEN Flushed(a) ELSE order
             row == [B[o] EXCEPT !.filled = job[a].filled]
  <1>3. /\ B \in [Signals -> RowType]
        /\ \A r \in Signals : /\ B[r].filled = order[r].filled /\ B[r].type = order[r].type
                              /\ Accepted(r) => B[r].status \in {"working", "success", "cancelled"}
                              /\ ~Accepted(r) => B[r] = order[r]
    BY <1>2, BaseRows
  <1>4. \A r \in Signals : staged[r] = "none" => B[r] = order[r]
    BY ActorFacts DEF Flushed
  <1>5. order' = [B EXCEPT ![o] = row]
    <2>1. order' = [B EXCEPT ![o].filled = job[a].filled]
      BY DEF BookRow
    <2> HIDE DEF B
    <2>2. QED
      BY <2>1
  <1> HIDE DEF B
  <1>6. row \in RowType /\ row.filled = job[a].filled /\ row.type = B[o].type /\ row.status = B[o].status
    BY <1>2, <1>3 DEF RowType
  <1> HIDE DEF row
  <1>7. order' \in [Signals -> RowType] /\ order'[o] = row /\ \A r \in Signals : r # o => order'[r] = B[r]
    BY <1>3, <1>5, <1>6
  <1>8. Accepted(o)'
    BY <1>2, <1>3, <1>6, <1>7 DEF Accepted
  <1>9. \A r \in Signals : r # o => RowKept(r)
    BY <1>3, <1>7 DEF RowKept, Accepted
  <1>10. ASSUME NEW r \in Signals PROVE Ends(r)' => Ends(r)
    <2>1. order'[r].status = B[r].status /\ order'[r].type = order[r].type
      BY <1>3, <1>6, <1>7
    <2>2. staged'[r] # "none" => staged[r] # "none"
      BY DEF BookRow, NothingStaged
    <2>3. QED
      BY <1>4, <2>1, <2>2 DEF Ends
  <1>11. QED
    BY <1>2, <1>6, <1>7, <1>8, <1>9, <1>10 DEF RowKept

\* The first commit of a booking.
LEMMA BookRowStep ==
  ASSUME IInv, NEW a \in Watchers, BookRow(a)
  PROVE  IInv'
  <1> USE DEF pass, history
  <1>1. /\ job[a].step = "booking" /\ job[a].step \in Asking /\ Goto(a, "recorded")
        /\ UNCHANGED <<venue, net, batch, faults, booked, raced>>
    BY DEF BookRow, At, Asking
  <1>2. PICK o \in Signals : o = job[a].order
    BY <1>1, Watches
  <1>3. /\ Shape /\ Ctl /\ a \in Actors /\ Accepted(o) /\ job[a].seen \in Int /\ job[a].filled \in Nat
        /\ \A r \in Signals : venue[r].filled \in Nat /\ order[r].filled \in Nat
    BY <1>1, <1>2, Watches, JobHas DEF IInv
  <1>4. /\ job' \in [Actors -> JobType] /\ \A b \in Actors : b # a => job'[b] = job[b]
        /\ job'[a].step = "recorded" /\ job'[a].order = o /\ job'[a].seen = job[a].seen
        /\ job'[a].filled = job[a].filled
    BY <1>1, <1>2, <1>3, GotoFacts DEF Steps, Asking
  <1>5. /\ order' \in [Signals -> RowType] /\ order'[o].filled = job[a].filled
        /\ \A r \in Signals : r # o => RowKept(r)
        /\ \A r \in Signals : /\ Accepted(r)' <=> Accepted(r)
                              /\ ~Accepted(r) => order'[r] = order[r]
    BY <1>2, BookRowRows
  <1>6. /\ copies' \in [Signals -> Int] /\ staged' \in [Signals -> {"none", "success", "cancelled"}]
        /\ \A r \in Signals : /\ staged'[r] \in {staged[r], "none"} /\ copies'[r] \in {copies[r], Expired}
    <2>1. CASE copies' = NothingLoaded /\ staged' = NothingStaged
      BY <2>1 DEF NothingLoaded, NothingStaged, Expired
    <2>2. CASE UNCHANGED <<copies, staged>>
      BY <1>3, <2>2 DEF Shape
    <2>3. QED
      BY <2>1, <2>2 DEF BookRow
  <1>7. Shape'
    BY <1>1, <1>3, <1>4, <1>5, <1>6 DEF Shape
  <1>8. Ctl'
    <2>1. a \in Signals => TaskCtl(a)'
      BY <1>1, <1>3, <1>4, <1>5 DEF Ctl, TaskCtl, Asking, Accepted
    <2>2. a = Poller => PollerCtl'
      BY <1>4 DEF PollerCtl
    <2>3. WatchCtl(a)'
      BY <1>3, <1>4, <1>5 DEF WatchCtl, Asking
    <2>4. \A r \in Signals : PassCtl(r)'
      BY <1>1, <1>3, <1>5, <1>6 DEF Ctl, PassCtl
    <2>5. \A r \in Signals : order[r].status \in {"none", "retrying"} => order'[r] = order[r]
      BY <1>5 DEF Accepted
    <2>6. QED
      BY <1>3, <1>4, <1>5, <2>1, <2>2, <2>3, <2>4, <2>5, CtlFrame, ActorFacts
  <1>9. BookInv'
    <2>1. \A r \in Signals : ~Accepted(r)' => booked'[r] = 0
      BY <1>1, <1>5 DEF IInv, BookInv
    <2>2. \A r \in Signals : PassQuiet(r)
      BY <1>1, <1>6 DEF PassQuiet, Has
    <2>3. ASSUME NEW r \in Signals \ raced', r # o PROVE BookOf(r)'
      <3>1. Quiet(r)
        BY <1>3, <1>4, <2>3, QuietStep
      <3>2. QED
        BY <1>1, <1>3, <1>5, <2>2, <2>3, <3>1, BookFrame DEF IInv, BookInv, VenueType
    <2>4. ASSUME o \notin raced' PROVE BookOf(o)'
      <3>1. BookOf(o)
        BY <1>1, <2>4 DEF IInv, BookInv
      <3>2. Memory(a, o) /\ Has(a, o)
        BY <1>2, <3>1 DEF BookOf, Has
      <3>3. \A w \in Watchers : Has(w, o)' => Has(w, o)
        BY <1>1, <1>2, <1>4, <1>6, ActorFacts DEF Has
      <3>4. \A w \in Watchers : w # a => job'[w].order # o
        BY <1>4, <3>1, <3>2, ActorFacts DEF BookOf, Has
      <3>5. o \notin batch'
        BY <1>1, <1>2, <3>1, <3>2, ActorFacts DEF BookOf, Has
      <3>6. booked[o] <= order[o].filled /\ booked[o] \in Int
        BY <1>3, <3>1 DEF BookOf, Shape
      <3>7. /\ job[a].seen = order[o].filled /\ job[a].seen < job[a].filled
            /\ job[a].filled <= venue[o].filled
        BY <1>1, <1>2, <3>2 DEF Memory
      <3>8. booked'[o] <= order'[o].filled /\ order'[o].filled <= venue'[o].filled
        BY <1>1, <1>3, <1>5, <3>6, <3>7
      <3>9. Memory(a, o)'
        BY <1>1, <1>4, <1>5, <3>6, <3>7 DEF Memory
      <3>10. \A w \in Watchers : Memory(w, o)'
        BY <3>4, <3>9 DEF Memory
      <3>11. QED
        BY <3>1, <3>3, <3>5, <3>8, <3>10 DEF BookOf
    <2>5. QED
      BY <2>1, <2>3, <2>4 DEF BookInv
  <1>10. QED
    BY <1>7, <1>8, <1>9 DEF IInv

\* The second.
LEMMA BookLedgerStep ==
  ASSUME IInv, NEW a \in Watchers, BookLedger(a)
  PROVE  IInv'
  <1> USE DEF pass, history
  <1>1. /\ job[a].step = "recorded" /\ job[a].step \in Asking /\ Goto(a, "answered")
        /\ UNCHANGED <<venue, order, batch, copies, staged, faults, raced>>
    BY DEF BookLedger, At, Asking
  <1>2. PICK o \in Signals : o = job[a].order
    BY <1>1, Watches
  <1>3. /\ Shape /\ Ctl /\ a \in Actors /\ Accepted(o) /\ job[a].seen \in Int /\ job[a].filled \in Nat
        /\ \A r \in Signals : venue[r].filled \in Nat /\ order[r].filled \in Nat
    BY <1>1, <1>2, Watches, JobHas DEF IInv
  <1>4. /\ job' \in [Actors -> JobType] /\ \A b \in Actors : b # a => job'[b] = job[b]
        /\ job'[a].step = "answered" /\ job'[a].order = o
    BY <1>1, <1>2, <1>3, GotoFacts DEF Steps, Asking
  <1> DEFINE newly == job[a].filled - job[a].seen
  <1>5. newly \in Int /\ net' = net + Signed(o, newly) /\ booked' = [booked EXCEPT ![o] = booked[o] + newly]
    BY <1>2, <1>3 DEF BookLedger
  <1> HIDE DEF newly
  <1>6. net' \in Int
    BY <1>3, <1>5 DEF Shape, Signed
  <1>7. /\ booked' \in [Signals -> Int] /\ booked'[o] = booked[o] + newly
        /\ \A r \in Signals : r # o => booked'[r] = booked[r]
    BY <1>3, <1>5 DEF Shape
  <1>8. Shape'
    BY <1>1, <1>3, <1>4, <1>6, <1>7 DEF Shape
  <1>9. \A r \in Signals : RowKept(r) /\ PassQuiet(r)
    BY <1>1, SameRows
  <1>10. Ctl'
    <2>1. a \in Signals => TaskCtl(a)'
      BY <1>1, <1>3, <1>4 DEF Ctl, TaskCtl, Asking
    <2>2. a = Poller => PollerCtl'
      BY <1>4 DEF PollerCtl
    <2>3. WatchCtl(a)'
      BY <1>3, <1>4, <1>9 DEF WatchCtl, Asking, RowKept
    <2>4. \A r \in Signals : PassCtl(r)' /\ (Accepted(r) => Accepted(r)')
      BY <1>1, <1>3, <1>9 DEF Ctl, PassCtl, RowKept
    <2>5. QED
      BY <1>1, <1>3, <1>4, <2>1, <2>2, <2>3, <2>4, CtlFrame, ActorFacts
  <1>11. BookInv'
    <2>1. \A r \in Signals : ~Accepted(r)' => booked'[r] = 0
      BY <1>3, <1>7, <1>9 DEF IInv, BookInv, RowKept
    <2>2. ASSUME NEW r \in Signals \ raced', r # o PROVE BookOf(r)'
      <3>1. Quiet(r)
        BY <1>3, <1>4, <2>2, QuietStep
      <3>2. QED
        BY <1>1, <1>3, <1>7, <1>9, <2>2, <3>1, BookFrame DEF IInv, BookInv, VenueType
    <2>3. ASSUME o \notin raced' PROVE BookOf(o)'
      <3>1. BookOf(o)
        BY <1>1, <2>3 DEF IInv, BookInv
      <3>2. Memory(a, o) /\ Has(a, o)
        BY <1>2, <3>1 DEF BookOf, Has
      <3>3. \A w \in Watchers : Has(w, o)' => Has(w, o)
        BY <1>1, <1>2, <1>4, ActorFacts DEF Has
      <3>4. \A w \in Watchers : w # a => job'[w].order # o
        BY <1>4, <3>1, <3>2, ActorFacts DEF BookOf, Has
      <3>5. o \notin batch'
        BY <1>1, <1>2, <3>1, <3>2, ActorFacts DEF BookOf, Has
      <3>6. job[a].filled = order[o].filled /\ booked[o] <= job[a].seen /\ booked[o] \in Int
        BY <1>1, <1>2, <1>3, <3>2 DEF Memory, Shape
      <3>7. booked[o] + newly <= order[o].filled
        BY <1>3, <3>6 DEF newly
      <3>8. booked'[o] <= order'[o].filled /\ order'[o].filled <= venue'[o].filled
        BY <1>1, <1>3, <1>7, <3>1, <3>7 DEF BookOf
      <3>9. \A w \in Watchers : Memory(w, o)'
        BY <1>4, <3>4 DEF Memory
      <3>10. QED
        BY <3>1, <3>3, <3>5, <3>8, <3>9 DEF BookOf
    <2>4. QED
      BY <2>1, <2>2, <2>3 DEF BookInv
  <1>12. QED
    BY <1>8, <1>10, <1>11 DEF IInv
----------------------------------------------------------------------------
(* The poller's pass, and restarts. *)

\* The rows of all working orders are loaded.
LEMMA ScanStep ==
  ASSUME IInv, Scan
  PROVE  IInv'
  <1> USE ActorFacts DEF pass, history
  <1>1. /\ job[Poller].step = "idle" /\ job[Poller].order = None /\ Shape /\ Ctl /\ BookInv
        /\ Goto(Poller, "polling") /\ batch' = Working
        /\ copies' = [o \in Signals |-> IF o \in Working THEN order[o].filled ELSE Expired]
        /\ raced' = raced \cup {o \in Working : \E d \in Signals : Holds(d, o)}
        /\ UNCHANGED <<venue, order, net, staged, faults, booked>>
    BY DEF Scan, At, IInv, Ctl, WatchCtl
  <1>2. /\ job' \in [Actors -> JobType] /\ \A b \in Actors : b # Poller => job'[b] = job[b]
        /\ job'[Poller].step = "polling" /\ job'[Poller].order = None
    BY <1>1, GotoFacts DEF Steps
  <1>3. /\ Working \subseteq Signals /\ \A o \in Working : Accepted(o)
        /\ \A o \in Signals : order[o].filled \in Nat /\ venue[o].filled \in Nat
    BY <1>1 DEF Working, Ctl, PassCtl, Shape, RowType, VenueType
  <1>4. Shape'
    <2>1. copies' \in [Signals -> Int]
      BY <1>1, <1>3 DEF Expired
    <2>2. QED
      BY <1>1, <1>2, <1>3, <2>1 DEF Shape
  <1>5. \A o \in Signals : RowKept(o) /\ (Accepted(o) => Accepted(o)')
    BY <1>1 DEF RowKept, Accepted
  <1>6. Ctl'
    <2>1. PollerCtl' /\ WatchCtl(Poller)'
      BY <1>2 DEF PollerCtl, WatchCtl, Asking
    <2>2. \A o \in Signals : PassCtl(o)'
      BY <1>1, <1>3, <1>5 DEF Ctl, PassCtl
    <2>3. QED
      BY <1>1, <1>2, <1>5, <2>1, <2>2, CtlFrame
  <1>7. BookInv'
    <2>1. \A o \in Signals : ~Accepted(o)' => booked'[o] = 0
      BY <1>1, <1>5 DEF BookInv, RowKept
    <2>2. ASSUME NEW o \in Signals \ raced', o \notin Working PROVE BookOf(o)'
      <3>1. PassQuiet(o)
        BY <1>1, <2>2 DEF PassQuiet, Has
      <3>2. Quiet(o)
        BY <1>2, QuietStep
      <3>3. BookOf(o)
        BY <1>1 DEF BookInv
      <3>4. QED
        BY <1>1, <1>3, <1>5, <3>1, <3>2, <3>3, BookFrame
    <2>3. ASSUME NEW o \in Signals \ raced', o \in Working PROVE BookOf(o)'
      <3>1. BookOf(o) /\ \A d \in Signals : ~Holds(d, o)
        BY <1>1, <2>3 DEF BookInv
      <3>2. \A d \in Signals : job[d].order # o
        BY <1>1, <3>1 DEF Holds, Ctl, WatchCtl
      <3>3. \A w \in Watchers : job'[w].order # o
        BY <1>2, <3>2 DEF Watchers
      <3>4. \A w \in Watchers : Has(w, o)' => w = Poller
        BY <3>3 DEF Has
      <3>5. copies'[o] = order'[o].filled
        BY <1>1, <2>3
      <3>6. QED
        BY <1>1, <1>5, <3>1, <3>3, <3>4, <3>5 DEF BookOf, Memory, RowKept
    <2>4. QED
      BY <2>1, <2>2, <2>3 DEF BookInv
  <1>8. QED
    BY <1>4, <1>6, <1>7 DEF IInv

\* The next order of the pass.
LEMMA PollNextStep ==
  ASSUME IInv, PollNext
  PROVE  IInv'
  <1> USE ActorFacts DEF pass, history
  <1>1. /\ job[Poller].step = "polling" /\ job[Poller].order = None /\ Shape /\ Ctl /\ BookInv
        /\ UNCHANGED <<venue, order, net, copies, staged, faults, booked, raced>>
    BY DEF PollNext, At, IInv, Ctl, WatchCtl
  <1>2. PICK o \in batch :
           /\ batch' = batch \ {o}
           /\ job' = [job EXCEPT ![Poller] =
                [Idle EXCEPT !.step = "asking", !.order = o,
                             !.seen = IF copies[o] = Expired THEN order[o].filled ELSE copies[o]]]
    BY DEF PollNext
  <1> DEFINE n == IF copies[o] = Expired THEN order[o].filled ELSE copies[o]
             j == J("asking", o, n, "unknown", 0, 0)
  <1>3. o \in Signals /\ n \in Int /\ Accepted(o)
        /\ \A r \in Signals : order[r].filled \in Nat /\ venue[r].filled \in Nat
    BY <1>1 DEF Shape, RowType, VenueType, Ctl, PassCtl
  <1>4. o \notin raced => n = order[o].filled
    BY <1>1, <1>3 DEF BookInv, BookOf
  <1>5. job' = [job EXCEPT ![Poller] = [Idle EXCEPT !.step = "asking", !.order = o, !.seen = n]]
    BY <1>2
  <1> HIDE DEF n
  <1>6. [Idle EXCEPT !.step = "asking", !.order = o, !.seen = n] = j
    BY AskFields
  <1>7. j \in JobType /\ j.step = "asking" /\ j.order = o /\ j.seen = n
    BY <1>3 DEF J, JobType, Asking
  <1> HIDE DEF j
  <1>8. /\ job' \in [Actors -> JobType] /\ \A b \in Actors : b # Poller => job'[b] = job[b]
        /\ job'[Poller].step = "asking" /\ job'[Poller].order = o /\ job'[Poller].seen = n
    BY <1>1, <1>5, <1>6, <1>7, JobChanges
  <1>9. Shape'
    BY <1>1, <1>2, <1>8 DEF Shape
  <1>10. \A r \in Signals : RowKept(r) /\ PassQuiet(r) /\ (Accepted(r) => Accepted(r)')
    BY <1>1, <1>2 DEF RowKept, PassQuiet, Accepted, Has
  <1>11. Ctl'
    <2>1. PollerCtl' /\ WatchCtl(Poller)'
      BY <1>3, <1>8, <1>10 DEF PollerCtl, WatchCtl, Asking
    <2>2. \A r \in Signals : PassCtl(r)'
      BY <1>1, <1>2, <1>10 DEF Ctl, PassCtl
    <2>3. QED
      BY <1>1, <1>8, <1>10, <2>1, <2>2, CtlFrame
  <1>12. BookInv'
    <2>1. \A r \in Signals : ~Accepted(r)' => booked'[r] = 0
      BY <1>1, <1>10 DEF BookInv, RowKept
    <2>2. ASSUME NEW r \in Signals \ raced', r # o PROVE BookOf(r)'
      <3>1. Quiet(r)
        BY <1>8, <2>2, QuietStep
      <3>2. QED
        BY <1>1, <1>3, <1>10, <2>2, <3>1, BookFrame DEF BookInv
    <2>3. ASSUME o \notin raced' PROVE BookOf(o)'
      <3>1. BookOf(o) /\ Has(Poller, o)
        BY <1>1, <1>2, <1>3, <2>3 DEF BookInv, Has
      <3>2. \A w \in Watchers : Has(w, o)' => Has(w, o)
        BY <1>1, <1>2, <1>8, <3>1 DEF Has
      <3>3. \A w \in Watchers : w # Poller => job'[w].order # o
        BY <1>8, <3>1 DEF BookOf, Has
      <3>4. Memory(Poller, o)'
        BY <1>1, <1>4, <1>8, <2>3 DEF Memory
      <3>5. \A w \in Watchers : Memory(w, o)'
        BY <3>3, <3>4 DEF Memory
      <3>6. QED
        BY <1>1, <1>2, <1>3, <1>10, <3>1, <3>2, <3>5 DEF BookOf, RowKept
    <2>4. QED
      BY <2>1, <2>2, <2>3 DEF BookInv
  <1>13. QED
    BY <1>9, <1>11, <1>12 DEF IInv

\* A pass that rests between orders, or ends.
LEMMA PassRests ==
  ASSUME IInv, NEW s \in {"polling", "idle"}, job'[Poller].step = s, job'[Poller].order = None,
         job' \in [Actors -> JobType], \A b \in Actors : b # Poller => job'[b] = job[b],
         order' \in [Signals -> RowType], \A o \in Signals : RowKept(o),
         staged' \in [Signals -> {"none", "success", "cancelled"}], copies' \in [Signals -> Int],
         \A o \in Signals : PassQuiet(o), batch' \subseteq batch, faults' \in Nat,
         UNCHANGED <<venue, net, booked, raced>>
  PROVE  IInv'
  <1> USE ActorFacts
  <1>1. Shape'
    BY DEF IInv, Shape
  <1>2. Ctl'
    <2>1. PollerCtl' /\ WatchCtl(Poller)'
      BY DEF PollerCtl, WatchCtl, Asking
    <2>2. ASSUME NEW o \in Signals PROVE PassCtl(o)'
      <3>1. PassCtl(o) /\ RowKept(o) /\ PassQuiet(o)
        BY DEF IInv, Ctl
      <3>2. Has(Poller, o) => Accepted(o)
        BY DEF Has, IInv, Ctl, PassCtl, WatchCtl
      <3>3. o \in batch' => Has(Poller, o)
        BY DEF Has
      <3>4. QED
        BY <3>1, <3>2, <3>3, PassFrame DEF PassQuiet
    <2>3. \A o \in Signals : /\ Accepted(o) => Accepted(o)'
                             /\ order[o].status \in {"none", "retrying"} => order'[o] = order[o]
      BY DEF RowKept, Accepted
    <2>4. QED
      BY <2>1, <2>2, <2>3, CtlFrame DEF IInv
  <1>3. BookInv'
    <2>1. \A o \in Signals : Quiet(o)
      BY QuietStep
    <2>2. venue' \in [Signals -> VenueType] /\ \A o \in Signals : venue[o].filled <= venue'[o].filled
      BY DEF IInv, Shape, VenueType
    <2>3. QED
      BY <2>1, <2>2, BooksFrame DEF IInv
  <1>4. QED
    BY <1>1, <1>2, <1>3 DEF IInv

\* The end of _poll_one.
LEMMA PollVerdictStep ==
  ASSUME IInv, PollVerdict
  PROVE  IInv'
  <1> USE ActorFacts DEF pass, history
  <1>1. /\ job[Poller].step = "answered" /\ job[Poller].step \in Asking /\ Shape
        /\ UNCHANGED <<venue, order, net, batch, copies, faults, booked, raced>>
    BY DEF PollVerdict, At, IInv, Asking
  <1>2. PICK o \in Signals : o = job[Poller].order
    BY <1>1, Watches
  <1> DEFINE j == J("polling", None, 0, "unknown", 0, 0)
  <1>3. [Idle EXCEPT !.step = "polling"] = j
    BY RestFields
  <1>4. j \in JobType /\ j.step = "polling" /\ j.order = None
    BY DEF J, JobType
  <1> HIDE DEF j
  <1>5. /\ job' \in [Actors -> JobType] /\ \A b \in Actors : b # Poller => job'[b] = job[b]
        /\ job'[Poller].step = "polling" /\ job'[Poller].order = None
    <2>1. job' = [job EXCEPT ![Poller] = j]
      BY <1>3 DEF PollVerdict
    <2>2. QED
      BY <1>1, <1>4, <2>1, JobChanges
  <1>6. /\ staged' \in [Signals -> {"none", "success", "cancelled"}]
        /\ \A r \in Signals : r # o => staged'[r] = staged[r]
    BY <1>1, <1>2 DEF PollVerdict, Shape
  <1>7. \A r \in Signals : RowKept(r) /\ PassQuiet(r)
    BY <1>1, <1>2, <1>6 DEF RowKept, PassQuiet, Accepted, Has
  <1>8. faults' \in Nat /\ batch' \subseteq batch
    BY <1>1 DEF Shape
  <1>9. QED
    BY <1>1, <1>5, <1>6, <1>7, <1>8, PassRests DEF Shape

\* The pass ends with a commit.
LEMMA EndPassStep ==
  ASSUME IInv, EndPass
  PROVE  IInv'
  <1> USE ActorFacts DEF pass, history
  <1>1. /\ Shape /\ order' = Flushed(Poller) /\ Leave(Poller)
        /\ copies' = NothingLoaded /\ staged' = NothingStaged
        /\ UNCHANGED <<venue, net, batch, faults, booked, raced>>
    BY DEF EndPass, IInv
  <1>2. order' \in [Signals -> RowType] /\ \A o \in Signals : RowKept(o)
    BY <1>1, FlushKeeps DEF IInv
  <1>3. /\ job' \in [Actors -> JobType] /\ \A b \in Actors : b # Poller => job'[b] = job[b]
        /\ job'[Poller].step = "idle" /\ job'[Poller].order = None
    BY <1>1, LeaveFacts
  <1>4. \A o \in Signals : PassQuiet(o)
    BY <1>1 DEF PassQuiet, NothingLoaded, NothingStaged
  <1>5. staged' \in [Signals -> {"none", "success", "cancelled"}] /\ copies' \in [Signals -> Int]
    BY <1>1 DEF NothingLoaded, NothingStaged, Expired
  <1>6. faults' \in Nat /\ batch' \subseteq batch
    BY <1>1 DEF Shape
  <1>7. QED
    BY <1>1, <1>2, <1>3, <1>4, <1>5, <1>6, PassRests

\* The ledger's commit is lost: the session goes on without it.
LEMMA DropBookingStep ==
  ASSUME IInv, NEW a \in Actors, DropBooking(a)
  PROVE  IInv'
  <1> USE ActorFacts DEF pass
  <1>1. /\ job[a].step = "recorded" /\ job[a].step \in Asking /\ Shape /\ a \in Watchers
        /\ UNCHANGED <<venue, order, net, batch, copies, staged, booked, raced>>
        /\ faults' \in Nat
    BY DEF DropBooking, At, IInv, Asking, Executing, Ctl, WorkerCtl, Shape
  <1>2. CASE a = Poller
    <2> DEFINE j == J("polling", None, 0, "unknown", 0, 0)
    <2>1. [Idle EXCEPT !.step = "polling"] = j
      BY RestFields
    <2>2. j \in JobType /\ j.step = "polling" /\ j.order = None
      BY DEF J, JobType
    <2> HIDE DEF j
    <2>3. job' = [job EXCEPT ![Poller] = j]
      BY <1>2, <2>1 DEF DropBooking
    <2>4. /\ job' \in [Actors -> JobType] /\ \A b \in Actors : b # Poller => job'[b] = job[b]
          /\ job'[Poller].step = "polling" /\ job'[Poller].order = None
      BY <1>1, <2>2, <2>3, JobChanges
    <2>5. \A o \in Signals : RowKept(o) /\ PassQuiet(o)
      BY <1>1, SameRows
    <2>6. QED
      BY <1>1, <2>4, <2>5, PassRests DEF Shape
  <1>3. CASE a \in Signals
    <2>1. Goto(a, "answered")
      BY <1>3 DEF DropBooking, Goto
    <2>2. /\ job' \in [Actors -> JobType] /\ \A b \in Actors : b # a => job'[b] = job[b]
          /\ job'[a].step = "answered" /\ job'[a].order = job[a].order
      BY <1>1, <2>1, GotoFacts DEF Steps, Asking
    <2>3. order[a].status = "none"
      BY <1>1, <1>3 DEF IInv, Ctl, TaskCtl
    <2>4. TaskCtl(a)' /\ WatchCtl(a)'
      BY <1>1, <1>3, <2>2, <2>3 DEF TaskCtl, WatchCtl, Asking, Accepted, IInv, Ctl
    <2>5. venue' \in [Signals -> VenueType] /\ \A o \in Signals : venue[o].filled <= venue'[o].filled
      BY <1>1 DEF Shape, VenueType
    <2>6. QED
      BY <1>1, <1>3, <2>2, <2>4, <2>5, JobOnly DEF Shape
  <1>4. QED
    BY <1>1, <1>2, <1>3 DEF Watchers

\* An exception ends a session.
LEMMA SessionRaisesStep ==
  ASSUME IInv, NEW a \in Actors, SessionRaises(a)
  PROVE  IInv'
  <1> USE ActorFacts DEF pass, history
  <1>1. /\ Shape /\ Leave(a) /\ faults' \in Nat /\ UNCHANGED <<venue, order, net, booked, raced>>
    BY DEF SessionRaises, IInv, Shape
  <1>2. /\ job' \in [Actors -> JobType] /\ \A b \in Actors : b # a => job'[b] = job[b]
        /\ job'[a].step = (IF a \in Signals THEN "done" ELSE "idle") /\ job'[a].order = None
    BY <1>1, LeaveFacts
  <1>3. CASE a = Poller
    <2>1. batch' = {} /\ copies' = NothingLoaded /\ staged' = NothingStaged
      BY <1>3 DEF SessionRaises
    <2>2. /\ staged' \in [Signals -> {"none", "success", "cancelled"}] /\ copies' \in [Signals -> Int]
          /\ \A o \in Signals : staged'[o] = "none" /\ copies'[o] = Expired
      BY <2>1 DEF NothingLoaded, NothingStaged, Expired
    <2>3. \A o \in Signals : RowKept(o) /\ PassQuiet(o)
      BY <1>1, <2>1, <2>2 DEF RowKept, PassQuiet, Accepted
    <2>4. QED
      BY <1>1, <1>2, <1>3, <2>1, <2>2, <2>3, PassRests DEF Shape
  <1>4. CASE a # Poller
    <2>1. UNCHANGED <<batch, copies, staged>>
      BY <1>4 DEF SessionRaises
    <2>2. venue' \in [Signals -> VenueType] /\ \A o \in Signals : venue[o].filled <= venue'[o].filled
      BY <1>1 DEF Shape, VenueType
    <2>3. a \in Signals => TaskCtl(a)' /\ WatchCtl(a)'
      BY <1>2 DEF TaskCtl, WatchCtl, Asking
    <2>4. a = Worker => WorkerCtl'
      BY <1>2 DEF WorkerCtl
    <2>5. QED
      BY <1>1, <1>2, <1>4, <2>1, <2>2, <2>3, <2>4, JobOnly DEF Shape, Watchers
  <1>5. QED
    BY <1>3, <1>4

\* The process dies and restarts.
LEMMA CrashStep ==
  ASSUME IInv, Crash
  PROVE  IInv'
  <1> USE ActorFacts DEF pass, history
  <1>1. /\ Shape /\ Ctl /\ BookInv /\ faults' = faults + 1
        /\ batch' = {} /\ copies' = NothingLoaded /\ staged' = NothingStaged
        /\ UNCHANGED <<venue, order, net, booked, raced>>
    BY DEF Crash, IInv
  <1>2. /\ job' \in [Actors -> JobType]
        /\ \A a \in Actors : /\ job'[a].order = None
                             /\ job'[a].step = IF a \in Signals /\ job[a].step # "idle"
                                               THEN "done" ELSE "idle"
    <2> DEFINE j(a) == IF a \in Signals /\ job[a].step # "idle"
                       THEN [Idle EXCEPT !.step = "done"] ELSE Idle
    <2>1. [Idle EXCEPT !.step = "done"] = J("done", None, 0, "unknown", 0, 0)
      BY RestFields
    <2>2. Idle = J("idle", None, 0, "unknown", 0, 0)
      BY IdleIsJ
    <2>3. /\ J("done", None, 0, "unknown", 0, 0) \in JobType
          /\ J("done", None, 0, "unknown", 0, 0).step = "done"
          /\ J("done", None, 0, "unknown", 0, 0).order = None
          /\ J("idle", None, 0, "unknown", 0, 0) \in JobType
          /\ J("idle", None, 0, "unknown", 0, 0).step = "idle"
          /\ J("idle", None, 0, "unknown", 0, 0).order = None
      BY DEF J, JobType
    <2>4. \A a \in Actors :
            /\ j(a) \in JobType /\ j(a).order = None
            /\ j(a).step = IF a \in Signals /\ job[a].step # "idle" THEN "done" ELSE "idle"
      BY <2>1, <2>2, <2>3
    <2>5. job' = [a \in Actors |-> j(a)]
      BY DEF Crash
    <2> HIDE DEF j
    <2>6. job' \in [Actors -> JobType] /\ \A a \in Actors : job'[a] = j(a)
      BY <2>4, <2>5
    <2>7. QED
      BY <2>4, <2>6
  <1>3. /\ staged' \in [Signals -> {"none", "success", "cancelled"}] /\ copies' \in [Signals -> Int]
        /\ \A o \in Signals : staged'[o] = "none" /\ copies'[o] = Expired
    BY <1>1 DEF NothingLoaded, NothingStaged, Expired
  <1>4. Shape'
    BY <1>1, <1>2, <1>3 DEF Shape
  <1>5. \A o \in Signals : RowKept(o) /\ PassQuiet(o) /\ Quiet(o)
    BY <1>1, <1>2, <1>3 DEF RowKept, PassQuiet, Quiet, Accepted
  <1>6. Ctl'
    <2>1. ASSUME NEW d \in Signals PROVE TaskCtl(d)'
      BY <1>1, <1>2 DEF Ctl, TaskCtl
    <2>2. PollerCtl' /\ WorkerCtl'
      BY <1>2 DEF PollerCtl, WorkerCtl
    <2>3. ASSUME NEW w \in Watchers PROVE WatchCtl(w)'
      BY <1>2 DEF WatchCtl, Asking
    <2>4. ASSUME NEW o \in Signals PROVE PassCtl(o)'
      BY <1>1, <1>3 DEF Ctl, PassCtl, Accepted
    <2>5. QED
      BY <2>1, <2>2, <2>3, <2>4 DEF Ctl
  <1>7. BookInv'
    <2>1. venue' \in [Signals -> VenueType] /\ \A o \in Signals : venue[o].filled <= venue'[o].filled
      BY <1>1 DEF Shape, VenueType
    <2>2. QED
      BY <1>1, <1>5, <2>1, BooksFrame
  <1>8. QED
    BY <1>4, <1>6, <1>7 DEF IInv
----------------------------------------------------------------------------
\* Every step keeps the invariant.
LEMMA StepInv == IInv /\ [Next]_vars => IInv'
  <1> SUFFICES ASSUME IInv, [Next]_vars PROVE IInv'
    OBVIOUS
  <1> USE ActorFacts
  <1>1. CASE \E d \in Signals : VenueFill(d) \/ VenueCancels(d) \/ Task(d)
    <2>1. PICK d \in Signals : VenueFill(d) \/ VenueCancels(d) \/ Task(d)
      BY <1>1
    <2>2. d \in Watchers /\ d \in Signals \cup {Worker}
      OBVIOUS
    <2>3. CASE VenueFill(d) \/ VenueCancels(d)
      BY <2>3, VenueStep
    <2>4. CASE Look(d) \/ Cancel(d) \/ AfterCancel(d) \/ Decide(d)
      BY <2>4, LookStep, CancelStep, AfterCancelStep, DecideStep
    <2>5. CASE Observe(d)
      BY <2>2, <2>5, ReadFillsStep, ReadStateStep, BookRowStep, BookLedgerStep DEF Observe
    <2>6. CASE Execute(d)
      BY <2>2, <2>6, OrderStep, ResultStep, BookCloseStep DEF Execute
    <2>7. QED
      BY <2>1, <2>3, <2>4, <2>5, <2>6 DEF Task
  <1>2. CASE Replay \/ Execute(Worker)
    BY <1>2, ReplayStep, OrderStep, ResultStep, BookCloseStep DEF Execute
  <1>3. CASE Scan
    BY <1>3, ScanStep
  <1>4. CASE Poll
    BY <1>4, PollNextStep, PollVerdictStep, EndPassStep, ReadFillsStep, ReadStateStep, BookRowStep,
       BookLedgerStep DEF Poll, Observe
  <1>5. CASE \E a \in Actors : DropBooking(a) \/ SessionRaises(a)
    BY <1>5, DropBookingStep, SessionRaisesStep
  <1>6. CASE Crash
    BY <1>6, CrashStep
  <1>7. CASE UNCHANGED vars
    BY <1>7 DEF vars, pass, history, IInv, Shape, Ctl, TaskCtl, PollerCtl, WorkerCtl, WatchCtl, PassCtl,
                Accepted, BookInv, BookOf, Has, Memory
  <1>8. QED
    BY <1>1, <1>2, <1>3, <1>4, <1>5, <1>6, <1>7 DEF Next

\* Who is where, and what every session remembers of the orders it has in hand.
THEOREM Invariant == Spec => []IInv
  <1>1. IInv /\ [Next]_vars => IInv'
    BY StepInv
  <1>2. QED
    BY InitInv, <1>1, PTL DEF Spec

\* book_limit_fill_delta takes no more of an order than the venue filled, whatever the size, the
\* restarts and the partial fills, unless two sessions handled the order at the same time.
THEOREM NeverOverbooked == Spec => []NoOverbooking
  <1>1. IInv => NoOverbooking
    <2> SUFFICES ASSUME IInv, NEW o \in Signals \ raced PROVE booked[o] <= venue[o].filled
      BY DEF NoOverbooking
    <2>1. venue[o].filled \in Nat /\ order[o].filled \in Nat /\ booked[o] \in Int
      BY DEF IInv, Shape, VenueType, RowType
    <2>2. CASE Accepted(o)
      BY <2>1, <2>2 DEF IInv, BookInv, BookOf
    <2>3. CASE ~Accepted(o)
      BY <2>1, <2>3 DEF IInv, BookInv
    <2>4. QED
      BY <2>2, <2>3
  <1>2. QED
    BY Invariant, <1>1, PTL
----------------------------------------------------------------------------
(* Settled orders are booked in full. *)

Complete(o) == venue[o].state \in Gone /\ booked[o] = venue[o].filled
Recorded(a, o) == job[a].order = o /\ job[a].step = "recorded"

\* The ledger has what the row says, but between the two commits.
InStep(o) == Accepted(o) => booked[o] = order[o].filled \/ \E w \in Watchers : Recorded(w, o)
\* What a terminal answer is worth to the session that has it.
Knows(a, o) ==
    job[a].order = o =>
       /\ job[a].step = "answered" /\ job[a].state \in Gone => Complete(o)
       /\ job[a].step \in {"booking", "recorded"} /\ job[a].state \in Gone =>
             venue[o].state \in Gone /\ job[a].filled = venue[o].filled
       /\ job[a].step = "recorded" => booked[o] = job[a].seen /\ job[a].seen <= job[a].filled
       /\ job[a].step \in Executing /\ o \notin blind => Complete(o)
SettleOf(o) == /\ InStep(o)
               /\ \A w \in Watchers : Knows(w, o)
               /\ Ends(o) /\ o \notin blind => Complete(o)
\* Orders the ledger may have less of than the venue: two sessions at once, a terminal answer with
\* fewer fills than the venue had, a booking lost between its two commits.
Off == raced \cup misread \cup dropped
SettleInv == \A o \in Signals \ Off : SettleOf(o)

\* What a step does to an order when it books nothing.
Stays(o) ==
    /\ venue[o].state \in Gone => venue'[o] = venue[o]
    /\ booked'[o] = booked[o]
    /\ Accepted(o)' => \/ Accepted(o) /\ order'[o].filled = order[o].filled
                       \/ booked[o] = order'[o].filled
    /\ o \in blind => o \in blind'
    /\ o \notin blind' /\ Ends(o)' => Ends(o) \/ Complete(o)

\* Rows that stay.
LEMMA StaysSame ==
  ASSUME UNCHANGED <<order, staged, booked>>, blind \subseteq blind',
         NEW o \in Signals, venue[o].state \in Gone => venue'[o] = venue[o]
  PROVE  Stays(o)
  BY DEF Stays, Ends, Accepted

\* One actor steps, and books nothing.
LEMMA SettleFrame ==
  ASSUME NEW o \in Signals, SettleOf(o), Stays(o),
         NEW a \in Actors, \A b \in Actors : b # a => job'[b] = job[b],
         a \in Watchers => ~Recorded(a, o) /\ Knows(a, o)'
  PROVE  SettleOf(o)'
  <1> USE ActorFacts
  <1>1. Complete(o) => Complete(o)'
    BY DEF Complete, Stays
  <1>2. ASSUME NEW w \in Watchers, w # a PROVE Knows(w, o)'
    <2>1. job'[w] = job[w] /\ Knows(w, o)
      BY <1>2 DEF SettleOf
    <2>2. o \notin blind' => o \notin blind
      BY DEF Stays
    <2>3. booked'[o] = booked[o] /\ (venue[o].state \in Gone => venue'[o] = venue[o])
      BY DEF Stays
    <2>4. QED
      BY <1>1, <2>1, <2>2, <2>3 DEF Knows
  <1>3. InStep(o)'
    <2>1. \A w \in Watchers : Recorded(w, o) => Recorded(w, o)'
      BY DEF Recorded
    <2>2. QED
      BY <2>1 DEF InStep, SettleOf, Stays
  <1>4. Ends(o)' /\ o \notin blind' => Complete(o)'
    BY <1>1 DEF SettleOf, Stays
  <1>5. QED
    BY <1>2, <1>3, <1>4 DEF SettleOf

\* What the session that steps knows of an order that it has not in hand, has just begun to ask
\* about, or was through with.
LEMMA KnowsFrame ==
  ASSUME NEW o \in Signals, NEW a \in Watchers, SettleOf(o), Stays(o),
         \/ job'[a].order # o
         \/ job'[a].step \in {"cancelling", "asking", "reading"}
         \/ job'[a].step \in Executing /\ job[a].step \in Executing /\ job[a].order = o
  PROVE  Knows(a, o)'
  <1>1. Complete(o) => Complete(o)'
    BY DEF Complete, Stays
  <1>2. QED
    BY <1>1 DEF SettleOf, Stays, Knows, Executing

\* All orders.
LEMMA SettleStep ==
  ASSUME SettleInv, Off \subseteq Off',
         NEW a \in Actors, \A b \in Actors : b # a => job'[b] = job[b],
         \A o \in Signals : SettleOf(o) => Stays(o),
         a \in Watchers => job[a].step # "recorded",
         \A o \in Signals : a \in Watchers /\ SettleOf(o) => Knows(a, o)'
  PROVE  SettleInv'
  <1> SUFFICES ASSUME NEW o \in Signals \ Off' PROVE SettleOf(o)'
    BY DEF SettleInv
  <1>1. SettleOf(o)
    BY DEF SettleInv
  <1>2. QED
    BY <1>1, SettleFrame DEF Recorded

\* The venue.
LEMMA VenueSettles ==
  ASSUME IInv, SettleInv, NEW o \in Signals, VenueFill(o) \/ VenueCancels(o)
  PROVE  SettleInv'
  <1> USE DEF pass, history, Off
  <1>1. UNCHANGED <<order, net, job, batch, copies, staged, booked, raced, blind, misread, dropped>>
    BY DEF VenueFill, VenueCancels
  <1>2. \A r \in Signals : venue[r].state \in Gone => venue'[r] = venue[r]
    BY DEF VenueFill, VenueCancels, IInv, Shape, Gone
  <1>3. \A r \in Signals : Stays(r)
    BY <1>1, <1>2, StaysSame
  <1>4. QED
    BY <1>1, <1>3, SettleStep, ActorFacts

\* _find_working_entry.
LEMMA LookSettles ==
  ASSUME IInv, SettleInv, NEW d \in Signals, Look(d)
  PROVE  SettleInv'
  <1> USE ActorFacts DEF pass, history, Off
  <1>1. /\ job[d].step = "idle" /\ job[d].order = None /\ Shape
        /\ UNCHANGED <<venue, order, net, batch, copies, staged, booked, blind, misread, dropped>>
        /\ raced \subseteq raced'
    BY DEF Look, At, IInv, Ctl, WatchCtl
  <1>2. /\ \A b \in Actors : b # d => job'[b] = job[b]
        /\ job'[d].order = None \/ job'[d].step = "cancelling"
    <2>1. CASE Goto(d, "deciding")
      BY <1>1, <2>1, GotoFacts DEF Steps, Executing
    <2>2. CASE Leave(d)
      BY <1>1, <2>2, LeaveFacts
    <2>3. ASSUME NEW o \in Signals,
                 job' = [job EXCEPT ![d] = [Idle EXCEPT !.step = "cancelling", !.order = o,
                                                        !.seen = order[o].filled]]
          PROVE  (\A b \in Actors : b # d => job'[b] = job[b]) /\ job'[d].step = "cancelling"
      <3> DEFINE j == J("cancelling", o, order[o].filled, "unknown", 0, 0)
      <3>1. [Idle EXCEPT !.step = "cancelling", !.order = o, !.seen = order[o].filled] = j
        BY AskFields
      <3>2. j.step = "cancelling"
        BY DEF J
      <3> HIDE DEF j
      <3>3. job' = [job EXCEPT ![d] = j]
        BY <2>3, <3>1
      <3>4. QED
        BY <1>1, <3>2, <3>3, JobSet
    <2>4. QED
      BY <2>1, <2>2, <2>3 DEF Look, Working
  <1>3. \A o \in Signals : Stays(o)
    BY <1>1, StaysSame
  <1>4. \A o \in Signals : SettleOf(o) => Knows(d, o)'
    BY <1>2, <1>3, KnowsFrame
  <1>5. QED
    BY <1>1, <1>2, <1>3, <1>4, SettleStep

\* cancel_order.
LEMMA CancelSettles ==
  ASSUME IInv, SettleInv, NEW d \in Signals, Cancel(d)
  PROVE  SettleInv'
  <1> USE ActorFacts DEF pass, history, Off
  <1>1. /\ job[d].step = "cancelling" /\ Shape /\ Goto(d, "asking")
        /\ UNCHANGED <<order, net, batch, copies, staged, booked, raced, blind, misread, dropped>>
    BY DEF Cancel, At, IInv
  <1>2. \A b \in Actors : b # d => job'[b] = job[b]
    BY <1>1, GotoFacts DEF Steps, Asking
  <1>3. job'[d].step = "asking"
    BY <1>1, GotoFacts DEF Steps, Asking
  <1>4. \A r \in Signals : venue[r].state \in Gone => venue'[r] = venue[r]
    BY <1>1 DEF Cancel, Shape, Gone
  <1>5. \A o \in Signals : Stays(o)
    BY <1>1, <1>4, StaysSame
  <1>6. \A o \in Signals : SettleOf(o) => Knows(d, o)'
    BY <1>3, <1>5, KnowsFrame
  <1>7. QED
    BY <1>1, <1>2, <1>5, <1>6, SettleStep

\* A commit by a task or the retry worker: what it settles is complete, and the row of its own
\* order is not a settled limit order.
LEMMA CommitSettles ==
  ASSUME IInv, SettleInv, NEW a \in Actors, a # Poller, job[a].step # "recorded",
         \A b \in Actors : b # a => job'[b] = job[b],
         UNCHANGED <<venue, staged, booked>>, Off \subseteq Off', blind \subseteq blind',
         \A o \in Signals :
            \/ order'[o] = Flushed(a)[o]
            \/ /\ Accepted(o)' => booked[o] = order'[o].filled
               /\ ~(order'[o].type = "limit" /\ order'[o].status \in {"success", "cancelled"}),
         \A o \in Signals : a \in Signals /\ job[a].order = o /\ SettleOf(o) /\ o \notin blind' => Complete(o),
         \/ job'[a].order = None
         \/ job'[a].order = job[a].order /\ job'[a].step \in Executing /\ job[a].step \in Executing
  PROVE  SettleInv'
  <1> USE ActorFacts
  <1>1. ASSUME NEW o \in Signals, SettleOf(o) PROVE Stays(o)
    <2>1. /\ Flushed(a)[o].filled = order[o].filled /\ Flushed(a)[o].type = order[o].type
          /\ ~Accepted(o) => Flushed(a)[o] = order[o]
          /\ staged[o] = "none" => \/ Flushed(a)[o] = order[o]
                                   \/ a \in Signals /\ job[a].order = o
      <3>1. staged[o] = "none" => \/ Flushed(a)[o] = order[o]
                                  \/ a \in Signals /\ job[a].order = o
        BY DEF Flushed
      <3>2. QED
        BY <3>1, FlushedFacts DEF IInv
    <2>2. CASE order'[o] = Flushed(a)[o]
      <3>1. Accepted(o)' => Accepted(o) /\ order'[o].filled = order[o].filled
        BY <2>1, <2>2 DEF Accepted
      <3>2. o \notin blind' /\ Ends(o)' => Ends(o) \/ Complete(o)
        BY <1>1, <2>1, <2>2 DEF Ends
      <3>3. QED
        BY <3>1, <3>2 DEF Stays
    <2>3. CASE /\ Accepted(o)' => booked[o] = order'[o].filled
               /\ ~(order'[o].type = "limit" /\ order'[o].status \in {"success", "cancelled"})
      BY <2>3 DEF Stays, Ends
    <2>4. QED
      BY <2>2, <2>3
  <1>2. \A o \in Signals : a \in Watchers /\ SettleOf(o) => Knows(a, o)'
    BY <1>1, KnowsFrame
  <1>3. QED
    BY <1>1, <1>2, SettleStep

\* What a task or the retry worker does with rows as they are.
LEMMA GoesOnSettles ==
  ASSUME IInv, SettleInv, NEW a \in Actors, job[a].step # "recorded",
         \A b \in Actors : b # a => job'[b] = job[b],
         UNCHANGED <<order, staged, booked>>, Off \subseteq Off', blind \subseteq blind',
         \A o \in Signals : venue[o].state \in Gone => venue'[o] = venue[o],
         \/ a \notin Watchers
         \/ job'[a].order \notin Signals
         \/ job'[a].step \in {"cancelling", "asking", "reading"}
         \/ job'[a].order = job[a].order /\ job'[a].step \in Executing /\ job[a].step \in Executing
  PROVE  SettleInv'
  <1>1. \A o \in Signals : Stays(o)
    BY StaysSame
  <1>2. \A o \in Signals : a \in Watchers /\ SettleOf(o) => Knows(a, o)'
    BY <1>1, KnowsFrame
  <1>3. QED
    BY <1>1, <1>2, SettleStep

\* The end of _cancel_working_entry.
LEMMA AfterCancelSettles ==
  ASSUME IInv, SettleInv, NEW d \in Signals, AfterCancel(d)
  PROVE  SettleInv'
  <1> USE ActorFacts DEF pass, history, Off
  <1>1. /\ job[d].step = "answered" /\ Shape
        /\ UNCHANGED <<venue, net, batch, copies, staged, booked, raced, misread, dropped>>
        /\ blind' = IF job[d].state \in Gone THEN blind ELSE blind \cup {job[d].order}
    BY DEF AfterCancel, At, IInv
  <1>2. blind \subseteq blind'
    BY <1>1
  <1>3. ASSUME NEW o \in Signals, job[d].order = o, SettleOf(o), o \notin blind' PROVE Complete(o)
    BY <1>1, <1>3 DEF SettleOf, Knows
  <1>4. CASE /\ job' = [job EXCEPT ![d] = [Idle EXCEPT !.step = "deciding", !.order = job[d].order]]
             /\ UNCHANGED order
    <2>1. /\ \A b \in Actors : b # d => job'[b] = job[b]
          /\ job'[d].step = "deciding" /\ job'[d].order = job[d].order
      BY <1>1, <1>4, JobHas, DecidesNext
    <2>2. \A o \in Signals : Stays(o)
      BY <1>1, <1>2, <1>4, StaysSame
    <2>3. \A o \in Signals : SettleOf(o) => Knows(d, o)'
      BY <1>1, <1>3, <2>1 DEF Knows, Complete
    <2>4. QED
      BY <1>1, <2>1, <2>2, <2>3, SettleStep
  <1>5. CASE order' = Flushed(d) /\ Leave(d)
    <2>1. (\A b \in Actors : b # d => job'[b] = job[b]) /\ job'[d].order = None
      BY <1>1, <1>5, LeaveFacts
    <2>2. QED
      BY <1>1, <1>2, <1>3, <1>5, <2>1, CommitSettles
  <1>6. QED
    BY <1>4, <1>5 DEF AfterCancel

\* decide.
LEMMA DecideSettles ==
  ASSUME IInv, SettleInv, NEW d \in Signals, Decide(d)
  PROVE  SettleInv'
  <1> USE ActorFacts DEF pass, history, Off
  <1>1. /\ job[d].step = "deciding" /\ job[d].step \in Executing /\ Shape
        /\ UNCHANGED <<venue, net, batch, copies, staged, booked, raced, blind, misread, dropped>>
    BY DEF Decide, At, IInv, Executing
  <1>2. CASE Goto(d, "placing") /\ UNCHANGED order
    <2>1. /\ \A b \in Actors : b # d => job'[b] = job[b]
          /\ job'[d].step = "placing" /\ job'[d].order = job[d].order
      BY <1>1, <1>2, GotoFacts DEF Steps, Executing
    <2>2. job'[d].step \in Executing
      BY <2>1 DEF Executing
    <2>3. QED
      BY <1>1, <1>2, <2>1, <2>2, GoesOnSettles
  <1>3. CASE /\ job' = [job EXCEPT ![d].step = "closing", ![d].qty = IF net > 0 THEN net ELSE -net]
             /\ UNCHANGED order
    <2>1. /\ \A b \in Actors : b # d => job'[b] = job[b]
          /\ job'[d].step = "closing" /\ job'[d].order = job[d].order
      BY <1>1, <1>3, CloseJob
    <2>2. job'[d].step \in Executing
      BY <2>1 DEF Executing
    <2>3. QED
      BY <1>1, <1>3, <2>1, <2>2, GoesOnSettles
  <1>4. CASE /\ order' = [Flushed(d) EXCEPT ![d] = [NoOrder EXCEPT !.status = "rejected", !.id = NextId]]
             /\ Leave(d)
    <2>1. (\A b \in Actors : b # d => job'[b] = job[b]) /\ job'[d].order = None
      BY <1>1, <1>4, LeaveFacts
    <2>2. \A o \in Signals : \/ order'[o] = Flushed(d)[o]
                             \/ order'[o].status = "rejected"
      BY <1>1, <1>4, FlushedFacts DEF IInv, NoOrder
    <2>3. \A o \in Signals : job[d].order = o /\ SettleOf(o) /\ o \notin blind' => Complete(o)
      BY <1>1 DEF SettleOf, Knows
    <2>4. \A o \in Signals : order'[o].status = "rejected" =>
             ~Accepted(o)' /\ order'[o].status \notin {"success", "cancelled"}
      BY DEF Accepted
    <2>5. QED
      BY <1>1, <2>1, <2>2, <2>3, <2>4, CommitSettles
  <1>5. QED
    BY <1>2, <1>3, <1>4 DEF Decide

\* execute_order, in all its steps.
LEMMA ExecuteSettles ==
  ASSUME IInv, SettleInv, NEW a \in Signals \cup {Worker}, Execute(a)
  PROVE  SettleInv'
  <1> USE DEF pass, history, Off
  <1>1. /\ Shape /\ Ctl /\ a \in Actors /\ a # Poller
        /\ job[a].step \in Executing /\ job[a].step # "recorded"
        /\ UNCHANGED <<batch, copies, staged, booked, raced, blind, misread, dropped>>
    BY ActorFacts DEF IInv, Execute, Place, Close, CommitPlacement, CommitCloseFailure, RecordClose,
                      BookClose, At, Executing
  <1>2. CASE Place(a) \/ Close(a)
    <2>1. \E t \in Executing : Goto(a, t)
      BY <1>2 DEF Place, Close, Executing
    <2>2. /\ \A b \in Actors : b # a => job'[b] = job[b]
          /\ job'[a].step \in Executing /\ job'[a].order = job[a].order
      BY <1>1, <2>1, GotoFacts DEF Steps
    <2>3. UNCHANGED order /\ \A o \in Signals : venue[o].state \in Gone => venue'[o] = venue[o]
      BY <1>1, <1>2 DEF Place, Close, Shape, Gone
    <2>4. QED
      BY <1>1, <2>2, <2>3, GoesOnSettles
  <1>3. CASE BookClose(a)
    <2>1. (\A b \in Actors : b # a => job'[b] = job[b]) /\ job'[a].order = None
      BY <1>1, <1>3, LeaveFacts DEF BookClose
    <2>2. UNCHANGED <<order, venue>>
      BY <1>3 DEF BookClose
    <2>3. QED
      BY <1>1, <2>1, <2>2, GoesOnSettles, ActorFacts
  <1>4. CASE CommitPlacement(a) \/ CommitCloseFailure(a) \/ RecordClose(a)
    <2>1. job[a].step \in Executing \ {"deciding", "closeRecorded"} /\ UNCHANGED venue
      BY <1>4 DEF CommitPlacement, CommitCloseFailure, RecordClose, At, Executing
    <2>2. PICK s \in Signals : s = Subject(a) /\ ~Accepted(s)
      BY <2>1, Executes
    <2>3. job[a].qty \in Nat /\ Qty \in Nat /\ 0 \in Nat /\ FailedStatus(a) \in {"dead", "retrying"}
      BY <1>1, JobHas, QtyAssumption DEF FailedStatus
    <2>4. PICK st \in {"working", "retrying", "success", "dead"}, ty \in {"limit", "market"},
               q \in Nat, f \in Nat :
             /\ order' = Committed(a, st, ty, q, f)
             /\ ty = "limit" => f = 0 /\ st # "success"
             /\ st = "working" => ty = "limit"
      <3>1. CASE CommitPlacement(a)
        BY <2>3, <3>1 DEF CommitPlacement
      <3>2. CASE CommitCloseFailure(a)
        BY <2>3, <3>2 DEF CommitCloseFailure
      <3>3. CASE RecordClose(a)
        BY <2>3, <3>3 DEF RecordClose
      <3>4. QED
        BY <1>4, <3>1, <3>2, <3>3
    <2>5. /\ order'[s].status = st /\ order'[s].type = ty /\ order'[s].filled = f
          /\ \A o \in Signals : o # s => order'[o] = Flushed(a)[o]
      BY <1>1, <2>2, <2>4, CommitKeeps
    <2>6. booked[s] = 0
      BY <2>2 DEF IInv, BookInv
    <2>7. /\ Accepted(s)' => booked[s] = order'[s].filled
          /\ ~(order'[s].type = "limit" /\ order'[s].status \in {"success", "cancelled"})
      BY <2>4, <2>5, <2>6 DEF Accepted
    <2>8. /\ \A b \in Actors : b # a => job'[b] = job[b]
          /\ \/ job'[a].order = None
             \/ job'[a].order = job[a].order /\ job'[a].step \in Executing
      <3>1. CASE Leave(a)
        BY <1>1, <3>1, LeaveFacts
      <3>2. CASE Goto(a, "closeRecorded")
        BY <1>1, <3>2, GotoFacts DEF Steps, Executing
      <3>3. QED
        BY <1>4, <3>1, <3>2 DEF CommitPlacement, CommitCloseFailure, RecordClose
    <2>9. \A o \in Signals : /\ a \in Signals /\ job[a].order = o /\ SettleOf(o) /\ o \notin blind'
                             => Complete(o)
      BY <1>1, ActorFacts DEF SettleOf, Knows
    <2>10. QED
      BY <1>1, <2>1, <2>5, <2>7, <2>8, <2>9, CommitSettles
  <1>5. QED
    BY <1>2, <1>3, <1>4 DEF Execute

\* The retry worker takes an order up.
LEMMA ReplaySettles ==
  ASSUME IInv, SettleInv, Replay
  PROVE  SettleInv'
  <1> USE ActorFacts DEF pass, history, Off
  <1>1. /\ job[Worker].step = "idle" /\ Shape
        /\ UNCHANGED <<venue, order, net, batch, copies, staged, booked, raced, blind, misread, dropped>>
    BY DEF Replay, At, IInv
  <1>2. \A b \in Actors : b # Worker => job'[b] = job[b]
    BY <1>1 DEF Replay, Shape
  <1>3. QED
    BY <1>1, <1>2, GoesOnSettles

\* The fills are read.
LEMMA ReadFillsSettles ==
  ASSUME IInv, SettleInv, NEW a \in Watchers, ReadFills(a)
  PROVE  SettleInv'
  <1> USE ActorFacts DEF pass, history, Off
  <1>1. /\ job[a].step = "asking"
        /\ UNCHANGED <<venue, order, net, batch, copies, staged, booked, raced, blind, misread, dropped>>
    BY DEF ReadFills, At
  <1>2. (\A b \in Actors : b # a => job'[b] = job[b]) /\ job'[a].step = "reading"
    BY ReadFillsJob
  <1>3. QED
    BY <1>1, <1>2, GoesOnSettles

\* The state is read: a terminal one that came with all the fills is worth a complete booking.
LEMMA ReadStateSettles ==
  ASSUME IInv, SettleInv, NEW a \in Watchers, NEW known \in BOOLEAN, ReadState(a, known)
  PROVE  SettleInv'
  <1> USE ActorFacts DEF pass, history, Off
  <1>1. /\ job[a].step = "reading" /\ job[a].step \in Asking
        /\ UNCHANGED <<venue, order, net, batch, copies, staged, booked, raced, blind, dropped>>
    BY DEF ReadState, At, Asking
  <1>2. PICK o \in Signals : o = job[a].order
    BY <1>1, Watches
  <1> DEFINE q == FillsRead(a, o)
  <1>3. /\ \A b \in Actors : b # a => job'[b] = job[b]
        /\ job'[a].step = AfterRead(a, known, o) /\ job'[a].order = o
        /\ job'[a].state = StateRead(known, o) /\ job'[a].filled = q
        /\ AfterRead(a, known, o) \in {"booking", "answered"} /\ q \in Nat
    BY <1>2, ReadStateJob
  <1>4. \A r \in Signals : Stays(r)
    BY <1>1, StaysSame
  <1>5. ASSUME NEW r \in Signals, r # o, SettleOf(r) PROVE SettleOf(r)'
    <2>1. Knows(a, r)' /\ ~Recorded(a, r)
      BY <1>1, <1>2, <1>3, <1>4, <1>5, KnowsFrame DEF Recorded
    <2>2. QED
      BY <1>3, <1>4, <1>5, <2>1, SettleFrame
  <1>6. ASSUME o \notin raced, o \notin misread', SettleOf(o) PROVE SettleOf(o)'
    <2>1. BookOf(o) /\ Accepted(o) /\ Has(a, o)
      BY <1>1, <1>2, <1>6, Watches DEF IInv, BookInv, Has
    <2>2. \A w \in Watchers : ~Recorded(w, o)
      BY <1>1, <1>2, <2>1 DEF BookOf, Has, Recorded
    <2>3. booked[o] = order[o].filled /\ order[o].filled <= venue[o].filled /\ job[a].seen = order[o].filled
      BY <1>1, <1>2, <1>6, <2>1, <2>2 DEF SettleOf, InStep, BookOf, Memory
    <2>4. venue[o].filled \in Nat /\ order[o].filled \in Nat
      BY <1>1, Watches
    <2>5. q <= venue[o].filled
      BY <1>1, <1>2, <2>1, <2>4 DEF BookOf, Memory, FillsRead
    <2>6. ASSUME job'[a].state \in Gone PROVE known /\ venue[o].state \in Gone /\ q = venue[o].filled
      <3>1. known /\ venue[o].state \in Gone
        BY <1>3, <2>6 DEF StateRead, Gone
      <3>2. ~(q < venue[o].filled)
        BY <1>2, <1>6, <3>1 DEF ReadState, FillsRead
      <3>3. QED
        BY <1>3, <2>4, <2>5, <3>1, <3>2
    <2>7. ASSUME job'[a].state \in Gone, AfterRead(a, known, o) = "answered" PROVE booked[o] = venue[o].filled
      BY <1>3, <2>3, <2>4, <2>6, <2>7 DEF AfterRead
    <2>8. Knows(a, o)'
      BY <1>1, <1>3, <2>6, <2>7 DEF Knows, Complete, Executing
    <2>9. QED
      BY <1>3, <1>4, <1>6, <2>2, <2>8, SettleFrame
  <1>7. misread \subseteq misread'
    BY DEF ReadState
  <1>8. QED
    BY <1>1, <1>5, <1>6, <1>7 DEF SettleInv

\* The first commit of a booking: the ledger is behind the row.
LEMMA BookRowSettles ==
  ASSUME IInv, SettleInv, NEW a \in Watchers, BookRow(a)
  PROVE  SettleInv'
  <1> USE ActorFacts DEF pass, history, Off
  <1>1. /\ job[a].step = "booking" /\ job[a].step \in Asking /\ Goto(a, "recorded") /\ Shape
        /\ UNCHANGED <<venue, net, batch, booked, raced, blind, misread, dropped>>
    BY DEF BookRow, At, Asking, IInv
  <1>2. PICK o \in Signals : o = job[a].order
    BY <1>1, Watches
  <1>3. /\ \A b \in Actors : b # a => job'[b] = job[b]
        /\ job'[a].step = "recorded" /\ job'[a].order = o /\ job'[a].seen = job[a].seen
        /\ job'[a].state = job[a].state /\ job'[a].filled = job[a].filled
    BY <1>1, <1>2, GotoFacts DEF Steps, Asking
  <1>4. /\ order'[o].filled = job[a].filled
        /\ \A r \in Signals : r # o => RowKept(r)
        /\ \A r \in Signals : (Accepted(r)' <=> Accepted(r)) /\ (Ends(r)' => Ends(r))
    BY <1>2, BookRowRows
  <1>5. ASSUME NEW r \in Signals, r # o, SettleOf(r) PROVE SettleOf(r)'
    <2>1. Stays(r)
      BY <1>1, <1>4, <1>5 DEF Stays, RowKept
    <2>2. Knows(a, r)' /\ ~Recorded(a, r)
      BY <1>1, <1>2, <1>3, <1>5, <2>1, KnowsFrame DEF Recorded
    <2>3. QED
      BY <1>3, <1>5, <2>1, <2>2, SettleFrame
  <1>6. ASSUME o \notin raced, SettleOf(o) PROVE SettleOf(o)'
    <2>1. BookOf(o) /\ Accepted(o) /\ Has(a, o)
      BY <1>1, <1>2, <1>6, Watches DEF IInv, BookInv, Has
    <2>2. \A w \in Watchers : ~Recorded(w, o) /\ (w # a => job'[w].order # o)
      BY <1>1, <1>2, <1>3, <2>1 DEF BookOf, Has, Recorded
    <2>3. booked[o] = order[o].filled /\ job[a].seen = order[o].filled /\ job[a].seen < job[a].filled
      BY <1>1, <1>2, <1>6, <2>1, <2>2 DEF SettleOf, InStep, BookOf, Memory
    <2>4. job[a].seen \in Int /\ job[a].filled \in Nat
      BY <1>1, JobHas
    <2>5. booked'[o] = job'[a].seen /\ job'[a].seen <= job'[a].filled
      BY <1>1, <1>3, <2>3, <2>4
    <2>6. job'[a].state \in Gone => venue'[o].state \in Gone /\ job'[a].filled = venue'[o].filled
      BY <1>1, <1>2, <1>3, <1>6 DEF SettleOf, Knows
    <2>7. Knows(a, o)'
      BY <1>3, <2>5, <2>6 DEF Knows, Executing
    <2>8. \A w \in Watchers : Knows(w, o)'
      BY <2>2, <2>7 DEF Knows
    <2>9. InStep(o)'
      BY <1>3 DEF InStep, Recorded
    <2>10. Ends(o)' /\ o \notin blind' => Complete(o)'
      BY <1>1, <1>4, <1>6 DEF SettleOf, Complete
    <2>11. QED
      BY <2>8, <2>9, <2>10 DEF SettleOf
  <1>7. QED
    BY <1>1, <1>5, <1>6 DEF SettleInv

\* The second: it catches up.
LEMMA BookLedgerSettles ==
  ASSUME IInv, SettleInv, NEW a \in Watchers, BookLedger(a)
  PROVE  SettleInv'
  <1> USE ActorFacts DEF pass, history, Off
  <1>1. /\ job[a].step = "recorded" /\ job[a].step \in Asking /\ Goto(a, "answered") /\ Shape
        /\ UNCHANGED <<venue, order, batch, copies, staged, raced, blind, misread, dropped>>
    BY DEF BookLedger, At, Asking, IInv
  <1>2. PICK o \in Signals : o = job[a].order
    BY <1>1, Watches
  <1>3. /\ \A b \in Actors : b # a => job'[b] = job[b]
        /\ job'[a].step = "answered" /\ job'[a].order = o /\ job'[a].state = job[a].state
    BY <1>1, <1>2, GotoFacts DEF Steps, Asking
  <1>4. /\ \A r \in Signals : venue[r].filled \in Nat /\ order[r].filled \in Nat /\ booked[r] \in Int
        /\ job[a].seen \in Int /\ job[a].filled \in Nat
    BY <1>1, Watches, JobHas DEF Shape
  <1>5. /\ booked'[o] = booked[o] + (job[a].filled - job[a].seen)
        /\ \A r \in Signals : r # o => booked'[r] = booked[r]
    BY <1>1, <1>2 DEF BookLedger, Shape
  <1>6. ASSUME NEW r \in Signals, r # o, SettleOf(r) PROVE SettleOf(r)'
    <2>1. Stays(r)
      BY <1>1, <1>5, <1>6 DEF Stays, Ends, Accepted
    <2>2. Knows(a, r)' /\ ~Recorded(a, r)
      BY <1>1, <1>2, <1>3, <1>6, <2>1, KnowsFrame DEF Recorded
    <2>3. QED
      BY <1>3, <1>6, <2>1, <2>2, SettleFrame
  <1>7. ASSUME o \notin raced, SettleOf(o) PROVE SettleOf(o)'
    <2>1. BookOf(o) /\ Accepted(o) /\ Has(a, o)
      BY <1>1, <1>2, <1>7, Watches DEF IInv, BookInv, Has
    <2>2. \A w \in Watchers : w # a => job'[w].order # o
      BY <1>3, <2>1 DEF BookOf, Has
    <2>3. /\ job[a].filled = order[o].filled /\ order[o].filled <= venue[o].filled
          /\ booked[o] = job[a].seen /\ job[a].seen <= job[a].filled
          /\ job[a].state \in Gone => venue[o].state \in Gone /\ job[a].filled = venue[o].filled
      BY <1>1, <1>2, <1>7, <2>1 DEF SettleOf, Knows, BookOf, Memory
    <2>4. booked'[o] = order[o].filled
      BY <1>4, <1>5, <2>3
    <2>5. Knows(a, o)'
      BY <1>1, <1>3, <2>3, <2>4 DEF Knows, Complete, Executing
    <2>6. \A w \in Watchers : Knows(w, o)'
      BY <2>2, <2>5 DEF Knows
    <2>7. Complete(o) => booked'[o] = venue[o].filled
      BY <1>4, <2>3, <2>4 DEF Complete
    <2>8. Ends(o)' /\ o \notin blind' => Complete(o)'
      BY <1>1, <1>7, <2>7 DEF SettleOf, Complete, Ends
    <2>9. InStep(o)'
      BY <1>1, <2>4 DEF InStep
    <2>10. QED
      BY <2>6, <2>8, <2>9 DEF SettleOf
  <1>8. QED
    BY <1>1, <1>6, <1>7 DEF SettleInv

\* The poller takes orders up.
LEMMA PassSettles ==
  ASSUME IInv, SettleInv, Scan \/ PollNext
  PROVE  SettleInv'
  <1> USE ActorFacts DEF pass, history, Off
  <1>1. /\ job[Poller].step \in {"idle", "polling"} /\ job[Poller].order = None /\ Shape
        /\ UNCHANGED <<venue, order, staged, booked, blind, misread, dropped>> /\ raced \subseteq raced'
    BY DEF Scan, PollNext, At, IInv, Ctl, WatchCtl
  <1>2. CASE Scan
    <2>1. (\A b \in Actors : b # Poller => job'[b] = job[b]) /\ job'[Poller].order = None
      BY <1>1, <1>2, GotoFacts DEF Scan, Steps
    <2>2. QED
      BY <1>1, <2>1, GoesOnSettles
  <1>3. CASE PollNext
    <2>1. PICK o \in batch :
             job' = [job EXCEPT ![Poller] =
                [Idle EXCEPT !.step = "asking", !.order = o,
                             !.seen = IF copies[o] = Expired THEN order[o].filled ELSE copies[o]]]
      BY <1>3 DEF PollNext
    <2> DEFINE n == IF copies[o] = Expired THEN order[o].filled ELSE copies[o]
               j == J("asking", o, n, "unknown", 0, 0)
    <2>2. job' = [job EXCEPT ![Poller] = [Idle EXCEPT !.step = "asking", !.order = o, !.seen = n]]
      BY <2>1
    <2> HIDE DEF n
    <2>3. [Idle EXCEPT !.step = "asking", !.order = o, !.seen = n] = j
      BY AskFields
    <2>4. j.step = "asking"
      BY DEF J
    <2> HIDE DEF j
    <2>5. job' = [job EXCEPT ![Poller] = j]
      BY <2>2, <2>3
    <2>6. (\A b \in Actors : b # Poller => job'[b] = job[b]) /\ job'[Poller].step = "asking"
      BY <1>1, <2>4, <2>5, JobSet
    <2>7. QED
      BY <1>1, <2>6, GoesOnSettles
  <1>4. QED
    BY <1>2, <1>3

\* The poller settles what it has a terminal answer for.
LEMMA VerdictSettles ==
  ASSUME IInv, SettleInv, PollVerdict \/ EndPass
  PROVE  SettleInv'
  <1> USE ActorFacts DEF pass, history, Off
  <1>1. /\ job[Poller].step \in {"answered", "polling"} /\ Shape
        /\ UNCHANGED <<venue, booked, raced, blind, misread, dropped>>
    BY DEF PollVerdict, EndPass, At, IInv
  <1>2. (\A b \in Actors : b # Poller => job'[b] = job[b]) /\ job'[Poller].order = None
    <2>1. CASE PollVerdict
      <3> DEFINE j == J("polling", None, 0, "unknown", 0, 0)
      <3>1. [Idle EXCEPT !.step = "polling"] = j
        BY RestFields
      <3>2. j.order = None
        BY DEF J
      <3> HIDE DEF j
      <3>3. job' = [job EXCEPT ![Poller] = j]
        BY <2>1, <3>1 DEF PollVerdict
      <3>4. QED
        BY <1>1, <3>2, <3>3, JobSet
    <2>2. CASE EndPass
      BY <1>1, <2>2, LeaveFacts DEF EndPass
    <2>3. QED
      BY <2>1, <2>2
  <1>3. ASSUME NEW o \in Signals, SettleOf(o) PROVE Stays(o)
    <2>1. CASE PollVerdict
      <3>1. UNCHANGED order
        BY <2>1 DEF PollVerdict
      <3>2. staged'[o] = staged[o] \/ (job[Poller].order = o /\ job[Poller].state \in Gone)
        <4>1. PICK v \in {"success", "cancelled"} :
                 staged' = IF job[Poller].state \in Gone
                           THEN [staged EXCEPT ![job[Poller].order] = v] ELSE staged
          BY <2>1 DEF PollVerdict
        <4>2. QED
          BY <1>1, <4>1 DEF Shape
      <3>3. job[Poller].order = o /\ job[Poller].state \in Gone => Complete(o)
        BY <1>3, <2>1 DEF SettleOf, Knows, PollVerdict, At
      <3>4. QED
        BY <1>1, <3>1, <3>2, <3>3 DEF Stays, Ends, Accepted
    <2>2. CASE EndPass
      <3>1. order' = Flushed(Poller) /\ staged'[o] = "none"
        BY <2>2 DEF EndPass, NothingStaged
      <3>2. RowKept(o)
        BY <1>1, <3>1, FlushKeeps DEF IInv
      <3>3. staged[o] = "none" => order'[o] = order[o]
        BY <3>1 DEF Flushed
      <3>4. Ends(o)' => Ends(o)
        BY <3>1, <3>3 DEF Ends
      <3>5. QED
        BY <1>1, <3>2, <3>4 DEF Stays, RowKept
    <2>3. QED
      BY <2>1, <2>2
  <1>4. \A o \in Signals : SettleOf(o) => Knows(Poller, o)'
    BY <1>2, <1>3, KnowsFrame
  <1>5. QED
    BY <1>1, <1>2, <1>3, <1>4, SettleStep

\* A booking that is lost: its order is off.
LEMMA DropBookingSettles ==
  ASSUME IInv, SettleInv, NEW a \in Actors, DropBooking(a)
  PROVE  SettleInv'
  <1> USE ActorFacts DEF pass, Off
  <1>1. /\ job[a].step = "recorded" /\ job[a].step \in Asking /\ Shape /\ a \in Watchers
        /\ UNCHANGED <<venue, order, batch, copies, staged, booked, raced, blind, misread>>
    BY DEF DropBooking, At, IInv, Asking, Executing, Ctl, WorkerCtl
  <1>2. PICK o \in Signals : o = job[a].order
    BY <1>1, Watches
  <1>3. dropped' = dropped \cup {o}
    BY <1>2 DEF DropBooking
  <1>4. (\A b \in Actors : b # a => job'[b] = job[b]) /\ job'[a].order \in {o, None}
    <2>1. CASE a = Poller
      <3> DEFINE j == J("polling", None, 0, "unknown", 0, 0)
      <3>1. [Idle EXCEPT !.step = "polling"] = j
        BY RestFields
      <3>2. j.order = None
        BY DEF J
      <3> HIDE DEF j
      <3>3. job' = [job EXCEPT ![a] = j]
        BY <2>1, <3>1 DEF DropBooking
      <3>4. QED
        BY <1>1, <3>2, <3>3, JobSet
    <2>2. CASE a # Poller
      <3>1. Goto(a, "answered")
        BY <2>2 DEF DropBooking, Goto
      <3>2. QED
        BY <1>1, <1>2, <3>1, GotoFacts DEF Steps, Asking
    <2>3. QED
      BY <2>1, <2>2
  <1>5. ASSUME NEW r \in Signals, r # o, SettleOf(r) PROVE SettleOf(r)'
    <2>1. Stays(r)
      BY <1>1, StaysSame
    <2>2. Knows(a, r)' /\ ~Recorded(a, r)
      BY <1>1, <1>2, <1>4, <1>5, <2>1, KnowsFrame DEF Recorded
    <2>3. QED
      BY <1>4, <1>5, <2>1, <2>2, SettleFrame
  <1>6. QED
    BY <1>1, <1>3, <1>5 DEF SettleInv

\* A session that ends takes what it had set and not committed with it.
LEMMA SessionRaisesSettles ==
  ASSUME IInv, SettleInv, NEW a \in Actors, SessionRaises(a)
  PROVE  SettleInv'
  <1> USE ActorFacts DEF pass, history, Off
  <1>1. /\ Shape /\ Leave(a) /\ job[a].step # "recorded"
        /\ UNCHANGED <<venue, order, booked, raced, blind, misread, dropped>>
    BY DEF SessionRaises, CanRaise, At, IInv
  <1>2. (\A b \in Actors : b # a => job'[b] = job[b]) /\ job'[a].order = None
    BY <1>1, LeaveFacts
  <1>3. \A o \in Signals : staged'[o] # "none" => staged'[o] = staged[o]
    BY DEF SessionRaises, NothingStaged
  <1>4. \A o \in Signals : Stays(o)
    BY <1>1, <1>3 DEF Stays, Ends, Accepted
  <1>5. \A o \in Signals : a \in Watchers /\ SettleOf(o) => Knows(a, o)'
    BY <1>2, <1>4, KnowsFrame
  <1>6. QED
    BY <1>1, <1>2, <1>4, <1>5, SettleStep

\* A restart: what was between its two commits is off, nothing else is half booked.
LEMMA CrashSettles ==
  ASSUME IInv, SettleInv, Crash
  PROVE  SettleInv'
  <1> USE ActorFacts DEF pass, Off
  <1>1. /\ UNCHANGED <<venue, order, booked, raced, blind, misread>> /\ staged' = NothingStaged
        /\ dropped' = dropped \cup {job[a].order : a \in {b \in Actors : At(b, "recorded")}}
    BY DEF Crash
  <1>2. \A w \in Watchers : job'[w].order = None
    BY IdleFacts, RestFields DEF Crash, J
  <1>3. ASSUME NEW o \in Signals \ Off' PROVE SettleOf(o)'
    <2>1. SettleOf(o) /\ staged'[o] = "none"
      BY <1>1, <1>3 DEF SettleInv, NothingStaged
    <2>2. \A w \in Watchers : ~Recorded(w, o)
      BY <1>1, <1>3 DEF Recorded, At
    <2>3. InStep(o)'
      BY <1>1, <2>1, <2>2 DEF SettleOf, InStep, Accepted
    <2>4. \A w \in Watchers : Knows(w, o)'
      BY <1>2 DEF Knows
    <2>5. Ends(o)' /\ o \notin blind' => Complete(o)'
      BY <1>1, <2>1 DEF SettleOf, Ends, Complete
    <2>6. QED
      BY <2>3, <2>4, <2>5 DEF SettleOf
  <1>4. QED
    BY <1>3 DEF SettleInv

\* Every step settles in full.
LEMMA StepSettles == IInv /\ SettleInv /\ [Next]_vars => SettleInv'
  <1> SUFFICES ASSUME IInv, SettleInv, [Next]_vars PROVE SettleInv'
    OBVIOUS
  <1> USE ActorFacts
  <1>1. ASSUME NEW a \in Watchers, Observe(a) PROVE SettleInv'
    BY <1>1, ReadFillsSettles, ReadStateSettles, BookRowSettles, BookLedgerSettles DEF Observe
  <1>2. ASSUME NEW d \in Signals, Task(d) PROVE SettleInv'
    <2>1. d \in Watchers /\ d \in Signals \cup {Worker}
      OBVIOUS
    <2>2. CASE Look(d) \/ Cancel(d) \/ AfterCancel(d) \/ Decide(d)
      BY <2>2, LookSettles, CancelSettles, AfterCancelSettles, DecideSettles
    <2>3. CASE Observe(d) \/ Execute(d)
      BY <1>1, <2>1, <2>3, ExecuteSettles
    <2>4. QED
      BY <1>2, <2>2, <2>3 DEF Task
  <1>3. CASE \E d \in Signals : VenueFill(d) \/ VenueCancels(d) \/ Task(d)
    BY <1>2, <1>3, VenueSettles
  <1>4. CASE Replay \/ Execute(Worker)
    BY <1>4, ReplaySettles, ExecuteSettles
  <1>5. CASE Scan \/ Poll
    BY <1>1, <1>5, PassSettles, VerdictSettles DEF Poll
  <1>6. CASE Crash \/ \E a \in Actors : DropBooking(a) \/ SessionRaises(a)
    BY <1>6, DropBookingSettles, SessionRaisesSettles, CrashSettles
  <1>7. CASE UNCHANGED vars
    BY <1>7 DEF vars, pass, history, Off, SettleInv, SettleOf, InStep, Knows, Ends, Complete, Recorded, Accepted
  <1>8. QED
    BY <1>3, <1>4, <1>5, <1>6, <1>7 DEF Next

\* limit_worker.py settles an order with every fill booked, for one-snapshot and two-read statuses,
\* unless two sessions handled it at the same time, cancel-on-close gave it up blind, its terminal
\* answer carried fewer fills than the venue had, or the booking was lost between its two commits.
THEOREM SettledInFull == Spec => []SettledIsBooked
  <1>1. Init => SettleInv
    <2> SUFFICES ASSUME Init PROVE \A o \in Signals : SettleOf(o)
      BY DEF SettleInv
    <2>1. \A o \in Signals : order[o].status = "none" /\ staged[o] = "none"
      BY DEF Init, NoOrder, NothingStaged
    <2>2. \A w \in Watchers, o \in Signals : job[w].order # o
      BY ActorFacts DEF Init, Idle
    <2>3. QED
      BY <2>1, <2>2 DEF SettleOf, InStep, Knows, Ends, Accepted
  <1>2. IInv /\ SettleInv /\ [Next]_vars => SettleInv'
    BY StepSettles
  <1>3. SettleInv => SettledIsBooked
    BY DEF SettleInv, SettledIsBooked, SettleOf, Ends, Complete, Off
  <1>4. QED
    BY Invariant, <1>1, <1>2, <1>3, PTL DEF Spec
============================================================================
