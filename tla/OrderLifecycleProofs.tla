------------------------ MODULE OrderLifecycleProofs ------------------------
(* The dedup gate, the retry ladder, the booking of market orders and the   *)
(* position they make up, for any deliveries, routes, quantities and        *)
(* numbers of attempts, restarts and rolled-back sessions.                  *)
EXTENDS OrderLifecycle, SumTheorems, TLAPS

RowType == [status : {"none", "retrying", "success", "dead", "rejected"}, qty : Nat,
            attempts : 0..MaxAttempts, priced : BOOLEAN]
JobType == [step : {"none", "calling", "acked", "failed", "recorded"},
            order : Orders \cup {<<>>}, qty : Nat, filled : Nat, priced : BOOLEAN]

\* What the records look like that EXCEPT updates, and what is added up.
RowsOK ==
    /\ order \in [Orders -> RowType] /\ staged \in [Orders -> RowType]
    /\ \A o \in Orders : order[o].status = "none" => order[o] = NoOrder
    /\ \A o \in Orders : staged[o].status = "none" => staged[o] = NoOrder
JobOK(j) == /\ j \in JobType /\ j.filled <= j.qty
            /\ IF j.step = "none" THEN j = NoJob ELSE j.order \in Orders
JobsOK == DOMAIN job = Actors /\ \A a \in Actors : JobOK(job[a])
NumbersOK ==
    /\ todo \in [Deliveries -> 0..(Len(VenueSeq) + 1)]
    /\ batch \subseteq Orders
    /\ net \in [Venues -> Int]
    /\ crashes \in Nat /\ aborts \in Nat
    /\ submissions \in [Orders -> Nat] /\ acks \in [Orders -> Nat] /\ booked \in [Orders -> Nat]
Shape == RowsOK /\ JobsOK /\ NumbersOK

\* The parts of TypeOK that no other invariant rests on.
SetsInv ==
    /\ alerts \subseteq {KeyOf[d] : d \in Deliveries}
    /\ answer \in [Deliveries -> {"none", "accepted", "duplicate", "skipped"}]
    /\ inPass \in BOOLEAN /\ killSwitch \in BOOLEAN
    /\ adapters \subseteq Venues /\ overlapped \subseteq Venues
    /\ dropped \subseteq Orders

\* Of the deliveries of one key at most one was accepted, and only an accepted one acts.
GateInv ==
    /\ \A d \in Deliveries : answer[d] = "accepted" => KeyOf[d] \in alerts
    /\ \A d, e \in Deliveries :
          d # e /\ KeyOf[d] = KeyOf[e] => answer[d] # "accepted" \/ answer[e] # "accepted"
    /\ \A d \in Deliveries : todo[d] # 0 => answer[d] = "accepted"
    /\ \A d \in Deliveries, v \in Venues :
          order[<<d, v>>].status # "none" => answer[d] = "accepted"

\* A fan-out has written no row of the venues it has yet to do.
TaskOf(d) ==
    /\ job[d].step # "none" => /\ todo[d] \in DOMAIN VenueSeq
                               /\ job[d].order = <<d, VenueSeq[todo[d]]>>
    /\ job[d].step \in {"calling", "acked", "failed"} => order[job[d].order].status = "none"
    /\ job[d].step = "recorded" => /\ order[job[d].order].status = "success"
                                   /\ booked[job[d].order] = 0
    /\ job[d].step = "none" => \A i \in DOMAIN VenueSeq :
          todo[d] # 0 /\ i = todo[d] => order[<<d, VenueSeq[i]>>].status = "none"
    /\ \A i \in DOMAIN VenueSeq :
          todo[d] # 0 /\ i > todo[d] => order[<<d, VenueSeq[i]>>].status = "none"
TaskInv == \A d \in Deliveries : TaskOf(d)

\* The orders of a pass are retrying, each either still to be replayed, or in the worker's
\* hands, or staged.
WorkerInv ==
    /\ \A o \in batch : order[o].status = "retrying"
    /\ job[Worker].step \in {"calling", "acked", "failed"} =>
          /\ order[job[Worker].order].status = "retrying"
          /\ job[Worker].order \notin batch
          /\ staged[job[Worker].order].status = "none"
    /\ job[Worker].step = "recorded" => /\ order[job[Worker].order].status = "success"
                                        /\ booked[job[Worker].order] = 0
    /\ \A d \in Deliveries :
          job[d].step # "none" /\ job[Worker].step # "none" => job[d].order # job[Worker].order
    /\ \A o \in Orders : staged[o].status # "none" =>
          /\ order[o].status = "retrying" /\ o \notin batch
          /\ staged[o].attempts = order[o].attempts + 1
          /\ staged[o].status \in {"retrying", "success", "dead"}
          /\ staged[o].status = "retrying" => staged[o].attempts < MaxAttempts
    /\ ~inPass => job[Worker].step = "none" /\ batch = {}
                  /\ \A o \in Orders : staged[o].status = "none"

\* Every call and every acknowledged fill is accounted for by a row or by a job, but for
\* those a restart or a rollback has lost.
Answered(o) == \E a \in Actors : job[a].order = o /\ job[a].step \in {"acked", "failed"}
Acked(o) == \E a \in Actors : job[a].order = o /\ job[a].step = "acked"
CountOf(o) ==
    /\ order[o].status = "retrying" => order[o].attempts < MaxAttempts
    /\ order[o].status # "success" => booked[o] = 0
    /\ booked[o] <= 1
    /\ staged[o].status # "none" => submissions[o] <= staged[o].attempts + crashes + aborts
    /\ staged[o].status = "none" => submissions[o] <= order[o].attempts + 1 + crashes + aborts
    /\ staged[o].status = "none" /\ ~Answered(o) =>
          submissions[o] <= order[o].attempts + crashes + aborts
    /\ acks[o] <= 1 + crashes + aborts
    /\ order[o].status # "success" /\ staged[o].status # "success" /\ ~Acked(o) =>
          acks[o] <= crashes + aborts
CountInv == \A o \in Orders : CountOf(o)

IInv == Shape /\ SetsInv /\ GateInv /\ TaskInv /\ WorkerInv /\ CountInv
----------------------------------------------------------------------------
\* An Order row belongs to a delivery and a venue.
LEMMA OrdersArePairs ==
  /\ \A d \in Deliveries, v \in Venues : <<d, v>> \in Orders
  /\ \A o \in Orders : o[1] \in Deliveries /\ o[2] \in Venues /\ o = <<o[1], o[2]>>
  BY DEF Orders

\* A route lists every venue once, so that its index tells the venues of a fan-out apart.
LEMMA RouteFacts ==
  /\ Len(VenueSeq) \in Nat /\ DOMAIN VenueSeq = 1..Len(VenueSeq)
  /\ \A i \in DOMAIN VenueSeq : VenueSeq[i] \in Venues
  /\ \A i, j \in DOMAIN VenueSeq : VenueSeq[i] = VenueSeq[j] => i = j
  BY RouteAssumption DEF Venues

----------------------------------------------------------------------------
(* Records. *)

\* What execute_order makes of its call when only the step changes.
LEMMA StepUpdate ==
  ASSUME NEW j \in JobType, NEW v \in {"calling", "acked", "failed", "recorded"}
  PROVE  [j EXCEPT !.step = v] = [step |-> v, order |-> j.order, qty |-> j.qty,
                                  filled |-> j.filled, priced |-> j.priced]
  BY DEF JobType

\* What the venue's acknowledgement makes of it.
LEMMA AckedJob ==
  ASSUME NEW j \in JobType, NEW f \in Nat, NEW p \in BOOLEAN
  PROVE  [j EXCEPT !.step = "acked", !.filled = f, !.priced = p]
         = [step |-> "acked", order |-> j.order, qty |-> j.qty, filled |-> f, priced |-> p]
  <1> DEFINE j1 == [step |-> "acked", order |-> j.order, qty |-> j.qty,
                    filled |-> j.filled, priced |-> j.priced]
             j2 == [step |-> "acked", order |-> j.order, qty |-> j.qty,
                    filled |-> f, priced |-> j.priced]
  <1>1. [j EXCEPT !.step = "acked"] = j1
    BY StepUpdate
  <1>2. [j1 EXCEPT !.filled = f] = j2
    OBVIOUS
  <1>3. [j2 EXCEPT !.priced = p]
        = [step |-> "acked", order |-> j.order, qty |-> j.qty, filled |-> f, priced |-> p]
    OBVIOUS
  <1>4. [j EXCEPT !.step = "acked", !.filled = f, !.priced = p]
        = [[[j EXCEPT !.step = "acked"] EXCEPT !.filled = f] EXCEPT !.priced = p]
    OBVIOUS
  <1>5. QED
    BY <1>1, <1>2, <1>3, <1>4

\* The record a new call starts from.
LEMMA NewJob ==
  ASSUME NEW o, NEW q
  PROVE  [NoJob EXCEPT !.step = "calling", !.order = o, !.qty = q]
         = [step |-> "calling", order |-> o, qty |-> q, filled |-> 0, priced |-> FALSE]
  <1> DEFINE J(s, r, n, b) == [step |-> s, order |-> r, qty |-> n, filled |-> 0, priced |-> b]
  <1>1. ASSUME NEW b
        PROVE  [J("none", <<>>, 0, b) EXCEPT !.step = "calling", !.order = o, !.qty = q]
               = J("calling", o, q, b)
    <2>1. [J("none", <<>>, 0, b) EXCEPT !.step = "calling"] = J("calling", <<>>, 0, b)
      OBVIOUS
    <2>2. [J("calling", <<>>, 0, b) EXCEPT !.order = o] = J("calling", o, 0, b)
      OBVIOUS
    <2>3. [J("calling", o, 0, b) EXCEPT !.qty = q] = J("calling", o, q, b)
      OBVIOUS
    <2>4. [J("none", <<>>, 0, b) EXCEPT !.step = "calling", !.order = o, !.qty = q]
          = [[[J("none", <<>>, 0, b) EXCEPT !.step = "calling"] EXCEPT !.order = o] EXCEPT !.qty = q]
      OBVIOUS
    <2>5. QED
      BY <2>1, <2>2, <2>3, <2>4
  <1>2. NoJob = J("none", <<>>, 0, FALSE)
    BY Zenon DEF NoJob
  <1> HIDE DEF J
  <1>3. [J("none", <<>>, 0, FALSE) EXCEPT !.step = "calling", !.order = o, !.qty = q]
        = J("calling", o, q, FALSE)
    BY <1>1, Zenon
  <1>4. QED
    BY <1>2, <1>3, Zenon DEF J

\* An Order row has its columns' types.
LEMMA RowIsTyped ==
  ASSUME NEW s \in {"none", "retrying", "success", "dead", "rejected"}, NEW q \in Nat,
         NEW n \in 0..MaxAttempts, NEW b \in BOOLEAN
  PROVE  LET row == [status |-> s, qty |-> q, attempts |-> n, priced |-> b] IN
         row \in RowType /\ row.status = s /\ row.attempts = n
  BY DEF RowType

\* A call of execute_order has its locals' types.
LEMMA JobIsTyped ==
  ASSUME NEW s \in {"none", "calling", "acked", "failed", "recorded"}, NEW o \in Orders \cup {<<>>},
         NEW q \in Nat, NEW f \in Nat, NEW b \in BOOLEAN
  PROVE  LET j == [step |-> s, order |-> o, qty |-> q, filled |-> f, priced |-> b] IN
         j \in JobType /\ j.step = s /\ j.order = o /\ j.qty = q /\ j.filled = f
  BY DEF JobType

\* No row, no call and the audit row of a rejected signal.
LEMMA Constants ==
  /\ NoOrder \in RowType /\ NoOrder.status = "none" /\ NoOrder.attempts = 0
  /\ NoJob \in JobType /\ NoJob.step = "none" /\ NoJob.qty = 0 /\ NoJob.filled = 0
  /\ AuditRow \in RowType /\ AuditRow.status = "rejected" /\ AuditRow.attempts = 0
  <1>1. ASSUME NEW b
        PROVE  [[status |-> "none", qty |-> 0, attempts |-> 0, priced |-> b]
                  EXCEPT !.status = "rejected"]
               = [status |-> "rejected", qty |-> 0, attempts |-> 0, priced |-> b]
    OBVIOUS
  <1>2. AuditRow = [status |-> "rejected", qty |-> 0, attempts |-> 0, priced |-> FALSE]
    BY <1>1, Zenon DEF AuditRow, NoOrder
  <1>3. 0 \in Nat /\ 0 \in 0..MaxAttempts /\ FALSE \in BOOLEAN
    BY AttemptAssumption
  <1>4. QED
    BY <1>2, <1>3, RowIsTyped, JobIsTyped DEF NoOrder, NoJob

\* What Dispatch puts in the hands of a task, and ReplayNext in those of the worker.
Started(o, q) == [NoJob EXCEPT !.step = "calling", !.order = o, !.qty = q]

\* It is a call of execute_order that has not been answered.
LEMMA NewJobType ==
  ASSUME NEW o \in Orders, NEW q \in Nat
  PROVE  /\ Started(o, q) \in JobType /\ JobOK(Started(o, q))
         /\ Started(o, q).step = "calling" /\ Started(o, q).order = o /\ Started(o, q).qty = q
  <1> DEFINE j == [step |-> "calling", order |-> o, qty |-> q, filled |-> 0, priced |-> FALSE]
  <1>1. 0 \in Nat /\ FALSE \in BOOLEAN
    OBVIOUS
  <1>2. j \in JobType /\ j.step = "calling" /\ j.order = o /\ j.qty = q /\ j.filled = 0
    BY <1>1, JobIsTyped
  <1>3. Started(o, q) = j
    BY NewJob DEF Started
  <1> HIDE DEF j
  <1>4. QED
    BY <1>2, <1>3 DEF JobOK

\* A new database and a new process satisfy the invariant.
LEMMA InitInv == Init => IInv
  <1> SUFFICES ASSUME Init PROVE IInv
    OBVIOUS
  <1> USE OrdersArePairs, RouteFacts DEF Init
  <1>1. Shape
    BY Constants DEF Shape, RowsOK, JobsOK, JobOK, NumbersOK
  <1>2. SetsInv
    BY DEF SetsInv
  <1>3. GateInv
    BY DEF GateInv, NoOrder
  <1>4. TaskInv
    BY DEF TaskInv, TaskOf, NoJob, NoOrder, Actors
  <1>5. WorkerInv
    BY DEF WorkerInv, NoJob, NoOrder, Actors
  <1>6. CountInv
    BY AttemptAssumption DEF CountInv, CountOf, Answered, Acked, NoJob, NoOrder
  <1>7. QED
    BY <1>1, <1>2, <1>3, <1>4, <1>5, <1>6 DEF IInv

\* decide sizes to a quantity, never to a negative one.
LEMMA SizingsAreNat == ASSUME Shape, NEW d \in Deliveries, NEW v \in Venues PROVE Sizings(d, v) \subseteq Nat
  BY SizeAssumption DEF Shape, NumbersOK, Sizings

\* What is known of the order an actor has in hand when its answer is recorded.
LEMMA InHand ==
  ASSUME Shape, TaskInv, WorkerInv, CountInv, NEW a \in Actors,
         job[a].step \in {"calling", "acked", "failed"}
  PROVE  /\ job[a].order \in Orders
         /\ order[job[a].order].status \in {"none", "retrying"}
         /\ order[job[a].order].attempts < MaxAttempts
         /\ staged[job[a].order].status = "none"
         /\ Attempt(a) \in 1..MaxAttempts
         /\ booked[job[a].order] = 0
  <1> DEFINE o == job[a].order
  <1>1. o \in Orders
    BY DEF Shape, JobsOK, JobOK
  <1>2. order[o].status \in {"none", "retrying"} /\ staged[o].status = "none"
    BY <1>1 DEF Actors, WorkerInv, TaskInv, TaskOf
  <1>3. order[o].attempts < MaxAttempts /\ order[o].attempts \in 0..MaxAttempts
    <2>1. order[o] \in RowType /\ (order[o].status = "none" => order[o].attempts = 0)
      BY <1>1, Constants DEF Shape, RowsOK
    <2>2. order[o].status = "retrying" => order[o].attempts < MaxAttempts
      BY <1>1 DEF CountInv, CountOf
    <2> HIDE DEF o
    <2>3. QED
      BY <1>2, <2>1, <2>2, AttemptAssumption DEF RowType
  <1>4. booked[o] = 0
    BY <1>1, <1>2 DEF CountInv, CountOf
  <1>5. QED
    BY <1>1, <1>2, <1>3, <1>4, AttemptAssumption DEF Attempt

\* The rows _on_success and _on_failure write count the attempt; one that is retried has another.
LEMMA RowsOfJob ==
  ASSUME Shape, NEW a \in Actors, Attempt(a) \in 1..MaxAttempts
  PROVE  /\ SuccessRow(a) \in RowType /\ FailureRow(a) \in RowType
         /\ SuccessRow(a).status = "success" /\ SuccessRow(a).attempts = Attempt(a)
         /\ FailureRow(a).attempts = Attempt(a)
         /\ FailureRow(a).status \in {"retrying", "dead"}
         /\ FailureRow(a).status = "retrying" => Attempt(a) < MaxAttempts
  <1>1. job[a].qty \in Nat /\ job[a].filled \in Nat /\ job[a].priced \in BOOLEAN
    BY DEF Shape, JobsOK, JobOK, JobType
  <1>2. Attempt(a) \in 0..MaxAttempts /\ FALSE \in BOOLEAN
    OBVIOUS
  <1>3. SuccessRow(a) \in RowType /\ SuccessRow(a).status = "success"
        /\ SuccessRow(a).attempts = Attempt(a)
    BY <1>1, <1>2, RowIsTyped DEF SuccessRow
  <1> DEFINE s == IF Attempt(a) >= MaxAttempts THEN "dead" ELSE "retrying"
  <1>4. s \in {"dead", "retrying"} /\ (s = "retrying" => Attempt(a) < MaxAttempts)
    BY AttemptAssumption
  <1>5. FailureRow(a) = [status |-> s, qty |-> job[a].qty, attempts |-> Attempt(a), priced |-> FALSE]
    BY Zenon DEF FailureRow
  <1> HIDE DEF s
  <1>6. FailureRow(a) \in RowType /\ FailureRow(a).status = s /\ FailureRow(a).attempts = Attempt(a)
    <2>1. ASSUME NEW b \in BOOLEAN
          PROVE  LET row == [status |-> s, qty |-> job[a].qty, attempts |-> Attempt(a), priced |-> b]
                 IN  row \in RowType /\ row.status = s /\ row.attempts = Attempt(a)
      BY <1>1, <1>2, <1>4 DEF RowType
    <2>2. FALSE \in BOOLEAN
      OBVIOUS
    <2>3. QED
      BY <1>5, <2>1, <2>2, Zenon
  <1>7. QED
    BY <1>3, <1>4, <1>6
----------------------------------------------------------------------------
(* The types. *)

\* One actor's call changes.
LEMMA OneJob ==
  ASSUME JobsOK, NEW a \in Actors, NEW j, JobOK(j), job' = [job EXCEPT ![a] = j]
  PROVE  JobsOK'
  <1>1. DOMAIN job' = Actors /\ job'[a] = j /\ \A b \in Actors \ {a} : job'[b] = job[b]
    BY DEF JobsOK
  <1>2. \A b \in Actors : JobOK(job'[b])
    BY <1>1 DEF JobsOK
  <1>3. QED
    BY <1>1, <1>2 DEF JobsOK, JobOK

\* One committed row changes.
LEMMA OneOrder ==
  ASSUME RowsOK, NEW o \in Orders, NEW row \in RowType, row.status # "none",
         order' = [order EXCEPT ![o] = row], UNCHANGED staged
  PROVE  RowsOK'
  BY DEF RowsOK

\* One row staged by the worker changes.
LEMMA OneStaged ==
  ASSUME RowsOK, NEW o \in Orders, NEW row \in RowType, row.status # "none",
         staged' = [staged EXCEPT ![o] = row], UNCHANGED order
  PROVE  RowsOK'
  BY DEF RowsOK

\* An actor without a call.
LEMMA NoJobOK == JobOK(NoJob)
  BY Constants DEF JobOK

\* The jobs of the steps of execute_order.
LEMMA StepOK ==
  ASSUME JobsOK, NEW a \in Actors, job[a].step # "none", NEW v \in {"failed", "recorded"},
         job' = [job EXCEPT ![a] = [@ EXCEPT !.step = v]]
  PROVE  /\ JobsOK' /\ job'[a].step = v /\ job'[a].order = job[a].order
         /\ job'[a].qty = job[a].qty /\ job'[a].filled = job[a].filled
         /\ \A b \in Actors \ {a} : job'[b] = job[b]
  <1> DEFINE j == [step |-> v, order |-> job[a].order, qty |-> job[a].qty,
                   filled |-> job[a].filled, priced |-> job[a].priced]
  <1>1. job[a] \in JobType /\ JobOK(job[a]) /\ DOMAIN job = Actors
    BY DEF JobsOK, JobOK
  <1>2. job' = [job EXCEPT ![a] = j]
    BY <1>1, StepUpdate
  <1>3. JobOK(j)
    BY <1>1 DEF JobOK, JobType
  <1>4. job'[a] = j
    BY <1>1, <1>2
  <1> HIDE DEF j
  <1>5. JobsOK'
    BY <1>2, <1>3, OneJob
  <1>6. j.step = v /\ j.order = job[a].order /\ j.qty = job[a].qty /\ j.filled = job[a].filled
    BY DEF j
  <1>7. QED
    BY <1>1, <1>2, <1>4, <1>5, <1>6

\* What the venue's answer changes, and what it leaves.
LEMMA CallOK ==
  ASSUME JobsOK, NEW a \in Actors, Call(a)
  PROVE  /\ JobsOK' /\ job'[a].step \in {"acked", "failed"} /\ job'[a].order = job[a].order
         /\ job'[a].qty = job[a].qty
         /\ job[a].step = "calling" /\ job[a].order \in Orders
         /\ \A b \in Actors \ {a} : job'[b] = job[b]
         /\ acks' = IF job'[a].step = "acked" THEN [acks EXCEPT ![job[a].order] = @ + 1] ELSE acks
         /\ submissions' = [submissions EXCEPT ![job[a].order] = @ + 1]
         /\ UNCHANGED <<todo, order, staged, batch, net, crashes, aborts, booked>>
  <1> USE DEF worker, history
  <1>1. /\ job[a] \in JobType /\ JobOK(job[a]) /\ DOMAIN job = Actors
        /\ job[a].step = "calling" /\ job[a].order \in Orders
    BY DEF Call, JobsOK, JobOK
  <1>2. /\ submissions' = [submissions EXCEPT ![job[a].order] = @ + 1]
        /\ UNCHANGED <<todo, order, staged, batch, net, crashes, aborts, booked>>
    BY DEF Call
  <1>3. CASE /\ job' = [job EXCEPT ![a] = [@ EXCEPT !.step = "failed"]]
             /\ UNCHANGED acks
    BY <1>1, <1>2, <1>3, StepOK
  <1>4. CASE \E f \in 1..job[a].qty, p \in BOOLEAN :
                /\ job' = [job EXCEPT ![a] = [@ EXCEPT !.step = "acked", !.filled = f, !.priced = p]]
                /\ acks' = [acks EXCEPT ![job[a].order] = @ + 1]
    <2>1. PICK f \in 1..job[a].qty, p \in BOOLEAN :
                /\ job' = [job EXCEPT ![a] = [@ EXCEPT !.step = "acked", !.filled = f, !.priced = p]]
                /\ acks' = [acks EXCEPT ![job[a].order] = @ + 1]
      BY <1>4
    <2>2. job[a].qty \in Nat /\ f \in Nat /\ f <= job[a].qty
      BY <1>1 DEF JobType
    <2> DEFINE j == [step |-> "acked", order |-> job[a].order, qty |-> job[a].qty,
                     filled |-> f, priced |-> p]
    <2>0. [job[a] EXCEPT !.step = "acked", !.filled = f, !.priced = p] = j
      BY <1>1, <2>2, AckedJob
    <2>3. job' = [job EXCEPT ![a] = j]
      <3> HIDE DEF j
      <3> QED
        BY <2>0, <2>1, Zenon
    <2>4. JobOK(j) /\ j.step = "acked" /\ j.order = job[a].order /\ j.qty = job[a].qty
      BY <1>1, <2>2, JobIsTyped DEF JobOK
    <2> HIDE DEF j
    <2>5. JobsOK'
      BY <2>3, <2>4, OneJob
    <2>6. job'[a] = j /\ \A b \in Actors \ {a} : job'[b] = job[b]
      BY <1>1, <2>3
    <2>7. QED
      BY <1>1, <1>2, <2>1, <2>4, <2>5, <2>6
  <1>5. QED
    BY <1>3, <1>4 DEF Call
----------------------------------------------------------------------------
(* What a step leaves alone. *)

\* Two actors never have one order in hand.
LEMMA OwnOrder ==
  ASSUME TaskInv, WorkerInv, NEW a \in Actors, NEW b \in Actors, a # b,
         job[a].step # "none", job[b].step # "none"
  PROVE  job[a].order # job[b].order
  BY WorkerAssumption DEF TaskInv, TaskOf, WorkerInv, Actors

\* The gate: rows appear for accepted deliveries only.
LEMMA GateFrame ==
  ASSUME GateInv, UNCHANGED <<alerts, answer>>,
         \A d \in Deliveries : todo'[d] # 0 => answer[d] = "accepted",
         \A d \in Deliveries, v \in Venues :
            order'[<<d, v>>].status # "none" =>
               order[<<d, v>>].status # "none" \/ answer[d] = "accepted"
  PROVE  GateInv'
  BY DEF GateInv

\* A task another actor's step does not touch.
LEMMA TaskFrame ==
  ASSUME NEW d \in Deliveries, TaskOf(d), job'[d] = job[d], todo'[d] = todo[d],
         \A v \in Venues : order[<<d, v>>].status \in {"none", "success"} =>
                           order'[<<d, v>>].status = order[<<d, v>>].status,
         job[d].step = "recorded" => booked'[job[d].order] = booked[job[d].order]
  PROVE  TaskOf(d)'
  <1>1. \A i \in DOMAIN VenueSeq : VenueSeq[i] \in Venues
    BY RouteFacts
  <1>2. \A i \in DOMAIN VenueSeq : order[<<d, VenueSeq[i]>>].status \in {"none", "success"} =>
           order'[<<d, VenueSeq[i]>>].status = order[<<d, VenueSeq[i]>>].status
    BY <1>1
  <1>3. CASE job[d].step = "none"
    BY <1>2, <1>3 DEF TaskOf
  <1>4. CASE job[d].step # "none"
    <2>1. todo[d] \in DOMAIN VenueSeq /\ job[d].order = <<d, VenueSeq[todo[d]]>>
      BY <1>4 DEF TaskOf
    <2>2. order[job[d].order].status \in {"none", "success"} =>
             order'[job[d].order].status = order[job[d].order].status
      BY <1>2, <2>1
    <2>3. \A i \in DOMAIN VenueSeq : todo[d] # 0 /\ i > todo[d] =>
             order'[<<d, VenueSeq[i]>>].status = "none"
      BY <1>2 DEF TaskOf
    <2>4. QED
      BY <1>4, <2>1, <2>2, <2>3 DEF TaskOf
  <1>5. QED
    BY <1>3, <1>4

\* A task that goes on to its next venue.
LEMMA TaskLeaves ==
  ASSUME NEW d \in Deliveries, TaskOf(d), Shape, todo[d] \in DOMAIN VenueSeq, job'[d].step = "none",
         todo'[d] = todo[d] + 1,
         \A v \in Venues : v # VenueSeq[todo[d]] => order'[<<d, v>>] = order[<<d, v>>]
  PROVE  TaskOf(d)'
  <1>1. \A i \in DOMAIN VenueSeq : i \in Int /\ VenueSeq[i] \in Venues
                                   /\ (VenueSeq[i] = VenueSeq[todo[d]] => i = todo[d])
    BY RouteFacts
  <1>2. \A i \in DOMAIN VenueSeq : i > todo[d] => order[<<d, VenueSeq[i]>>].status = "none"
    BY <1>1, RouteFacts DEF TaskOf
  <1>3. \A i \in DOMAIN VenueSeq : i >= todo'[d] => order'[<<d, VenueSeq[i]>>].status = "none"
    BY <1>1, <1>2
  <1>4. QED
    BY <1>1, <1>3 DEF TaskOf

\* The worker's pass, beside a step of a task.
LEMMA WorkerFrame ==
  ASSUME WorkerInv, Shape, UNCHANGED <<staged, batch, inPass>>, job'[Worker] = job[Worker],
         \A o \in Orders : order[o].status # "none" => order'[o] = order[o],
         job[Worker].step = "recorded" => booked'[job[Worker].order] = booked[job[Worker].order],
         \A d \in Deliveries : job'[d].step # "none" /\ job[Worker].step # "none" =>
            job'[d].order # job[Worker].order
  PROVE  WorkerInv'
  <1>1. job[Worker].step # "none" => job[Worker].order \in Orders
    BY DEF Shape, JobsOK, JobOK, Actors
  <1>2. batch \subseteq Orders
    BY DEF Shape, NumbersOK
  <1>3. QED
    BY <1>1, <1>2 DEF WorkerInv

\* The counts of an order, beside a step that has nothing to do with it.
LEMMA CountFrame ==
  ASSUME Shape, NEW o \in Orders, CountOf(o), order'[o] = order[o], staged'[o] = staged[o],
         submissions'[o] = submissions[o], acks'[o] = acks[o], booked'[o] = booked[o],
         crashes' = crashes, aborts' \in {aborts, aborts + 1},
         Answered(o)' <=> Answered(o), Acked(o)' <=> Acked(o)
  PROVE  CountOf(o)'
  <1>1. /\ submissions[o] \in Nat /\ acks[o] \in Nat /\ crashes \in Nat /\ aborts \in Nat
        /\ order[o].attempts \in Nat /\ staged[o].attempts \in Nat
    BY AttemptAssumption DEF Shape, NumbersOK, RowsOK, RowType
  <1>2. QED
    BY <1>1 DEF CountOf

\* The answers an actor has in hand.
LEMMA SameAnswers ==
  ASSUME NEW a \in Actors, \A b \in Actors \ {a} : job'[b] = job[b], NEW o \in Orders,
         job[a].order = o => job[a].step \notin {"acked", "failed"},
         job'[a].order = o => job'[a].step \notin {"acked", "failed"}
  PROVE  /\ Answered(o)' <=> Answered(o)
         /\ Acked(o)' <=> Acked(o)
  BY DEF Answered, Acked

\* A restart, or a pass of the worker that is rolled back, loses at most one call and one answer.
LEMMA CountLost ==
  ASSUME Shape, WorkerInv, NEW o \in Orders, CountOf(o), order'[o] = order[o], staged'[o] = NoOrder,
         submissions'[o] = submissions[o], acks'[o] = acks[o], booked'[o] = booked[o],
         \/ crashes' = crashes + 1 /\ aborts' = aborts
         \/ crashes' = crashes /\ aborts' = aborts + 1
  PROVE  CountOf(o)'
  <1>1. /\ submissions[o] \in Nat /\ acks[o] \in Nat /\ crashes \in Nat /\ aborts \in Nat
        /\ order[o].attempts \in Nat /\ staged[o].attempts \in Nat
    BY AttemptAssumption DEF Shape, NumbersOK, RowsOK, RowType
  <1>2. staged[o].status # "none" => staged[o].attempts = order[o].attempts + 1
    BY DEF WorkerInv
  <1>3. submissions[o] <= order[o].attempts + 1 + crashes + aborts
    BY <1>1, <1>2 DEF CountOf
  <1>4. NoOrder.status = "none"
    BY Constants
  <1>5. acks[o] <= 1 + crashes + aborts /\ booked[o] <= 1
        /\ (order[o].status = "retrying" => order[o].attempts < MaxAttempts)
        /\ (order[o].status # "success" => booked[o] = 0)
    BY DEF CountOf
  <1> HIDE DEF NoOrder
  <1>6. QED
    BY <1>1, <1>3, <1>4, <1>5 DEF CountOf

\* A commit of what the worker staged.
LEMMA CountFlushed ==
  ASSUME Shape, WorkerInv, NEW o \in Orders, CountOf(o), order'[o] = Flushed[o], staged'[o] = NoOrder,
         submissions'[o] = submissions[o], acks'[o] = acks[o], booked'[o] = booked[o],
         UNCHANGED <<crashes, aborts>>, Answered(o)' <=> Answered(o), Acked(o)' <=> Acked(o)
  PROVE  CountOf(o)'
  <1>1. /\ submissions[o] \in Nat /\ acks[o] \in Nat /\ crashes \in Nat /\ aborts \in Nat
        /\ order[o].attempts \in Nat /\ staged[o].attempts \in Nat
    BY AttemptAssumption DEF Shape, NumbersOK, RowsOK, RowType
  <1>2. NoOrder.status = "none"
    BY Constants
  <1>3. CASE staged[o].status = "none"
    <2>1. staged[o] = NoOrder
      BY <1>3 DEF Shape, RowsOK
    <2>2. order'[o] = order[o] /\ staged'[o] = staged[o]
      BY <2>1 DEF Flushed
    <2>3. QED
      BY <2>2, CountFrame, <1>1
  <1>4. CASE staged[o].status # "none"
    <2>1. order'[o] = staged[o]
      BY <1>2, <1>4 DEF Flushed
    <2>2. order[o].status = "retrying"
          /\ (staged[o].status = "retrying" => staged[o].attempts < MaxAttempts)
      BY <1>4 DEF WorkerInv
    <2> HIDE DEF NoOrder
    <2>3. QED
      BY <1>1, <1>2, <1>4, <2>1, <2>2 DEF CountOf
  <1>5. QED
    BY <1>3, <1>4
----------------------------------------------------------------------------
(* The webhook. *)

Core == Shape /\ GateInv /\ TaskInv /\ WorkerInv /\ CountInv
FinalKept == \A o \in Orders : order[o].status \in Terminal => order'[o] = order[o]

\* No row and no count changes.
LEMMA CountsFrame ==
  ASSUME Shape, CountInv,
         UNCHANGED <<order, staged, submissions, acks, booked, crashes, aborts>>,
         \A o \in Orders : (Answered(o)' <=> Answered(o)) /\ (Acked(o)' <=> Acked(o))
  PROVE  CountInv'
  BY CountFrame DEF CountInv

\* A delivery that was not accepted has no task and no rows.
LEMMA NotAccepted ==
  ASSUME Core, NEW d \in Deliveries, answer[d] # "accepted"
  PROVE  /\ todo[d] = 0 /\ job[d].step = "none"
         /\ \A v \in Venues : order[<<d, v>>].status = "none"
  <1>1. todo[d] = 0 /\ \A v \in Venues : order[<<d, v>>].status = "none"
    BY DEF Core, GateInv
  <1>2. 0 \notin DOMAIN VenueSeq
    BY RouteFacts
  <1>3. QED
    BY <1>1, <1>2 DEF Core, TaskInv, TaskOf

\* tradingview_webhook: at most one delivery of a key is accepted.
LEMMA DeliverStep ==
  ASSUME Core, SetsInv, NEW d \in Deliveries, Deliver(d)
  PROVE  Core' /\ FinalKept
  <1> USE DEF worker, history
  <1>1. /\ UNCHANGED <<order, job, staged, batch, inPass, net, submissions, acks, booked, crashes, aborts>>
        /\ answer[d] = "none"
    BY DEF Deliver
  <1>2. /\ DOMAIN todo = Deliveries /\ DOMAIN answer = Deliveries
    BY DEF Core, Shape, NumbersOK, SetsInv
  <1>3. /\ todo[d] = 0 /\ job[d].step = "none" /\ todo \in [Deliveries -> 0..(Len(VenueSeq) + 1)]
        /\ \A v \in Venues : order[<<d, v>>].status = "none"
    BY <1>1, NotAccepted DEF Core, Shape, NumbersOK
  <1>4. todo' = todo \/ (todo' = [todo EXCEPT ![d] = 1] /\ answer'[d] = "accepted")
    BY <1>2 DEF Deliver
  <1>5. \A e \in Deliveries \ {d} : todo'[e] = todo[e] /\ answer'[e] = answer[e]
    BY <1>2, <1>4 DEF Deliver
  <1>6. Shape'
    <2>1. todo' \in [Deliveries -> 0..(Len(VenueSeq) + 1)]
      <3>1. 1 \in 0..(Len(VenueSeq) + 1)
        BY RouteFacts
      <3>2. QED
        BY <1>3, <1>4, <3>1
    <2>2. QED
      BY <1>1, <2>1 DEF Core, Shape, RowsOK, JobsOK, JobOK, NumbersOK
  <1>7. GateInv'
    <2>1. alerts \subseteq alerts'
      BY DEF Deliver
    <2>2. answer'[d] = "accepted" => KeyOf[d] \in alerts' /\ KeyOf[d] \notin alerts
      BY <1>2 DEF Deliver
    <2>3. todo'[d] # 0 => answer'[d] = "accepted"
      BY <1>2, <1>3, <1>4
    <2>4. \A e \in Deliveries : answer[e] = "accepted" => KeyOf[e] \in alerts /\ e # d
      BY <1>1 DEF Core, GateInv
    <2>5. \A e \in Deliveries \ {d} : KeyOf[e] = KeyOf[d] =>
             answer'[e] # "accepted" \/ answer'[d] # "accepted"
      BY <1>5, <2>2, <2>4
    <2>6. \A e \in Deliveries : answer'[e] = "accepted" => KeyOf[e] \in alerts'
      BY <1>5, <2>1, <2>2, <2>4
    <2>7. \A e, f \in Deliveries : e # f /\ KeyOf[e] = KeyOf[f] =>
             answer'[e] # "accepted" \/ answer'[f] # "accepted"
      BY <1>5, <2>5 DEF Core, GateInv
    <2>8. \A e \in Deliveries : todo'[e] # 0 => answer'[e] = "accepted"
      BY <1>5, <2>3 DEF Core, GateInv
    <2>9. \A e \in Deliveries, v \in Venues : order'[<<e, v>>].status # "none" => answer'[e] = "accepted"
      BY <1>1, <1>3, <1>5 DEF Core, GateInv
    <2>10. QED
      BY <2>6, <2>7, <2>8, <2>9 DEF GateInv
  <1>8. TaskInv'
    <2>1. ASSUME NEW e \in Deliveries, e # d PROVE TaskOf(e)'
      BY <1>1, <1>5, <2>1, TaskFrame DEF Core, TaskInv
    <2>2. TaskOf(d)'
      BY <1>1, <1>3, RouteFacts DEF TaskOf
    <2>3. QED
      BY <2>1, <2>2 DEF TaskInv
  <1>9. WorkerInv'
    BY <1>1, WorkerFrame DEF Core, WorkerInv
  <1>10. CountInv'
    BY <1>1, CountsFrame DEF Core, Answered, Acked
  <1>11. QED
    BY <1>1, <1>6, <1>7, <1>8, <1>9, <1>10 DEF Core, FinalKept

\* A REJECT: the audit row appears and the fan-out goes on.
LEMMA DispatchRejects ==
  ASSUME Core, NEW d \in Deliveries, Dispatching(d), NEW o \in Orders,
         o = <<d, VenueSeq[todo[d]]>>, order' = [order EXCEPT ![o] = AuditRow],
         todo' = [todo EXCEPT ![d] = @ + 1],
         UNCHANGED <<alerts, answer, job, staged, batch, inPass, net, submissions, acks, booked,
                     crashes, aborts>>
  PROVE  Core' /\ FinalKept
  <1>1. /\ todo[d] \in DOMAIN VenueSeq /\ todo[d] \in 1..Len(VenueSeq) /\ job[d].step = "none"
        /\ DOMAIN todo = Deliveries /\ todo' \in [Deliveries -> 0..(Len(VenueSeq) + 1)]
    BY RouteFacts, Constants DEF Dispatching, Core, Shape, NumbersOK
  <1>2. order[o].status = "none" /\ answer[d] = "accepted"
    <2>1. todo[d] # 0
      BY <1>1
    <2>2. QED
      BY <1>1, <2>1 DEF Core, TaskInv, TaskOf, GateInv
  <1>3. order[o] = NoOrder /\ order[o].attempts = 0 /\ staged[o].status = "none"
    BY <1>2, Constants DEF Core, Shape, RowsOK, WorkerInv
  <1>4. /\ AuditRow \in RowType /\ AuditRow.status = "rejected" /\ AuditRow.attempts = 0
        /\ DOMAIN order = Orders /\ order'[o] = AuditRow
        /\ \A r \in Orders : r # o => order'[r] = order[r]
    BY Constants DEF Core, Shape, RowsOK
  <1> HIDE DEF AuditRow, NoOrder
  <1>5. Shape'
    <2>1. RowsOK'
      BY <1>4, OneOrder DEF Core, Shape
    <2>2. QED
      BY <1>1, <2>1 DEF Core, Shape, JobsOK, JobOK, NumbersOK
  <1>6. GateInv'
    <2>1. \A e \in Deliveries : todo'[e] # 0 => answer[e] = "accepted"
      BY <1>1, <1>2 DEF Core, GateInv
    <2>2. \A e \in Deliveries, v \in Venues : order'[<<e, v>>].status # "none" =>
             order[<<e, v>>].status # "none" \/ answer[e] = "accepted"
      BY <1>2, <1>4, OrdersArePairs
    <2>3. QED
      BY <2>1, <2>2, GateFrame DEF Core
  <1>7. TaskInv'
    <2>1. ASSUME NEW e \in Deliveries, e # d PROVE TaskOf(e)'
      <3>1. todo'[e] = todo[e] /\ \A v \in Venues : order'[<<e, v>>] = order[<<e, v>>]
        BY <1>1, <1>4, <2>1, OrdersArePairs
      <3>2. QED
        BY <3>1, TaskFrame DEF Core, TaskInv
    <2>2. TaskOf(d)'
      <3>1. todo'[d] = todo[d] + 1
        BY <1>1
      <3>2. \A v \in Venues : v # VenueSeq[todo[d]] => order'[<<d, v>>] = order[<<d, v>>]
        BY <1>4, OrdersArePairs
      <3>3. QED
        BY <1>1, <3>1, <3>2, TaskLeaves DEF Core, TaskInv
    <2>3. QED
      BY <2>1, <2>2 DEF TaskInv
  <1>8. WorkerInv'
    <2>1. \A r \in Orders : order[r].status # "none" => order'[r] = order[r]
      BY <1>2, <1>4
    <2>2. QED
      BY <2>1, WorkerFrame DEF Core, WorkerInv
  <1>9. CountInv'
    <2>1. ASSUME NEW r \in Orders, r # o PROVE CountOf(r)'
      BY <1>4, <2>1, CountFrame DEF Core, CountInv, Answered, Acked
    <2>2. CountOf(o)'
      <3>1. CountOf(o)
        BY DEF Core, CountInv
      <3>2. (Answered(o)' <=> Answered(o)) /\ (Acked(o)' <=> Acked(o))
        BY DEF Answered, Acked
      <3>3. QED
        BY <1>2, <1>3, <1>4, <3>1, <3>2 DEF CountOf
    <2>3. QED
      BY <2>1, <2>2 DEF CountInv
  <1>10. FinalKept
    BY <1>2, <1>4 DEF FinalKept, Terminal
  <1>11. QED
    BY <1>5, <1>6, <1>7, <1>8, <1>9, <1>10 DEF Core

\* An order goes to execute_order.
LEMMA DispatchStarts ==
  ASSUME Core, NEW d \in Deliveries, Dispatching(d), NEW o \in Orders, NEW q \in Nat,
         o = <<d, VenueSeq[todo[d]]>>,
         job' = [job EXCEPT ![d] = Started(o, q)],
         UNCHANGED <<alerts, answer, order, todo, staged, batch, inPass, net, submissions, acks,
                     booked, crashes, aborts>>
  PROVE  Core' /\ FinalKept
  <1> DEFINE j == Started(o, q)
  <1>1. JobOK(j) /\ j.step = "calling" /\ j.order = o
    BY NewJobType
  <1> HIDE DEF j
  <1>2. d \in Actors /\ Worker \in Actors /\ d # Worker
    BY WorkerAssumption DEF Actors
  <1>3. job' = [job EXCEPT ![d] = j]
    BY DEF j
  <1>4. /\ JobsOK' /\ job'[d] = j
        /\ \A a \in Actors : a # d => job'[a] = job[a]
    BY <1>1, <1>2, <1>3, OneJob DEF Core, Shape, JobsOK
  <1>5. todo[d] \in DOMAIN VenueSeq /\ todo[d] # 0 /\ job[d].step = "none"
    BY RouteFacts, Constants DEF Dispatching
  <1>6. order[o].status = "none"
    BY <1>5 DEF Core, TaskInv, TaskOf
  <1>7. Shape'
    BY <1>4 DEF Core, Shape, RowsOK, NumbersOK
  <1>8. GateInv'
    BY GateFrame DEF Core, GateInv
  <1>9. TaskInv'
    <2>1. ASSUME NEW e \in Deliveries, e # d PROVE TaskOf(e)'
      BY <1>4, <2>1, TaskFrame DEF Core, TaskInv, Actors
    <2>2. TaskOf(d)'
      BY <1>1, <1>4, <1>5, <1>6 DEF Core, TaskInv, TaskOf
    <2>3. QED
      BY <2>1, <2>2 DEF TaskInv
  <1>10. WorkerInv'
    <2>1. job'[Worker] = job[Worker]
      BY <1>2, <1>4
    <2>2. job[Worker].step # "none" => order[job[Worker].order].status # "none"
      <3>1. JobOK(job[Worker])
        BY <1>2 DEF Core, Shape, JobsOK
      <3>2. QED
        BY <3>1 DEF Core, WorkerInv, JobOK, JobType
    <2>3. ASSUME NEW e \in Deliveries, job'[e].step # "none", job[Worker].step # "none"
          PROVE  job'[e].order # job[Worker].order
      BY <1>1, <1>4, <1>6, <2>2, <2>3 DEF Core, WorkerInv, Actors
    <2>4. QED
      BY <2>1, <2>3, WorkerFrame DEF Core
  <1>11. CountInv'
    <2>1. ASSUME NEW r \in Orders
          PROVE  (Answered(r)' <=> Answered(r)) /\ (Acked(r)' <=> Acked(r))
      BY <1>1, <1>2, <1>4, <1>5, SameAnswers
    <2>2. QED
      BY <2>1, CountsFrame DEF Core
  <1>12. QED
    BY <1>7, <1>8, <1>9, <1>10, <1>11 DEF Core, FinalKept

\* _dispatch_venue.
LEMMA DispatchStep ==
  ASSUME Core, NEW d \in Deliveries, Dispatch(d)
  PROVE  Core' /\ FinalKept
  <1> DEFINE o == <<d, VenueSeq[todo[d]]>>
  <1>1. VenueSeq[todo[d]] \in Venues /\ o \in Orders /\ Dispatching(d)
    BY RouteFacts, OrdersArePairs DEF Dispatch, Dispatching
  <1>2. UNCHANGED <<alerts, answer, staged, batch, inPass, net, submissions, acks, booked,
                    crashes, aborts>>
    BY DEF Dispatch, worker
  <1>3. PICK q \in Sizings(d, VenueSeq[todo[d]]) :
           IF q = 0
           THEN /\ order' = [order EXCEPT ![o] = AuditRow]
                /\ todo' = [todo EXCEPT ![d] = @ + 1]
                /\ UNCHANGED job
           ELSE /\ job' = [job EXCEPT ![d] = Started(o, q)]
                /\ UNCHANGED <<order, todo>>
    BY Zenon DEF Dispatch, Started
  <1>4. q \in Nat
    BY <1>1, SizingsAreNat DEF Core
  <1> HIDE DEF o
  <1>5. CASE q = 0
    BY <1>1, <1>2, <1>3, <1>5, DispatchRejects DEF o
  <1>6. CASE q # 0
    BY <1>1, <1>2, <1>3, <1>4, <1>6, DispatchStarts DEF o
  <1>7. QED
    BY <1>5, <1>6
----------------------------------------------------------------------------
(* execute_order. *)

\* A step of an actor that neither takes an order nor gives one up leaves who holds what.
LEMMA Holdings ==
  ASSUME Core, NEW a \in Actors, job[a].step # "none", job'[a].order = job[a].order,
         \A b \in Actors \ {a} : job'[b] = job[b]
  PROVE  \A d \in Deliveries : job'[d].step # "none" /\ job'[Worker].step # "none" =>
            job'[d].order # job'[Worker].order
  BY WorkerAssumption DEF Core, WorkerInv, Actors

\* Before it is answered, an order has one call less.
LEMMA NotAnswered ==
  ASSUME Core, NEW a \in Actors, job[a].step = "calling"
  PROVE  ~Answered(job[a].order) /\ ~Acked(job[a].order)
  BY OwnOrder DEF Core, Answered, Acked

\* The venue's answer.
LEMMA CallStep ==
  ASSUME Core, NEW a \in Actors, Call(a)
  PROVE  Core' /\ FinalKept
  <1> USE DEF worker, history
  <1>0. PICK o \in Orders : o = job[a].order
    BY CallOK DEF Core, Shape
  <1>1. /\ JobsOK' /\ job'[a].step \in {"acked", "failed"} /\ job'[a].order = o
        /\ job[a].step = "calling" /\ job[a].order = o
        /\ \A b \in Actors \ {a} : job'[b] = job[b]
        /\ acks' = IF job'[a].step = "acked" THEN [acks EXCEPT ![o] = @ + 1] ELSE acks
        /\ submissions' = [submissions EXCEPT ![o] = @ + 1]
        /\ UNCHANGED <<todo, order, staged, batch, net, crashes, aborts, booked>>
    BY <1>0, CallOK DEF Core, Shape
  <1>2. UNCHANGED <<alerts, answer, inPass>>
    BY DEF Call
  <1>3. /\ order[o].status \in {"none", "retrying"} /\ staged[o].status = "none" /\ booked[o] = 0
    BY <1>1, InHand DEF Core
  <1>4. ~Answered(o) /\ ~Acked(o)
    BY <1>1, NotAnswered
  <1>5. /\ submissions[o] \in Nat /\ acks[o] \in Nat
        /\ submissions' \in [Orders -> Nat] /\ acks' \in [Orders -> Nat]
        /\ submissions'[o] = submissions[o] + 1
        /\ acks'[o] = IF job'[a].step = "acked" THEN acks[o] + 1 ELSE acks[o]
        /\ \A r \in Orders : r # o => submissions'[r] = submissions[r] /\ acks'[r] = acks[r]
    BY <1>1 DEF Core, Shape, NumbersOK
  <1>6. Shape'
    BY <1>1, <1>5 DEF Core, Shape, RowsOK, NumbersOK
  <1>7. GateInv'
    BY <1>1, <1>2 DEF Core, GateInv
  <1>8. TaskInv'
    <2>1. ASSUME NEW d \in Deliveries, d # a PROVE TaskOf(d)'
      BY <1>1, <2>1, TaskFrame DEF Core, TaskInv, Actors
    <2>2. ASSUME NEW d \in Deliveries, d = a PROVE TaskOf(d)'
      BY <1>1, <2>2 DEF Core, TaskInv, TaskOf
    <2>3. QED
      BY <2>1, <2>2 DEF TaskInv
  <1>9. WorkerInv'
    <2>1. \A d \in Deliveries : job'[d].step # "none" /\ job'[Worker].step # "none" =>
             job'[d].order # job'[Worker].order
      BY <1>1, Holdings
    <2>2. CASE a = Worker
      BY <1>1, <1>2, <1>3, <2>1, <2>2 DEF Core, WorkerInv
    <2>3. CASE a # Worker
      <3>1. job'[Worker] = job[Worker]
        BY <1>1, <2>3 DEF Actors
      <3>2. QED
        BY <1>1, <1>2, <2>1, <3>1, WorkerFrame DEF Core
    <2>4. QED
      BY <2>2, <2>3
  <1>10. CountInv'
    <2>1. ASSUME NEW r \in Orders, r # o PROVE CountOf(r)'
      <3>1. (Answered(r)' <=> Answered(r)) /\ (Acked(r)' <=> Acked(r))
        BY <1>1, <2>1, SameAnswers
      <3>2. QED
        BY <1>1, <1>5, <2>1, <3>1, CountFrame DEF Core, CountInv
    <2>2. CountOf(o)'
      <3>1. Answered(o)' /\ (job'[a].step = "acked" => Acked(o)')
        BY <1>1 DEF Answered, Acked
      <3>2. CountOf(o)
        BY <1>1 DEF Core, CountInv
      <3>3. /\ crashes \in Nat /\ aborts \in Nat /\ order[o].attempts \in Nat
            /\ UNCHANGED <<crashes, aborts>> /\ order'[o] = order[o] /\ staged'[o] = staged[o]
            /\ booked'[o] = booked[o]
        BY <1>1, AttemptAssumption DEF Core, Shape, NumbersOK, RowsOK, RowType
      <3>4. QED
        BY <1>1, <1>3, <1>4, <1>5, <3>1, <3>2, <3>3 DEF CountOf
    <2>3. QED
      BY <2>1, <2>2 DEF CountInv
  <1>11. QED
    BY <1>1, <1>6, <1>7, <1>8, <1>9, <1>10 DEF Core, FinalKept

\* Recording an answer writes it in a row that did not count it yet.
LEMMA CountRow ==
  ASSUME Shape, NEW o \in Orders, CountOf(o), order[o].status # "success", staged[o].status = "none",
         order'[o].attempts = order[o].attempts + 1,
         order'[o].status = "success" \/ ~Acked(o),
         order'[o].status = "retrying" => order'[o].attempts < MaxAttempts,
         staged'[o].status = "none", submissions'[o] = submissions[o], acks'[o] = acks[o],
         booked'[o] = booked[o], UNCHANGED <<crashes, aborts>>
  PROVE  CountOf(o)'
  <1>1. /\ submissions[o] \in Nat /\ acks[o] \in Nat /\ crashes \in Nat /\ aborts \in Nat
        /\ order[o].attempts \in Nat
    BY AttemptAssumption DEF Shape, NumbersOK, RowsOK, RowType
  <1>2. QED
    BY <1>1 DEF CountOf

\* The same when the row is staged in the worker's session.
LEMMA CountStaged ==
  ASSUME Shape, NEW o \in Orders, CountOf(o), order[o].status # "success", staged[o].status = "none",
         order'[o] = order[o], staged'[o].attempts = order[o].attempts + 1,
         staged'[o].status # "none", staged'[o].status = "success" \/ ~Acked(o),
         submissions'[o] = submissions[o], acks'[o] = acks[o],
         booked'[o] = booked[o], UNCHANGED <<crashes, aborts>>
  PROVE  CountOf(o)'
  <1>1. /\ submissions[o] \in Nat /\ acks[o] \in Nat /\ crashes \in Nat /\ aborts \in Nat
        /\ order[o].attempts \in Nat
    BY AttemptAssumption DEF Shape, NumbersOK, RowsOK, RowType
  <1>2. QED
    BY <1>1 DEF CountOf

\* A flush makes the worker's rows durable and touches no other.
LEMMA FlushFacts ==
  ASSUME Shape, WorkerInv
  PROVE  /\ Flushed \in [Orders -> RowType] /\ NothingStaged \in [Orders -> RowType]
         /\ \A o \in Orders : Flushed[o].status = "none" => Flushed[o] = NoOrder
         /\ \A o \in Orders : order[o].status # "retrying" \/ o \in batch => Flushed[o] = order[o]
         /\ \A o \in Orders : order[o].status = "retrying" => Flushed[o].status # "none"
         /\ \A o \in Orders : NothingStaged[o] = NoOrder /\ NothingStaged[o].status = "none"
  <1>1. \A o \in Orders : order[o] \in RowType /\ staged[o] \in RowType
    BY DEF Shape, RowsOK
  <1>2. \A o \in Orders : staged[o].status = "none" => staged[o] = NoOrder
    BY DEF Shape, RowsOK
  <1>3. \A o \in Orders : order[o].status # "retrying" \/ o \in batch => staged[o] = NoOrder
    BY <1>2 DEF WorkerInv
  <1>4. \A o \in Orders : order[o].status = "none" => order[o] = NoOrder
    BY DEF Shape, RowsOK
  <1>5. \A o \in Orders : staged[o] # NoOrder => staged[o].status # "none"
    BY <1>2
  <1>6. NoOrder \in RowType /\ NoOrder.status = "none"
    BY Constants
  <1> HIDE DEF NoOrder
  <1>7. QED
    BY <1>1, <1>2, <1>3, <1>4, <1>5, <1>6 DEF Flushed, NothingStaged

\* A task that has an order in hand is of an accepted delivery.
LEMMA TaskHolds ==
  ASSUME Core, NEW d \in Deliveries, job[d].step # "none"
  PROVE  /\ answer[d] = "accepted" /\ todo[d] \in DOMAIN VenueSeq /\ VenueSeq[todo[d]] \in Venues
         /\ job[d].order = <<d, VenueSeq[todo[d]]>>
  <1>1. todo[d] \in DOMAIN VenueSeq /\ job[d].order = <<d, VenueSeq[todo[d]]>>
    BY DEF Core, TaskInv, TaskOf
  <1>2. todo[d] # 0
    BY <1>1, RouteFacts
  <1>3. QED
    BY <1>1, <1>2, RouteFacts DEF Core, GateInv

\* The commit of _on_success, by a background task.
LEMMA TaskSucceeds ==
  ASSUME Core, NEW a \in Actors, a # Worker, RecordSuccess(a)
  PROVE  Core' /\ FinalKept
  <1> USE DEF worker, history
  <1>0. PICK o \in Orders : o = job[a].order
    BY InHand DEF Core, RecordSuccess
  <1>1. /\ order' = [order EXCEPT ![o] = SuccessRow(a)]
        /\ job' = [job EXCEPT ![a] = [@ EXCEPT !.step = "recorded"]]
        /\ job[a].step = "acked" /\ a \in Deliveries
        /\ UNCHANGED <<alerts, answer, todo, staged, inPass, batch, net, crashes, aborts,
                       submissions, acks, booked>>
    BY <1>0 DEF RecordSuccess, Actors
  <1>2. /\ order[o].status = "none" /\ staged[o].status = "none" /\ booked[o] = 0
        /\ Attempt(a) \in 1..MaxAttempts /\ Attempt(a) = order[o].attempts + 1
    BY <1>0, <1>1, InHand DEF Core, TaskInv, TaskOf, Attempt
  <1>3. SuccessRow(a) \in RowType /\ SuccessRow(a).status = "success"
        /\ SuccessRow(a).attempts = order[o].attempts + 1
    BY <1>2, RowsOfJob DEF Core
  <1>4. /\ JobsOK' /\ job'[a].step = "recorded" /\ job'[a].order = o
        /\ \A b \in Actors \ {a} : job'[b] = job[b]
    BY <1>0, <1>1, StepOK DEF Core, Shape
  <1>5. /\ answer[a] = "accepted" /\ todo[a] \in DOMAIN VenueSeq /\ VenueSeq[todo[a]] \in Venues
        /\ o = <<a, VenueSeq[todo[a]]>>
    BY <1>0, <1>1, TaskHolds
  <1> HIDE DEF SuccessRow
  <1>6. order'[o] = SuccessRow(a) /\ \A r \in Orders : r # o => order'[r] = order[r]
    BY <1>1 DEF Core, Shape, RowsOK
  <1>7. Shape'
    <2>1. RowsOK'
      BY <1>1, <1>3, OneOrder DEF Core, Shape
    <2>2. QED
      BY <1>1, <1>4, <2>1 DEF Core, Shape, NumbersOK
  <1>8. GateInv'
    <2>1. \A e \in Deliveries, v \in Venues : order'[<<e, v>>].status # "none" =>
             order[<<e, v>>].status # "none" \/ answer[e] = "accepted"
      BY <1>5, <1>6, OrdersArePairs
    <2>2. QED
      BY <1>1, <2>1, GateFrame DEF Core, GateInv
  <1>9. TaskInv'
    <2>1. ASSUME NEW e \in Deliveries, e # a PROVE TaskOf(e)'
      <3>1. \A v \in Venues : order'[<<e, v>>] = order[<<e, v>>]
        BY <1>5, <1>6, <2>1, OrdersArePairs
      <3>2. job'[e] = job[e]
        BY <1>4, <2>1 DEF Actors
      <3>3. QED
        BY <1>1, <3>1, <3>2, TaskFrame DEF Core, TaskInv
    <2>2. TaskOf(a)'
      <3>1. \A i \in DOMAIN VenueSeq : i > todo[a] => <<a, VenueSeq[i]>> # o
        BY <1>5, RouteFacts
      <3>2. \A i \in DOMAIN VenueSeq : todo'[a] # 0 /\ i > todo'[a] =>
               order'[<<a, VenueSeq[i]>>].status = "none"
        BY <1>1, <1>6, <3>1, RouteFacts, OrdersArePairs DEF Core, TaskInv, TaskOf
      <3>3. QED
        BY <1>1, <1>2, <1>3, <1>4, <1>5, <1>6, <3>2 DEF TaskOf
    <2>3. QED
      BY <2>1, <2>2 DEF TaskInv
  <1>10. WorkerInv'
    <2>1. \A r \in Orders : order[r].status # "none" => order'[r] = order[r]
      BY <1>2, <1>6
    <2>2. job'[Worker] = job[Worker]
      BY <1>4 DEF Actors
    <2>3. \A d \in Deliveries : job'[d].step # "none" /\ job[Worker].step # "none" =>
             job'[d].order # job[Worker].order
      BY <1>0, <1>1, <1>4, <2>2, Holdings
    <2>4. QED
      BY <1>1, <2>1, <2>2, <2>3, WorkerFrame DEF Core
  <1>11. CountInv'
    <2>1. ASSUME NEW r \in Orders, r # o PROVE CountOf(r)'
      <3>1. (Answered(r)' <=> Answered(r)) /\ (Acked(r)' <=> Acked(r))
        BY <1>0, <1>4, <2>1, SameAnswers
      <3>2. QED
        BY <1>1, <1>6, <2>1, <3>1, CountFrame DEF Core, CountInv
    <2>2. CountOf(o)'
      BY <1>1, <1>2, <1>3, <1>6, CountRow DEF Core, CountInv
    <2>3. QED
      BY <2>1, <2>2 DEF CountInv
  <1>12. FinalKept
    BY <1>2, <1>6 DEF FinalKept, Terminal
  <1>13. QED
    BY <1>7, <1>8, <1>9, <1>10, <1>11, <1>12 DEF Core

\* The same by the retry worker, whose commit makes its other rows durable as well.
LEMMA WorkerSucceeds ==
  ASSUME Core, RecordSuccess(Worker)
  PROVE  Core' /\ FinalKept
  <1> USE DEF worker, history
  <1>0. Worker \in Actors
    BY DEF Actors
  <1>1. PICK o \in Orders : o = job[Worker].order
    BY <1>0, InHand DEF Core, RecordSuccess
  <1>2. /\ order' = [Flushed EXCEPT ![o] = SuccessRow(Worker)]
        /\ staged' = NothingStaged
        /\ job' = [job EXCEPT ![Worker] = [@ EXCEPT !.step = "recorded"]]
        /\ job[Worker].step = "acked"
        /\ UNCHANGED <<alerts, answer, todo, inPass, batch, net, crashes, aborts,
                       submissions, acks, booked>>
    BY <1>1 DEF RecordSuccess
  <1>3. /\ order[o].status = "retrying" /\ staged[o].status = "none" /\ booked[o] = 0 /\ o \notin batch
        /\ Attempt(Worker) \in 1..MaxAttempts /\ Attempt(Worker) = order[o].attempts + 1
    BY <1>0, <1>1, <1>2, InHand DEF Core, WorkerInv, Attempt
  <1>4. SuccessRow(Worker) \in RowType /\ SuccessRow(Worker).status = "success"
        /\ SuccessRow(Worker).attempts = order[o].attempts + 1
    BY <1>0, <1>3, RowsOfJob DEF Core
  <1>5. /\ JobsOK' /\ job'[Worker].step = "recorded" /\ job'[Worker].order = o
        /\ \A b \in Actors \ {Worker} : job'[b] = job[b]
    BY <1>0, <1>1, <1>2, StepOK DEF Core, Shape
  <1> HIDE DEF SuccessRow
  <1>6. /\ order'[o] = SuccessRow(Worker)
        /\ \A r \in Orders : r # o => order'[r] = Flushed[r]
        /\ \A r \in Orders : r # o /\ (order[r].status # "retrying" \/ r \in batch) =>
              order'[r] = order[r]
        /\ \A r \in Orders : staged'[r] = NoOrder /\ staged'[r].status = "none"
    BY <1>2, FlushFacts DEF Core
  <1>7. Shape'
    <2>1. RowsOK'
      BY <1>2, <1>4, FlushFacts DEF Core, RowsOK
    <2>2. QED
      BY <1>2, <1>5, <2>1 DEF Core, Shape, NumbersOK
  <1>8. GateInv'
    <2>1. \A r \in Orders : order'[r].status # "none" => order[r].status # "none"
      BY <1>3, <1>6
    <2>2. QED
      BY <1>2, <2>1, GateFrame, OrdersArePairs DEF Core, GateInv
  <1>9. TaskInv'
    <2>1. ASSUME NEW e \in Deliveries PROVE TaskOf(e)'
      <3>1. \A r \in Orders : order[r].status \in {"none", "success"} => order'[r] = order[r]
        BY <1>3, <1>6
      <3>2. job'[e] = job[e]
        BY <1>5, WorkerAssumption DEF Actors
      <3>3. QED
        BY <1>2, <3>1, <3>2, OrdersArePairs, TaskFrame DEF Core, TaskInv
    <2>2. QED
      BY <2>1 DEF TaskInv
  <1>10. WorkerInv'
    <2>1. \A d \in Deliveries : job'[d].step # "none" /\ job'[Worker].step # "none" =>
             job'[d].order # job'[Worker].order
      BY <1>0, <1>1, <1>2, <1>5, Holdings
    <2>2. batch \subseteq Orders
      BY DEF Core, Shape, NumbersOK
    <2>3. inPass
      BY <1>2 DEF Core, WorkerInv
    <2>4. \A r \in batch : order'[r].status = "retrying"
      BY <1>3, <1>6, <2>2 DEF Core, WorkerInv
    <2>5. QED
      BY <1>2, <1>3, <1>4, <1>5, <1>6, <2>1, <2>3, <2>4 DEF WorkerInv
  <1>11. CountInv'
    <2>1. ASSUME NEW r \in Orders, r # o PROVE CountOf(r)'
      <3>1. (Answered(r)' <=> Answered(r)) /\ (Acked(r)' <=> Acked(r))
        BY <1>0, <1>1, <1>5, <2>1, SameAnswers
      <3>2. QED
        BY <1>2, <1>6, <2>1, <3>1, CountFlushed DEF Core, CountInv
    <2>2. CountOf(o)'
      BY <1>2, <1>3, <1>4, <1>6, CountRow DEF Core, CountInv
    <2>3. QED
      BY <2>1, <2>2 DEF CountInv
  <1>12. FinalKept
    BY <1>3, <1>6 DEF FinalKept, Terminal
  <1>13. QED
    BY <1>7, <1>8, <1>9, <1>10, <1>11, <1>12 DEF Core

\* An actor lets go of its order, or of the venue it was at.
LEMMA LeaveFrame ==
  ASSUME Core, NEW a \in Actors, a # Worker => todo[a] \in DOMAIN VenueSeq, Leave(a)
  PROVE  /\ JobsOK' /\ todo' \in [Deliveries -> 0..(Len(VenueSeq) + 1)]
         /\ job'[a].step = "none" /\ \A b \in Actors \ {a} : job'[b] = job[b]
         /\ a # Worker => todo'[a] = todo[a] + 1
         /\ \A d \in Deliveries : d # a => todo'[d] = todo[d]
         /\ \A d \in Deliveries : job'[d].step # "none" /\ job'[Worker].step # "none" =>
               job'[d].order # job'[Worker].order
  <1>1. JobsOK' /\ job'[a] = NoJob /\ \A b \in Actors \ {a} : job'[b] = job[b]
    <2>1. job' = [job EXCEPT ![a] = NoJob]
      BY DEF Leave
    <2>2. JobsOK'
      BY <2>1, NoJobOK, OneJob DEF Core, Shape
    <2> HIDE DEF NoJob
    <2>3. QED
      BY <2>1, <2>2 DEF Core, Shape, JobsOK
  <1>2. job'[a].step = "none"
    BY <1>1, Constants
  <1>3. \A d \in Deliveries : job'[d].step # "none" /\ job'[Worker].step # "none" =>
           job'[d].order # job'[Worker].order
    BY <1>1, <1>2 DEF Core, WorkerInv, Actors
  <1>4. /\ todo \in [Deliveries -> 0..(Len(VenueSeq) + 1)]
        /\ a # Worker => todo' = [todo EXCEPT ![a] = @ + 1]
        /\ a = Worker => todo' = todo
    BY DEF Leave, Core, Shape, NumbersOK
  <1>5. a # Worker => a \in Deliveries /\ todo[a] \in 1..Len(VenueSeq)
    BY RouteFacts DEF Actors
  <1>6. Worker \notin Deliveries /\ Len(VenueSeq) \in Nat
    BY WorkerAssumption, RouteFacts
  <1>7. QED
    BY <1>1, <1>2, <1>3, <1>4, <1>5, <1>6

\* The end of an actor's work.
LEMMA LeaveFacts ==
  ASSUME Core, NEW a \in Actors, job[a].step # "none", Leave(a)
  PROVE  /\ JobsOK' /\ todo' \in [Deliveries -> 0..(Len(VenueSeq) + 1)]
         /\ job'[a].step = "none" /\ \A b \in Actors \ {a} : job'[b] = job[b]
         /\ a # Worker => todo'[a] = todo[a] + 1
         /\ \A d \in Deliveries : d # a => todo'[d] = todo[d]
         /\ \A d \in Deliveries : job'[d].step # "none" /\ job'[Worker].step # "none" =>
               job'[d].order # job'[Worker].order
  <1>1. a # Worker => todo[a] \in DOMAIN VenueSeq
    BY TaskHolds DEF Actors
  <1>2. QED
    BY <1>1, LeaveFrame

\* A task leaves its order: what TaskInv needs of the rows it wrote.
LEMMA TasksLeave ==
  ASSUME Core, NEW a \in Actors, job[a].step # "none", Leave(a), NEW o \in Orders, o = job[a].order,
         \A r \in Orders : r # o /\ order[r].status \in {"none", "success"} =>
            order'[r].status = order[r].status,
         a # Worker => \A r \in Orders : r # o => order'[r] = order[r],
         a = Worker => order'[o].status = order[o].status \/ order[o].status = "retrying",
         \A r \in Orders : r # o => booked'[r] = booked[r]
  PROVE  TaskInv'
  <1>1. ASSUME NEW e \in Deliveries, e # a PROVE TaskOf(e)'
    <2>1. job'[e] = job[e] /\ todo'[e] = todo[e] /\ e \in Actors
      BY <1>1, LeaveFacts DEF Actors
    <2>2. job[e].step # "none" => job[e].order # o /\ job[e].order \in Orders
      BY <1>1, <2>1, OwnOrder DEF Core, Shape, JobsOK, JobOK
    <2>3. \A v \in Venues : a # Worker => <<e, v>> # o
      BY <1>1, TaskHolds DEF Actors
    <2>4. \A v \in Venues : order[<<e, v>>].status \in {"none", "success"} =>
             order'[<<e, v>>].status = order[<<e, v>>].status
      BY <2>3, OrdersArePairs
    <2>5. JobOK(job[e])
      BY <2>1 DEF Core, Shape, JobsOK
    <2>6. job[e].step = "recorded" => booked'[job[e].order] = booked[job[e].order]
      BY <2>2
    <2>7. QED
      BY <2>1, <2>4, <2>6, TaskFrame DEF Core, TaskInv
  <1>2. ASSUME NEW e \in Deliveries, e = a PROVE TaskOf(e)'
    <2>1. e # Worker
      BY WorkerAssumption
    <2>2. /\ todo[e] \in DOMAIN VenueSeq /\ todo'[e] = todo[e] + 1 /\ job'[e].step = "none"
          /\ o = <<e, VenueSeq[todo[e]]>> /\ VenueSeq[todo[e]] \in Venues
      BY <1>2, <2>1, LeaveFacts, TaskHolds
    <2>3. \A v \in Venues : v # VenueSeq[todo[e]] => order'[<<e, v>>] = order[<<e, v>>]
      BY <1>2, <2>1, <2>2, OrdersArePairs
    <2>4. QED
      BY <2>2, <2>3, TaskLeaves DEF Core, TaskInv
  <1>3. QED
    BY <1>1, <1>2 DEF TaskInv

\* The ledger commit.
LEMMA BookStep ==
  ASSUME Core, NEW a \in Actors, BookFill(a)
  PROVE  Core' /\ FinalKept
  <1> USE DEF worker, history
  <1>0. job[a].step = "recorded" /\ Leave(a)
    BY DEF BookFill
  <1>1. PICK o \in Orders : o = job[a].order
    BY <1>0 DEF Core, Shape, JobsOK, JobOK
  <1>2. /\ UNCHANGED <<alerts, answer, order, staged, inPass, batch, crashes, aborts,
                       submissions, acks>>
        /\ net' = [net EXCEPT ![VenueOf(o)] = @ + Signed(o, job[a].filled)]
        /\ booked' = [booked EXCEPT ![o] = @ + 1]
    BY <1>1 DEF BookFill
  <1>3. order[o].status = "success" /\ booked[o] = 0
    BY <1>0, <1>1 DEF Core, TaskInv, TaskOf, WorkerInv, Actors
  <1>4. booked' \in [Orders -> Nat] /\ booked'[o] = 1 /\ \A r \in Orders : r # o => booked'[r] = booked[r]
    BY <1>2, <1>3 DEF Core, Shape, NumbersOK
  <1>5. Shape'
    <2>1. job[a].filled \in Int
      BY DEF Core, Shape, JobsOK, JobOK, JobType
    <2>2. Signed(o, job[a].filled) \in Int
      BY <2>1 DEF Signed
    <2>3. net' \in [Venues -> Int]
      <3> HIDE DEF Signed
      <3> QED
        BY <1>2, <2>2, OrdersArePairs DEF VenueOf, Core, Shape, NumbersOK
    <2>4. JobsOK' /\ todo' \in [Deliveries -> 0..(Len(VenueSeq) + 1)]
      BY <1>0, LeaveFacts
    <2>5. QED
      BY <1>2, <1>4, <2>3, <2>4 DEF Core, Shape, RowsOK, NumbersOK
  <1>6. GateInv'
    <2>1. \A d \in Deliveries : todo'[d] # 0 => answer[d] = "accepted"
      BY <1>0, LeaveFacts, TaskHolds DEF Core, GateInv
    <2>2. QED
      BY <1>2, <2>1, GateFrame
         DEF Core
  <1>7. TaskInv'
    BY <1>0, <1>1, <1>2, <1>3, <1>4, TasksLeave
  <1>8. WorkerInv'
    <2>1. \A d \in Deliveries : job'[d].step # "none" /\ job'[Worker].step # "none" =>
             job'[d].order # job'[Worker].order
      BY <1>0, LeaveFacts
    <2>2. CASE a = Worker
      BY <1>0, <1>2, <2>1, <2>2, LeaveFacts DEF Core, WorkerInv
    <2>3. CASE a # Worker
      <3>1. job'[Worker] = job[Worker]
        BY <1>0, <2>3, LeaveFacts DEF Actors
      <3>2. job[Worker].step # "none" => job[Worker].order # o /\ job[Worker].order \in Orders
        BY <1>0, <1>1, <2>3, OwnOrder DEF Core, Shape, JobsOK, JobOK, Actors
      <3>3. job[Worker].step = "recorded" => booked'[job[Worker].order] = booked[job[Worker].order]
        BY <1>4, <3>2
      <3>4. QED
        BY <1>2, <2>1, <3>1, <3>3, WorkerFrame DEF Core
    <2>4. QED
      BY <2>2, <2>3
  <1>9. CountInv'
    <2>1. ASSUME NEW r \in Orders
          PROVE  (Answered(r)' <=> Answered(r)) /\ (Acked(r)' <=> Acked(r))
      BY <1>0, LeaveFacts, SameAnswers
    <2>2. ASSUME NEW r \in Orders, r # o PROVE CountOf(r)'
      BY <1>2, <1>4, <2>1, <2>2, CountFrame DEF Core, CountInv
    <2>3. CountOf(o)'
      BY <1>2, <1>3, <1>4, <2>1 DEF Core, CountInv, CountOf
    <2>4. QED
      BY <2>2, <2>3 DEF CountInv
  <1>10. QED
    BY <1>2, <1>5, <1>6, <1>7, <1>8, <1>9 DEF Core, FinalKept

\* A task writes the row of an order that did not have one, and leaves.
LEMMA TaskWrites ==
  ASSUME Core, NEW a \in Actors, a # Worker, job[a].step \in {"acked", "failed"}, Leave(a),
         NEW row \in RowType, row.attempts = Attempt(a), row.status \in {"success", "retrying", "dead"},
         row.status = "success" \/ job[a].step = "failed",
         row.status = "retrying" => Attempt(a) < MaxAttempts, Write(a, row),
         UNCHANGED <<alerts, answer, inPass, batch, net, crashes, aborts, submissions, acks, booked>>
  PROVE  Core' /\ FinalKept
  <1>0. job[a].step # "none" /\ a \in Deliveries
    BY DEF Actors
  <1>1. PICK o \in Orders : o = job[a].order
    BY InHand DEF Core
  <1>2. order' = [order EXCEPT ![o] = row] /\ UNCHANGED staged
    BY <1>1 DEF Write
  <1>3. /\ order[o].status = "none" /\ staged[o].status = "none" /\ booked[o] = 0
        /\ row.attempts = order[o].attempts + 1
    BY <1>0, <1>1, InHand DEF Core, TaskInv, TaskOf, Attempt
  <1>4. order'[o] = row /\ \A r \in Orders : r # o => order'[r] = order[r]
    BY <1>2 DEF Core, Shape, RowsOK
  <1>5. answer[a] = "accepted" /\ \A d \in Deliveries, v \in Venues : <<d, v>> = o => d = a
    BY <1>0, <1>1, TaskHolds
  <1>6. Shape'
    <2>1. RowsOK'
      BY <1>2, OneOrder DEF Core, Shape
    <2>2. JobsOK' /\ todo' \in [Deliveries -> 0..(Len(VenueSeq) + 1)]
      BY <1>0, LeaveFacts
    <2>3. QED
      BY <2>1, <2>2 DEF Core, Shape, NumbersOK
  <1>7. GateInv'
    <2>1. \A d \in Deliveries : todo'[d] # 0 => answer[d] = "accepted"
      BY <1>0, <1>5, LeaveFacts DEF Core, GateInv
    <2>2. \A e \in Deliveries, v \in Venues : order'[<<e, v>>].status # "none" =>
             order[<<e, v>>].status # "none" \/ answer[e] = "accepted"
      BY <1>4, <1>5, OrdersArePairs
    <2>3. QED
      BY <2>1, <2>2, GateFrame DEF Core
  <1>8. TaskInv'
    BY <1>0, <1>1, <1>4, TasksLeave
  <1>9. WorkerInv'
    <2>1. \A r \in Orders : order[r].status # "none" => order'[r] = order[r]
      BY <1>3, <1>4
    <2>2. job'[Worker] = job[Worker]
      BY <1>0, LeaveFacts DEF Actors
    <2>3. \A d \in Deliveries : job'[d].step # "none" /\ job[Worker].step # "none" =>
             job'[d].order # job[Worker].order
      BY <1>0, <2>2, LeaveFacts
    <2>4. QED
      BY <1>2, <2>1, <2>2, <2>3, WorkerFrame DEF Core
  <1>10. CountInv'
    <2>1. ASSUME NEW r \in Orders, r # o PROVE CountOf(r)'
      <3>1. job'[a].step = "none" /\ \A b \in Actors \ {a} : job'[b] = job[b]
        BY <1>0, LeaveFacts
      <3>2. (Answered(r)' <=> Answered(r)) /\ (Acked(r)' <=> Acked(r))
        BY <1>1, <2>1, <3>1, SameAnswers
      <3>3. QED
        BY <1>2, <1>4, <2>1, <3>2, CountFrame DEF Core, CountInv
    <2>2. row.status = "success" \/ ~Acked(o)
      BY <1>1, OwnOrder DEF Core, Acked
    <2>3. row.status = "retrying" => row.attempts < MaxAttempts
      OBVIOUS
    <2>4. CountOf(o)'
      BY <1>2, <1>3, <1>4, <2>2, <2>3, CountRow DEF Core, CountInv
    <2>5. QED
      BY <2>1, <2>4 DEF CountInv
  <1>11. FinalKept
    BY <1>3, <1>4 DEF FinalKept, Terminal
  <1>12. QED
    BY <1>6, <1>7, <1>8, <1>9, <1>10, <1>11 DEF Core

\* The retry worker stages the row of an order of its pass.
LEMMA WorkerWrites ==
  ASSUME Core, job[Worker].step \in {"acked", "failed"}, Leave(Worker),
         NEW row \in RowType, row.attempts = Attempt(Worker),
         row.status \in {"success", "retrying", "dead"},
         row.status = "success" \/ job[Worker].step = "failed",
         row.status = "retrying" => Attempt(Worker) < MaxAttempts, Write(Worker, row),
         UNCHANGED <<alerts, answer, inPass, batch, net, crashes, aborts, submissions, acks, booked>>
  PROVE  Core' /\ FinalKept
  <1>0. job[Worker].step # "none" /\ Worker \in Actors /\ Worker \notin Deliveries
    BY WorkerAssumption DEF Actors
  <1>1. PICK o \in Orders : o = job[Worker].order
    BY <1>0, InHand DEF Core
  <1>2. staged' = [staged EXCEPT ![o] = row] /\ UNCHANGED order
    BY <1>1 DEF Write
  <1>3. /\ order[o].status = "retrying" /\ staged[o].status = "none" /\ booked[o] = 0
        /\ row.attempts = order[o].attempts + 1 /\ o \notin batch
    BY <1>0, <1>1, InHand DEF Core, WorkerInv, Attempt
  <1>4. staged'[o] = row /\ \A r \in Orders : r # o => staged'[r] = staged[r]
    BY <1>2 DEF Core, Shape, RowsOK
  <1>5. /\ JobsOK' /\ todo' = todo /\ job'[Worker].step = "none"
        /\ todo' \in [Deliveries -> 0..(Len(VenueSeq) + 1)]
        /\ \A b \in Actors \ {Worker} : job'[b] = job[b]
    BY <1>0, LeaveFacts DEF Leave
  <1>6. Shape'
    <2>1. RowsOK'
      BY <1>2, OneStaged DEF Core, Shape
    <2>2. QED
      BY <1>5, <2>1 DEF Core, Shape, NumbersOK
  <1>7. GateInv'
    BY <1>2, <1>5 DEF Core, GateInv
  <1>8. TaskInv'
    BY <1>0, <1>1, <1>2, TasksLeave
  <1>9. WorkerInv'
    <2>1. inPass
      BY <1>0 DEF Core, WorkerInv
    <2>2. \A r \in Orders : staged'[r].status # "none" =>
             /\ order'[r].status = "retrying" /\ r \notin batch
             /\ staged'[r].attempts = order'[r].attempts + 1
             /\ staged'[r].status \in {"retrying", "success", "dead"}
             /\ staged'[r].status = "retrying" => staged'[r].attempts < MaxAttempts
      BY <1>2, <1>3, <1>4 DEF Core, WorkerInv
    <2>3. QED
      BY <1>2, <1>5, <2>1, <2>2 DEF Core, WorkerInv
  <1>10. CountInv'
    <2>1. ASSUME NEW r \in Orders, r # o PROVE CountOf(r)'
      <3>1. (Answered(r)' <=> Answered(r)) /\ (Acked(r)' <=> Acked(r))
        BY <1>0, <1>1, <1>5, <2>1, SameAnswers
      <3>2. QED
        BY <1>2, <1>4, <2>1, <3>1, CountFrame DEF Core, CountInv
    <2>2. row.status = "success" \/ ~Acked(o)
      BY <1>0, <1>1, OwnOrder DEF Core, Acked
    <2>3. CountOf(o)'
      BY <1>2, <1>3, <1>4, <2>2, CountStaged DEF Core, CountInv
    <2>4. QED
      BY <2>1, <2>3 DEF CountInv
  <1>11. QED
    BY <1>2, <1>6, <1>7, <1>8, <1>9, <1>10 DEF Core, FinalKept

\* _on_success without a price, and _on_failure.
LEMMA RecordStep ==
  ASSUME Core, NEW a \in Actors, RecordUnpriced(a) \/ RecordFailure(a)
  PROVE  Core' /\ FinalKept
  <1> USE DEF history
  <1>1. /\ job[a].step \in {"acked", "failed"} /\ Leave(a)
        /\ UNCHANGED <<alerts, answer, inPass, batch, net, crashes, aborts, submissions, acks, booked>>
    BY DEF RecordUnpriced, RecordFailure
  <1>2. Attempt(a) \in 1..MaxAttempts
    BY <1>1, InHand DEF Core
  <1>3. PICK row \in RowType :
           /\ row.attempts = Attempt(a) /\ row.status \in {"success", "retrying", "dead"}
           /\ row.status = "success" \/ job[a].step = "failed"
           /\ row.status = "retrying" => Attempt(a) < MaxAttempts
           /\ Write(a, row)
    <2>1. CASE RecordUnpriced(a)
      BY <1>2, <2>1, RowsOfJob DEF Core, RecordUnpriced
    <2>2. CASE RecordFailure(a)
      BY <1>2, <2>2, RowsOfJob DEF Core, RecordFailure
    <2>3. QED
      BY <2>1, <2>2
  <1>4. CASE a = Worker
    BY <1>1, <1>3, <1>4, WorkerWrites
  <1>5. CASE a # Worker
    BY <1>1, <1>3, <1>5, TaskWrites
  <1>6. QED
    BY <1>4, <1>5

\* An exception: a task skips the venue, the worker's pass is rolled back, and an answer in
\* hand is lost.
LEMMA AbortStep ==
  ASSUME Core, NEW a \in Actors, SessionRaises(a)
  PROVE  Core' /\ FinalKept
  <1> USE DEF worker, history
  <1>1. /\ CanRaise(a) /\ Leave(a) /\ aborts' = aborts + 1
        /\ UNCHANGED <<alerts, answer, order, net, crashes, submissions, acks, booked>>
    BY DEF SessionRaises
  <1>2. IF a = Worker
        THEN inPass' = FALSE /\ batch' = {} /\ staged' = NothingStaged
        ELSE UNCHANGED <<inPass, batch, staged>>
    BY DEF SessionRaises
  <1>3. a # Worker => a \in Deliveries /\ todo[a] \in DOMAIN VenueSeq
    <2>1. ASSUME a # Worker, job[a].step # "none" PROVE todo[a] \in DOMAIN VenueSeq
      BY <2>1, TaskHolds DEF Actors
    <2>2. ASSUME a # Worker, job[a].step = "none" PROVE todo[a] \in DOMAIN VenueSeq
      BY <1>1, <2>2 DEF CanRaise, Dispatching
    <2>3. QED
      BY <2>1, <2>2 DEF Actors
  <1>4. /\ JobsOK' /\ todo' \in [Deliveries -> 0..(Len(VenueSeq) + 1)]
        /\ job'[a].step = "none" /\ \A b \in Actors \ {a} : job'[b] = job[b]
        /\ a # Worker => todo'[a] = todo[a] + 1
        /\ \A d \in Deliveries : d # a => todo'[d] = todo[d]
        /\ \A d \in Deliveries : job'[d].step # "none" /\ job'[Worker].step # "none" =>
              job'[d].order # job'[Worker].order
    BY <1>1, <1>3, LeaveFrame
  <1>5. Shape'
    <2>1. RowsOK'
      BY <1>1, <1>2, FlushFacts DEF Core, Shape, RowsOK
    <2>2. QED
      BY <1>1, <1>2, <1>4, <2>1 DEF Core, Shape, NumbersOK
  <1>6. GateInv'
    <2>1. a # Worker => answer[a] = "accepted"
      <3>1. a # Worker => todo[a] # 0
        BY <1>3, RouteFacts
      <3>2. QED
        BY <1>3, <3>1 DEF Core, GateInv
    <2>2. \A d \in Deliveries : todo'[d] # 0 => answer[d] = "accepted"
      BY <1>4, <2>1, WorkerAssumption DEF Core, GateInv
    <2>3. QED
      BY <1>1, <2>2, GateFrame DEF Core
  <1>7. TaskInv'
    <2>1. ASSUME NEW e \in Deliveries, e # a PROVE TaskOf(e)'
      <3>1. job'[e] = job[e] /\ todo'[e] = todo[e]
        BY <1>4, <2>1 DEF Actors
      <3>2. QED
        BY <1>1, <3>1, TaskFrame DEF Core, TaskInv
    <2>2. ASSUME NEW e \in Deliveries, e = a PROVE TaskOf(e)'
      <3>1. e # Worker
        BY WorkerAssumption
      <3>2. todo[e] \in DOMAIN VenueSeq /\ todo'[e] = todo[e] + 1 /\ job'[e].step = "none"
        BY <1>3, <1>4, <2>2, <3>1
      <3>3. QED
        BY <1>1, <3>2, TaskLeaves DEF Core, TaskInv
    <2>3. QED
      BY <2>1, <2>2 DEF TaskInv
  <1>8. WorkerInv'
    <2>1. CASE a = Worker
      <3>1. job'[Worker].step = "none" /\ batch' = {} /\ \A r \in Orders : staged'[r].status = "none"
        BY <1>2, <1>4, <2>1, FlushFacts DEF Core
      <3>2. QED
        BY <1>4, <3>1 DEF WorkerInv
    <2>2. CASE a # Worker
      <3>1. job'[Worker] = job[Worker]
        BY <1>4, <2>2 DEF Actors
      <3>2. QED
        BY <1>1, <1>2, <1>4, <2>2, <3>1, WorkerFrame DEF Core
    <2>3. QED
      BY <2>1, <2>2
  <1>9. CountInv'
    <2>1. CASE a = Worker
      <3>1. \A r \in Orders : staged'[r] = NoOrder
        BY <1>2, <2>1, FlushFacts DEF Core
      <3>2. QED
        BY <1>1, <3>1, CountLost DEF Core, CountInv
    <2>2. CASE a # Worker
      <3>1. ASSUME NEW r \in Orders, job[a].order = r => job[a].step \notin {"acked", "failed"}
            PROVE  CountOf(r)'
        <4>1. (Answered(r)' <=> Answered(r)) /\ (Acked(r)' <=> Acked(r))
          BY <1>4, <3>1, SameAnswers
        <4>2. QED
          BY <1>1, <1>2, <2>2, <4>1, CountFrame DEF Core, CountInv
      <3>2. ASSUME NEW r \in Orders, job[a].order = r, job[a].step \in {"acked", "failed"}
            PROVE  CountOf(r)'
        <4>1. order[r].status = "none"
          BY <1>3, <2>2, <3>2 DEF Core, TaskInv, TaskOf
        <4>2. staged[r].status = "none"
          BY <4>1 DEF Core, WorkerInv
        <4>3. staged'[r] = NoOrder
          BY <1>2, <2>2, <4>2 DEF Core, Shape, RowsOK
        <4>4. QED
          BY <1>1, <4>3, CountLost DEF Core, CountInv
      <3>3. QED
        BY <3>1, <3>2 DEF CountInv
    <2>3. QED
      BY <2>1, <2>2
  <1>10. QED
    BY <1>1, <1>5, <1>6, <1>7, <1>8, <1>9 DEF Core, FinalKept
----------------------------------------------------------------------------
(* The retry worker, the admin page and restarts. *)

\* A pass starts.
LEMMA ScanStep ==
  ASSUME Core, ScanRetries
  PROVE  Core' /\ FinalKept
  <1> USE DEF worker, history
  <1>1. /\ ~inPass /\ inPass' = TRUE /\ batch' \subseteq {o \in Orders : order[o].status = "retrying"}
        /\ UNCHANGED <<alerts, answer, todo, order, job, staged, net, crashes, aborts,
                       submissions, acks, booked>>
    BY DEF ScanRetries
  <1>2. job[Worker].step = "none" /\ \A o \in Orders : staged[o].status = "none"
    BY <1>1 DEF Core, WorkerInv
  <1>3. Shape'
    BY <1>1 DEF Core, Shape, RowsOK, JobsOK, JobOK, NumbersOK
  <1>4. GateInv'
    BY <1>1 DEF Core, GateInv
  <1>5. TaskInv'
    BY <1>1, TaskFrame DEF Core, TaskInv
  <1>6. WorkerInv'
    BY <1>1, <1>2 DEF WorkerInv
  <1>7. CountInv'
    BY <1>1, CountsFrame DEF Core, Answered, Acked
  <1>8. QED
    BY <1>1, <1>3, <1>4, <1>5, <1>6, <1>7 DEF Core, FinalKept

\* The worker takes the next order of its pass.
LEMMA ReplayStep ==
  ASSUME Core, ReplayNext
  PROVE  Core' /\ FinalKept
  <1> USE DEF worker, history
  <1>1. /\ inPass /\ job[Worker] = NoJob
        /\ UNCHANGED <<alerts, answer, todo, order, inPass, staged, net, crashes, aborts,
                       submissions, acks, booked>>
    BY DEF ReplayNext
  <1>2. PICK o \in batch : /\ batch' = batch \ {o}
                           /\ job' = [job EXCEPT ![Worker] = Started(o, order[o].qty)]
    BY Zenon DEF ReplayNext, Started
  <1>3. /\ o \in Orders /\ order[o].status = "retrying" /\ order[o].qty \in Nat
        /\ staged[o].status = "none" /\ job[Worker].step = "none"
        /\ Worker \in Actors /\ Worker \notin Deliveries
    <2>1. o \in Orders
      BY DEF Core, Shape, NumbersOK
    <2>2. order[o] \in RowType
      BY <2>1 DEF Core, Shape, RowsOK
    <2>3. QED
      BY <1>1, <2>1, <2>2, Constants, WorkerAssumption DEF Core, WorkerInv, RowType, Actors
  <1> DEFINE j == Started(o, order[o].qty)
  <1>4. JobOK(j) /\ j.step = "calling" /\ j.order = o
    BY <1>3, NewJobType
  <1>5. /\ JobsOK' /\ job'[Worker].step = "calling" /\ job'[Worker].order = o
        /\ \A b \in Actors \ {Worker} : job'[b] = job[b]
    <2>1. job' = [job EXCEPT ![Worker] = j]
      BY <1>2
    <2> HIDE DEF j
    <2>2. QED
      BY <1>3, <1>4, <2>1, OneJob DEF Core, Shape, JobsOK
  <1>6. Shape'
    BY <1>1, <1>2, <1>5 DEF Core, Shape, RowsOK, NumbersOK
  <1>7. GateInv'
    BY <1>1 DEF Core, GateInv
  <1>8. TaskInv'
    <2>1. ASSUME NEW e \in Deliveries PROVE TaskOf(e)'
      BY <1>1, <1>3, <1>5, TaskFrame DEF Core, TaskInv, Actors
    <2>2. QED
      BY <2>1 DEF TaskInv
  <1>9. WorkerInv'
    <2>1. ASSUME NEW d \in Deliveries, job'[d].step # "none" PROVE job'[d].order # o
      <3>1. job'[d] = job[d] /\ JobOK(job[d])
        BY <1>3, <1>5 DEF Actors, Core, Shape, JobsOK
      <3>2. order[job[d].order].status \in {"none", "success"}
        BY <2>1, <3>1 DEF Core, TaskInv, TaskOf, JobOK, JobType
      <3>3. QED
        BY <1>3, <3>1, <3>2
    <2>2. QED
      BY <1>1, <1>2, <1>3, <1>5, <2>1 DEF Core, WorkerInv
  <1>10. CountInv'
    <2>1. ASSUME NEW r \in Orders
          PROVE  (Answered(r)' <=> Answered(r)) /\ (Acked(r)' <=> Acked(r))
      BY <1>3, <1>5, SameAnswers
    <2>2. QED
      BY <1>1, <2>1, CountsFrame DEF Core
  <1>11. QED
    BY <1>1, <1>6, <1>7, <1>8, <1>9, <1>10 DEF Core, FinalKept

\* The commit at the end of a pass.
LEMMA EndPassStep ==
  ASSUME Core, EndPass
  PROVE  Core' /\ FinalKept
  <1> USE DEF worker, history
  <1>1. /\ order' = Flushed /\ staged' = NothingStaged /\ inPass' = FALSE /\ batch' = {} /\ batch = {}
        /\ job[Worker].step = "none"
        /\ UNCHANGED <<alerts, answer, todo, job, net, crashes, aborts, submissions, acks, booked>>
    BY Constants DEF EndPass
  <1>2. /\ \A r \in Orders : order'[r] = Flushed[r] /\ staged'[r] = NoOrder /\ staged'[r].status = "none"
        /\ \A r \in Orders : order[r].status # "retrying" => order'[r] = order[r]
    BY <1>1, FlushFacts DEF Core
  <1>3. Shape'
    <2>1. RowsOK'
      BY <1>1, FlushFacts DEF Core, RowsOK
    <2>2. QED
      BY <1>1, <2>1 DEF Core, Shape, JobsOK, JobOK, NumbersOK
  <1>4. GateInv'
    <2>1. \A d \in Deliveries, v \in Venues : order'[<<d, v>>].status # "none" =>
             order[<<d, v>>].status # "none" \/ answer[d] = "accepted"
      BY <1>2, OrdersArePairs
    <2>2. QED
      BY <1>1, <2>1, GateFrame DEF Core, GateInv
  <1>5. TaskInv'
    <2>1. ASSUME NEW e \in Deliveries PROVE TaskOf(e)'
      BY <1>1, <1>2, OrdersArePairs, TaskFrame DEF Core, TaskInv
    <2>2. QED
      BY <2>1 DEF TaskInv
  <1>6. WorkerInv'
    BY <1>1, <1>2 DEF WorkerInv
  <1>7. CountInv'
    <2>1. ASSUME NEW r \in Orders PROVE CountOf(r)'
      BY <1>1, <1>2, CountFlushed DEF Core, CountInv, Answered, Acked
    <2>2. QED
      BY <2>1 DEF CountInv
  <1>8. QED
    BY <1>2, <1>3, <1>4, <1>5, <1>6, <1>7 DEF Core, FinalKept, Terminal

\* A restart.
LEMMA CrashStep ==
  ASSUME Core, Crash
  PROVE  Core' /\ FinalKept
  <1> USE DEF worker, history
  <1>1. /\ crashes' = crashes + 1 /\ inPass' = FALSE /\ batch' = {} /\ staged' = NothingStaged
        /\ UNCHANGED <<alerts, answer, order, net, aborts, submissions, acks, booked>>
    BY DEF Crash
  <1>2. DOMAIN job' = Actors /\ \A a \in Actors : job'[a] = NoJob /\ job'[a].step = "none"
    <2> HIDE DEF NoJob
    <2> QED
      BY Constants DEF Crash
  <1>3. todo' \in [Deliveries -> 0..(Len(VenueSeq) + 1)] /\ \A d \in Deliveries : todo'[d] = 0
    BY RouteFacts DEF Crash
  <1>4. \A r \in Orders : staged'[r] = NoOrder /\ staged'[r].status = "none"
    BY <1>1, FlushFacts DEF Core
  <1>5. Shape'
    <2>1. JobsOK'
      BY <1>2, NoJobOK DEF JobsOK, JobOK
    <2>2. RowsOK'
      BY <1>1, FlushFacts DEF Core, Shape, RowsOK
    <2>3. QED
      BY <1>1, <1>3, <2>1, <2>2 DEF Core, Shape, NumbersOK
  <1>6. GateInv'
    BY <1>1, <1>3 DEF Core, GateInv
  <1>7. TaskInv'
    BY <1>2, <1>3 DEF TaskInv, TaskOf, Actors
  <1>8. WorkerInv'
    BY <1>1, <1>2, <1>4 DEF WorkerInv, Actors
  <1>9. CountInv'
    BY <1>1, <1>4, CountLost DEF Core, CountInv
  <1>10. QED
    BY <1>1, <1>5, <1>6, <1>7, <1>8, <1>9 DEF Core, FinalKept

\* Steps that change nothing the invariant is about.
LEMMA IdleStep ==
  ASSUME Core, ToggleKillSwitch \/ UNCHANGED vars
  PROVE  Core' /\ FinalKept
  <1>1. UNCHANGED <<alerts, answer, todo, order, job, inPass, batch, staged, net, crashes, aborts,
                    submissions, acks, booked>>
    BY DEF ToggleKillSwitch, vars, worker, history
  <1>2. Shape'
    BY <1>1 DEF Core, Shape, RowsOK, JobsOK, JobOK, NumbersOK
  <1>3. GateInv'
    BY <1>1 DEF Core, GateInv
  <1>4. TaskInv'
    BY <1>1 DEF Core, TaskInv, TaskOf
  <1>5. WorkerInv'
    BY <1>1 DEF Core, WorkerInv
  <1>6. CountInv'
    BY <1>1, CountsFrame DEF Core, Answered, Acked
  <1>7. QED
    BY <1>1, <1>2, <1>3, <1>4, <1>5, <1>6 DEF Core, FinalKept
----------------------------------------------------------------------------
(* The invariant. *)

\* The sets that only grow, and the flags.
LEMMA SetsStep ==
  ASSUME Core, SetsInv, [Next]_vars
  PROVE  SetsInv'
  <1> USE DEF SetsInv, worker, history
  <1>1. ASSUME NEW d \in Deliveries, Deliver(d) PROVE SetsInv'
    BY <1>1 DEF Deliver
  <1>2. ASSUME NEW d \in Deliveries, Dispatch(d) PROVE SetsInv'
    <2>1. VenueSeq[todo[d]] \in Venues
      BY <1>2, RouteFacts DEF Dispatch, Dispatching
    <2>2. overlapped' \subseteq overlapped \cup {VenueSeq[todo[d]]}
      BY <1>2 DEF Dispatch
    <2>3. UNCHANGED <<alerts, answer, inPass, killSwitch, adapters, dropped>>
      BY <1>2 DEF Dispatch
    <2>4. QED
      BY <2>1, <2>2, <2>3
  <1>3. ASSUME NEW a \in Actors, Call(a) PROVE SetsInv'
    <2>1. VenueOf(job[a].order) \in Venues
      BY <1>3, CallOK, OrdersArePairs DEF Core, Shape, VenueOf
    <2>2. adapters' = adapters \cup {VenueOf(job[a].order)}
      BY <1>3 DEF Call
    <2>3. UNCHANGED <<alerts, answer, inPass, killSwitch, overlapped, dropped>>
      BY <1>3 DEF Call
    <2>4. QED
      BY <2>1, <2>2, <2>3
  <1>4. ASSUME NEW a \in Actors, RecordSuccess(a) PROVE SetsInv'
    BY <1>4 DEF RecordSuccess
  <1>5. ASSUME NEW a \in Actors, BookFill(a) PROVE SetsInv'
    BY <1>5 DEF BookFill
  <1>6. ASSUME NEW a \in Actors, RecordUnpriced(a) \/ RecordFailure(a) PROVE SetsInv'
    BY <1>6 DEF RecordUnpriced, RecordFailure
  <1>0. Unbooked(Actors) \subseteq Orders /\ \A a \in Actors : Unbooked({a}) \subseteq Orders
    BY DEF Unbooked, Core, Shape, JobsOK, JobOK
  <1>7. ASSUME NEW a \in Actors, SessionRaises(a) PROVE SetsInv'
    BY <1>0, <1>7 DEF SessionRaises
  <1>8. CASE ScanRetries
    BY <1>8 DEF ScanRetries
  <1>9. CASE ReplayNext
    BY <1>9 DEF ReplayNext
  <1>10. CASE EndPass
    BY <1>10 DEF EndPass
  <1>11. CASE ToggleKillSwitch
    BY <1>11 DEF ToggleKillSwitch
  <1>12. CASE Crash
    BY <1>0, <1>12 DEF Crash
  <1>13. CASE UNCHANGED vars
    BY <1>13 DEF vars
  <1>14. QED
    BY <1>1, <1>2, <1>3, <1>4, <1>5, <1>6, <1>7, <1>8, <1>9, <1>10, <1>11, <1>12, <1>13
       DEF Next, Execute

\* Every step keeps the invariant and the rows that are final.
LEMMA StepInv ==
  ASSUME IInv, [Next]_vars
  PROVE  IInv' /\ FinalKept
  <1>1. Core /\ SetsInv
    BY DEF IInv, Core
  <1>2. ASSUME NEW a \in Actors, RecordSuccess(a) PROVE Core' /\ FinalKept
    <2>1. CASE a = Worker
      BY <1>1, <1>2, <2>1, WorkerSucceeds
    <2>2. CASE a # Worker
      BY <1>1, <1>2, <2>2, TaskSucceeds
    <2>3. QED
      BY <2>1, <2>2
  <1>3. ASSUME NEW a \in Actors, Execute(a) PROVE Core' /\ FinalKept
    BY <1>1, <1>2, <1>3, CallStep, BookStep, RecordStep DEF Execute
  <1>4. Core' /\ FinalKept
    BY <1>1, <1>3, AbortStep, DeliverStep, DispatchStep, ScanStep, ReplayStep, EndPassStep, CrashStep,
       IdleStep DEF Next
  <1>5. SetsInv'
    BY <1>1, SetsStep
  <1>6. QED
    BY <1>4, <1>5 DEF IInv, Core

\* The inductive invariant holds in every state.
THEOREM Invariant == Spec => []IInv
  <1>1. IInv /\ [Next]_vars => IInv'
    BY StepInv
  <1>2. QED
    BY <1>1, InitInv, PTL DEF Spec
----------------------------------------------------------------------------
(* What follows. *)

\* Types: in particular an order never counts more attempts than RETRY_MAX_ATTEMPTS, and no
\* more is filled than was asked for.
THEOREM TypeCorrect == Spec => []TypeOK
  <1>1. IInv => TypeOK
    <2> SUFFICES ASSUME IInv PROVE TypeOK
      OBVIOUS
    <2>1. ASSUME NEW o \in Orders
          PROVE  /\ order[o].status \in {"none", "retrying"} \cup Terminal
                 /\ staged[o].status \in {"none", "retrying", "success", "dead"}
                 /\ order[o].attempts \in 0..MaxAttempts /\ staged[o].attempts \in 0..MaxAttempts
                 /\ order[o].qty \in Nat /\ order[o].priced \in BOOLEAN
      <3>1. order[o] \in RowType /\ staged[o] \in RowType
        BY DEF IInv, Shape, RowsOK
      <3>2. staged[o].status \in {"none", "retrying", "success", "dead"}
        BY DEF IInv, WorkerInv
      <3>3. QED
        BY <3>1, <3>2 DEF RowType, Terminal
    <2>2. ASSUME NEW a \in Actors
          PROVE  /\ job[a].step \in {"none", "calling", "acked", "failed", "recorded"}
                 /\ job[a] # NoJob => job[a].order \in Orders
                 /\ job[a].filled \in 0..job[a].qty
      <3>1. JobOK(job[a])
        BY DEF IInv, Shape, JobsOK
      <3>2. QED
        BY <3>1 DEF JobOK, JobType
    <2>3. QED
      BY <2>1, <2>2 DEF TypeOK, IInv, Shape, NumbersOK, SetsInv
  <1>2. QED
    BY <1>1, Invariant, PTL

\* The dedup gate holds end to end: of all the deliveries of one signal, at most one ever
\* has an Order row on a venue.
THEOREM OneDispatch == Spec => []OneDispatchPerSignal
  <1>1. IInv => OneDispatchPerSignal
    <2> SUFFICES ASSUME IInv, NEW d \in Deliveries, NEW e \in Deliveries, d # e, KeyOf[d] = KeyOf[e],
                        NEW v \in Venues
                 PROVE  order[<<d, v>>] = NoOrder \/ order[<<e, v>>] = NoOrder
      BY DEF OneDispatchPerSignal
    <2>1. answer[d] # "accepted" \/ answer[e] # "accepted"
      BY DEF IInv, GateInv
    <2>2. order[<<d, v>>].status = "none" \/ order[<<e, v>>].status = "none"
      BY <2>1 DEF IInv, GateInv
    <2>3. QED
      BY <2>2, OrdersArePairs DEF IInv, Shape, RowsOK
  <1>2. QED
    BY <1>1, Invariant, PTL

\* The ledger takes the fill of an order at most once, for any number of retries, restarts
\* and rolled-back passes.
THEOREM BookedAtMostOnce == Spec => []BookedOnce
  <1>1. IInv => BookedOnce
    BY DEF IInv, CountInv, CountOf, BookedOnce
  <1>2. QED
    BY <1>1, Invariant, PTL

\* Every acknowledged fill beyond the first is paid for by a restart or a rolled-back session.
THEOREM FilledAtMostOnce == Spec => []FilledOnce
  <1>1. IInv => FilledOnce
    BY DEF IInv, CountInv, CountOf, FilledOnce
  <1>2. QED
    BY <1>1, Invariant, PTL

\* The retry ladder is finite, whatever the fan-outs, passes and restarts around it.
THEOREM BoundedSubmissions == Spec => []SubmissionsBounded
  <1>1. IInv => SubmissionsBounded
    <2> SUFFICES ASSUME IInv, NEW o \in Orders
                 PROVE  submissions[o] <= MaxAttempts + crashes + aborts
      BY DEF SubmissionsBounded
    <2>1. /\ submissions[o] \in Nat /\ crashes \in Nat /\ aborts \in Nat
          /\ order[o].attempts \in 0..MaxAttempts /\ staged[o].attempts \in 0..MaxAttempts
      BY DEF IInv, Shape, NumbersOK, RowsOK, RowType
    <2>2. CountOf(o)
      BY DEF IInv, CountInv
    <2>3. CASE staged[o].status # "none"
      BY <2>1, <2>2, <2>3, AttemptAssumption DEF CountOf
    <2>4. CASE staged[o].status = "none" /\ Answered(o)
      <3>1. PICK a \in Actors : job[a].order = o /\ job[a].step \in {"acked", "failed"}
        BY <2>4 DEF Answered
      <3>2. order[o].attempts < MaxAttempts
        BY <3>1, InHand DEF IInv
      <3>3. QED
        BY <2>1, <2>2, <2>4, <3>2, AttemptAssumption DEF CountOf
    <2>5. CASE staged[o].status = "none" /\ ~Answered(o)
      BY <2>1, <2>2, <2>5, AttemptAssumption DEF CountOf
    <2>6. QED
      BY <2>3, <2>4, <2>5
  <1>2. QED
    BY <1>1, Invariant, PTL

\* No step of any actor touches a row that is success, dead or rejected.
THEOREM FinalRowsStay == Spec => TerminalIsFinal
  <1>1. IInv /\ [Next]_vars =>
           [\A o \in Orders : order[o].status \in Terminal => order'[o] = order[o]]_order
    BY StepInv DEF FinalKept
  <1>2. QED
    BY <1>1, Invariant, PTL DEF Spec, TerminalIsFinal
----------------------------------------------------------------------------
(* The position. *)

\* The quantity an unresolved order may still fill.
Wants(o, q) ==
    \/ order[o].status = "retrying" /\ order[o].qty = q
    \/ staged[o].status = "retrying" /\ staged[o].qty = q
    \/ \E a \in Actors : job[a].step # "none" /\ job[a].order = o /\ job[a].qty = q

\* The position has room for it, whatever part of it fills.
Room(o, q) == \A k \in 0..q : net[VenueOf(o)] + Signed(o, k) \in -OpenQty..OpenQty

\* Where no decision overlapped another order, one order at most is unresolved, and there is room for it.
OneInv == \A v \in Venues \ overlapped :
    /\ net[v] \in -OpenQty..OpenQty
    /\ \A o, p \in Orders, q, r \in Nat :
          VenueOf(o) = v /\ VenueOf(p) = v /\ Wants(o, q) /\ Wants(p, r) => o = p /\ Room(o, q)

\* The ledger is the sum of the rows that were booked.
SignedQty == [o \in Orders |-> Signed(o, order[o].qty)]
BookedAt(v) == {o \in Orders : VenueOf(o) = v /\ booked[o] # 0}
SumOf(v) == IsFiniteSet(BookedAt(v)) /\ net[v] = Sum(SignedQty, BookedAt(v))

\* Those are the priced successes, but for those whose booking is under way or was cut off.
PricedInv ==
    /\ \A o \in Orders : booked[o] # 0 => order[o].priced
    /\ \A a \in Actors : job[a].step = "recorded" =>
          order[job[a].order].priced /\ order[job[a].order].qty = job[a].filled
    /\ \A o \in Orders : staged[o].status = "success" => ~staged[o].priced
    /\ \A o \in Orders \ dropped :
          order[o].status = "success" /\ order[o].priced /\ booked[o] = 0 =>
             \E a \in Actors : job[a].step = "recorded" /\ job[a].order = o
    /\ \A o \in Orders : o \in dropped => order[o].status = "success" /\ booked[o] = 0
    /\ \A a \in Actors : job[a].step = "recorded" => job[a].order \notin dropped

PositionInv == (\A v \in Venues : SumOf(v)) /\ PricedInv

\* A step that neither books nor decides, and adds no unresolved quantity.
Quiet == /\ UNCHANGED <<net, booked, overlapped>>
         /\ \A o \in Orders, q \in Nat : Wants(o, q)' => Wants(o, q)

\* The fills of the booked rows stay what they were.
LEMMA BookedRowsStay ==
  ASSUME IInv, FinalKept, NEW o \in Orders, booked[o] # 0
  PROVE  order'[o] = order[o] /\ order[o].status = "success"
  BY DEF IInv, CountInv, CountOf, FinalKept, Terminal

\* What a quiet step keeps.
LEMMA QuietKeeps ==
  ASSUME IInv, FinalKept, Quiet
  PROVE  /\ OneInv => OneInv'
         /\ (\A v \in Venues : SumOf(v)) => \A v \in Venues : SumOf(v)'
  <1>1. OneInv => OneInv'
    BY DEF OneInv, Quiet, Room
  <1>2. ASSUME NEW v \in Venues, SumOf(v) PROVE SumOf(v)'
    <2>1. BookedAt(v)' = BookedAt(v) /\ IsFiniteSet(BookedAt(v)) /\ net'[v] = net[v]
      BY <1>2 DEF SumOf, BookedAt, Quiet
    <2>2. \A o \in BookedAt(v) : SignedQty'[o] = SignedQty[o]
      BY BookedRowsStay DEF BookedAt, SignedQty, Signed
    <2> DEFINE g == SignedQty
               h == SignedQty'
    <2> HIDE DEF g, h
    <2>3. \A o \in BookedAt(v) : g[o] = h[o]
      BY <2>2 DEF g, h
    <2>4. Sum(g, BookedAt(v)) = Sum(h, BookedAt(v))
      BY <2>1, <2>3, SumSame
    <2>5. net[v] = Sum(g, BookedAt(v))
      BY <1>2 DEF SumOf, g
    <2>6. net'[v] = Sum(h, BookedAt(v)')
      BY <2>1, <2>4, <2>5
    <2>7. QED
      BY <2>1, <2>6 DEF SumOf, h
  <1>3. QED
    BY <1>1, <1>2

\* At first there is no position and nothing is booked.
LEMMA PositionInit == Init => OneInv /\ PositionInv
  <1> SUFFICES ASSUME Init PROVE OneInv /\ PositionInv
    OBVIOUS
  <1> USE OrdersArePairs DEF Init
  <1>1. \A o \in Orders, q \in Nat : ~Wants(o, q)
    BY DEF Wants, NoOrder, NoJob
  <1>2. OneInv
    BY <1>1, SizeAssumption DEF OneInv
  <1>3. PricedInv
    BY DEF PricedInv, NoOrder, NoJob
  <1>4. ASSUME NEW v \in Venues PROVE SumOf(v)
    <2>1. BookedAt(v) = {} /\ IsFiniteSet({})
      BY FS_EmptySet DEF BookedAt
    <2>2. Sum(SignedQty, {}) = 0
      BY SumEmpty
    <2>3. QED
      BY <2>1, <2>2 DEF SumOf
  <1>5. QED
    BY <1>2, <1>3, <1>4 DEF PositionInv

\* One actor's call changes, and no row: the call it ends, goes on with or starts from a row.
LEMMA JobOnlyQuiet ==
  ASSUME IInv, PricedInv, NEW a \in Actors, UNCHANGED <<order, net, booked, dropped, overlapped>>,
         \A b \in Actors \ {a} : job'[b] = job[b],
         \A o \in Orders : staged'[o] = staged[o] \/ staged'[o] = NoOrder,
         job'[a].step # "none" =>
            \/ job[a].step # "none" /\ job'[a].order = job[a].order /\ job'[a].qty = job[a].qty
            \/ order[job'[a].order].status = "retrying" /\ order[job'[a].order].qty = job'[a].qty,
         job[a].step # "recorded", job'[a].step # "recorded"
  PROVE  Quiet /\ PricedInv'
  <1>1. NoOrder.status = "none"
    BY Constants
  <1> HIDE DEF NoOrder
  <1>2. ASSUME NEW o \in Orders, NEW q \in Nat, Wants(o, q)' PROVE Wants(o, q)
    <2>1. CASE order'[o].status = "retrying" /\ order'[o].qty = q
      BY <2>1 DEF Wants
    <2>2. CASE staged'[o].status = "retrying" /\ staged'[o].qty = q
      BY <1>1, <2>2 DEF Wants
    <2>3. CASE \E b \in Actors : job'[b].step # "none" /\ job'[b].order = o /\ job'[b].qty = q
      BY <2>3 DEF Wants
    <2>4. QED
      BY <1>2, <2>1, <2>2, <2>3 DEF Wants
  <1>3. Quiet
    BY <1>2 DEF Quiet
  <1>4. \A b \in Actors : job'[b].step = "recorded" <=> job[b].step = "recorded"
    OBVIOUS
  <1>5. \A b \in Actors : job'[b].step = "recorded" => job'[b] = job[b]
    OBVIOUS
  <1>6. \A o \in Orders : staged'[o].status = "success" => ~staged'[o].priced
    BY <1>1 DEF PricedInv
  <1>7. PricedInv'
    BY <1>4, <1>5, <1>6 DEF PricedInv
  <1>8. QED
    BY <1>3, <1>7

\* The venue's answer leaves the quantity what it was.
LEMMA CallIsQuiet ==
  ASSUME IInv, PricedInv, NEW a \in Actors, Call(a)
  PROVE  Quiet /\ PricedInv'
  <1>1. /\ job'[a].step \in {"acked", "failed"} /\ job'[a].order = job[a].order
        /\ job'[a].qty = job[a].qty /\ job[a].step = "calling"
        /\ \A b \in Actors \ {a} : job'[b] = job[b]
        /\ UNCHANGED <<order, staged, net, crashes, booked>>
    BY CallOK DEF IInv, Shape
  <1>2. UNCHANGED <<dropped, overlapped>>
    BY DEF Call
  <1>3. QED
    BY <1>1, <1>2, JobOnlyQuiet

\* A row the worker has staged, made durable.
LEMMA FlushedRows ==
  ASSUME IInv, PricedInv, NEW o \in Orders
  PROVE  \/ Flushed[o] = order[o]
         \/ /\ Flushed[o] = staged[o] /\ order[o].status = "retrying" /\ booked[o] = 0
            /\ Flushed[o].status = "success" => ~Flushed[o].priced
  <1>1. NoOrder.status = "none"
    BY Constants
  <1> HIDE DEF NoOrder
  <1>2. CASE staged[o] = NoOrder
    BY <1>2 DEF Flushed
  <1>3. CASE staged[o] # NoOrder
    <2>1. Flushed[o] = staged[o] /\ staged[o].status # "none"
      BY <1>3 DEF Flushed, IInv, Shape, RowsOK
    <2>2. order[o].status = "retrying" /\ booked[o] = 0
      BY <2>1 DEF IInv, WorkerInv, CountInv, CountOf
    <2>3. QED
      BY <2>1, <2>2 DEF PricedInv
  <1>4. QED
    BY <1>2, <1>3

\* A commit of what the worker staged.
LEMMA EndPassIsQuiet ==
  ASSUME IInv, PricedInv, EndPass
  PROVE  Quiet /\ PricedInv'
  <1>1. /\ order' = Flushed /\ staged' = NothingStaged
        /\ UNCHANGED <<job, net, dropped, booked, overlapped>>
    BY DEF EndPass, history
  <1>2. \A o \in Orders : staged'[o].status = "none"
    BY <1>1, FlushFacts DEF IInv
  <1>3. ASSUME NEW o \in Orders, NEW q \in Nat, Wants(o, q)' PROVE Wants(o, q)
    <2>1. CASE order'[o].status = "retrying" /\ order'[o].qty = q
      BY <1>1, <2>1, FlushedRows DEF Wants
    <2>2. CASE \E b \in Actors : job'[b].step # "none" /\ job'[b].order = o /\ job'[b].qty = q
      BY <1>1, <2>2 DEF Wants
    <2>3. QED
      BY <1>2, <1>3, <2>1, <2>2 DEF Wants
  <1>4. Quiet
    BY <1>1, <1>3 DEF Quiet
  <1>5. \A o \in Orders : \/ booked[o] # 0
                          \/ order[o].status = "success"
                          \/ order'[o].status = "success" /\ order'[o].priced
                          => order'[o] = order[o]
    <2> SUFFICES ASSUME NEW o \in Orders, order'[o] # order[o]
                 PROVE  /\ booked[o] = 0 /\ order[o].status # "success"
                        /\ order'[o].status = "success" => ~order'[o].priced
      OBVIOUS
    <2>1. Flushed[o] # order[o] /\ order'[o] = Flushed[o]
      BY <1>1
    <2>2. QED
      BY <2>1, FlushedRows
  <1>6. \A a \in Actors : job[a].step = "recorded" =>
           job[a].order \in Orders /\ order[job[a].order].status = "success"
    BY DEF IInv, TaskInv, TaskOf, WorkerInv, Actors, Shape, JobsOK, JobOK
  <1>7. PricedInv'
    <2>1. \A o \in Orders : booked'[o] # 0 => order'[o].priced
      BY <1>1, <1>5 DEF PricedInv
    <2>2. \A a \in Actors : job'[a].step = "recorded" =>
             order'[job'[a].order].priced /\ order'[job'[a].order].qty = job'[a].filled
      BY <1>1, <1>5, <1>6 DEF PricedInv
    <2>3. \A o \in Orders : staged'[o].status = "success" => ~staged'[o].priced
      BY <1>2
    <2>4. \A o \in Orders \ dropped :
             order'[o].status = "success" /\ order'[o].priced /\ booked'[o] = 0 =>
                \E a \in Actors : job'[a].step = "recorded" /\ job'[a].order = o
      BY <1>1, <1>5 DEF PricedInv
    <2>5. /\ \A o \in Orders : o \in dropped => order'[o].status = "success" /\ booked'[o] = 0
          /\ \A a \in Actors : job'[a].step = "recorded" => job'[a].order \notin dropped
      BY <1>1, <1>5 DEF PricedInv
    <2>6. QED
      BY <1>1, <2>1, <2>2, <2>3, <2>4, <2>5 DEF PricedInv
  <1>8. QED
    BY <1>4, <1>7

\* The next order of a pass is taken up with the quantity of its row.
LEMMA ReplayIsQuiet ==
  ASSUME IInv, PricedInv, ReplayNext
  PROVE  Quiet /\ PricedInv'
  <1>1. job[Worker] = NoJob /\ UNCHANGED <<order, staged, net, dropped, booked, overlapped>>
    BY DEF ReplayNext, history
  <1>2. PICK o \in batch : job' = [job EXCEPT ![Worker] = Started(o, order[o].qty)]
    BY Zenon DEF ReplayNext, Started
  <1>3. o \in Orders /\ order[o].status = "retrying" /\ Worker \in Actors /\ job[Worker].step = "none"
    BY <1>1, Constants DEF IInv, WorkerInv, Shape, NumbersOK, Actors
  <1>4. order[o].qty \in Nat
    BY <1>3 DEF IInv, Shape, RowsOK, RowType
  <1> DEFINE j == Started(o, order[o].qty)
  <1>5. j.step = "calling" /\ j.order = o /\ j.qty = order[o].qty
    BY <1>3, <1>4, NewJobType
  <1>6. job'[Worker] = j /\ \A b \in Actors \ {Worker} : job'[b] = job[b]
    <2>1. job' = [job EXCEPT ![Worker] = j]
      BY <1>2
    <2> HIDE DEF j
    <2>2. QED
      BY <1>3, <2>1 DEF IInv, Shape, JobsOK
  <1> HIDE DEF j
  <1>7. QED
    BY <1>1, <1>3, <1>5, <1>6, JobOnlyQuiet

\* What is committed and not booked.
LEMMA UnbookedRows ==
  ASSUME IInv, NEW a \in Actors, job[a].step = "recorded"
  PROVE  /\ job[a].order \in Orders /\ order[job[a].order].status = "success"
         /\ booked[job[a].order] = 0
  BY DEF IInv, TaskInv, TaskOf, WorkerInv, Actors, Shape, JobsOK, JobOK

\* A restart loses what is in hand and what is staged.
LEMMA CrashIsQuiet ==
  ASSUME IInv, PricedInv, Crash
  PROVE  Quiet /\ PricedInv'
  <1>1. /\ job' = [a \in Actors |-> NoJob] /\ dropped' = dropped \cup Unbooked(Actors)
        /\ staged' = NothingStaged /\ UNCHANGED <<order, net, booked, overlapped>>
    BY DEF Crash
  <1>2. \A o \in Orders : staged'[o].status = "none"
    BY <1>1, FlushFacts DEF IInv
  <1>3. \A a \in Actors : job'[a].step = "none"
    BY <1>1, Constants
  <1>4. \A o \in Orders, q \in Nat : Wants(o, q)' => Wants(o, q)
    BY <1>1, <1>2, <1>3 DEF Wants
  <1>5. \A o \in Orders : o \in dropped' <=>
           o \in dropped \/ \E a \in Actors : job[a].step = "recorded" /\ job[a].order = o
    BY <1>1 DEF Unbooked
  <1>6. \A o \in Orders : o \in dropped' => order[o].status = "success" /\ booked[o] = 0
    BY <1>5, UnbookedRows DEF PricedInv
  <1>7. PricedInv'
    BY <1>1, <1>2, <1>3, <1>5, <1>6 DEF PricedInv
  <1>8. QED
    BY <1>1, <1>4, <1>7 DEF Quiet

\* A row is written, and its actor leaves: it is a failure with the quantity in hand, or a success
\* without a price.
LEMMA WritesAreQuiet ==
  ASSUME IInv, PricedInv, NEW a \in Actors, RecordUnpriced(a) \/ RecordFailure(a)
  PROVE  Quiet /\ PricedInv'
  <1> DEFINE o == job[a].order
  <1>1. PICK row : /\ Write(a, row) /\ Leave(a)
                   /\ UNCHANGED <<net, dropped, booked, overlapped>>
                   /\ row.status = "retrying" => row.qty = job[a].qty
                   /\ row.status = "success" => ~row.priced
                   /\ job[a].step \in {"acked", "failed"}
    <2>1. CASE RecordUnpriced(a)
      <3> DEFINE row == SuccessRow(a)
      <3>1. row.status = "success" /\ ~row.priced
        BY <2>1 DEF RecordUnpriced, SuccessRow
      <3> HIDE DEF row
      <3>2. Write(a, row) /\ Leave(a) /\ UNCHANGED <<net, dropped, booked, overlapped>>
            /\ job[a].step = "acked"
        BY <2>1 DEF RecordUnpriced, history, row
      <3>3. QED
        BY <3>1, <3>2
    <2>2. CASE RecordFailure(a)
      <3> DEFINE row == FailureRow(a)
      <3>1. row.status # "success" /\ row.qty = job[a].qty
        BY DEF FailureRow
      <3> HIDE DEF row
      <3>2. Write(a, row) /\ Leave(a) /\ UNCHANGED <<net, dropped, booked, overlapped>>
            /\ job[a].step = "failed"
        BY <2>2 DEF RecordFailure, history, row
      <3>3. QED
        BY <3>1, <3>2
    <2>3. QED
      BY <2>1, <2>2
  <1>2. job'[a].step = "none" /\ \A b \in Actors \ {a} : job'[b] = job[b]
    BY <1>1, LeaveFacts DEF IInv, Core
  <1>3. o \in Orders /\ order[o].status \in {"none", "retrying"} /\ booked[o] = 0
    BY <1>1, InHand DEF IInv
  <1>4. /\ \A p \in Orders \ {o} : order'[p] = order[p] /\ staged'[p] = staged[p]
        /\ \/ order' = order /\ staged'[o] = row
           \/ order'[o] = row /\ staged' = staged
    BY <1>1, <1>3 DEF Write, IInv, Shape, RowsOK
  <1> HIDE DEF o
  <1>5. ASSUME NEW p \in Orders, NEW q \in Nat, Wants(p, q)' PROVE Wants(p, q)
    <2>1. CASE p = o /\ row.status = "retrying" /\ row.qty = q
      BY <1>1, <2>1 DEF Wants, o
    <2>2. CASE \E b \in Actors : job'[b].step # "none" /\ job'[b].order = p /\ job'[b].qty = q
      BY <1>2, <2>2 DEF Wants
    <2>3. CASE order'[p].status = "retrying" /\ order'[p].qty = q
      BY <1>4, <2>1, <2>3 DEF Wants
    <2>4. CASE staged'[p].status = "retrying" /\ staged'[p].qty = q
      BY <1>4, <2>1, <2>4 DEF Wants
    <2>5. QED
      BY <1>5, <2>2, <2>3, <2>4 DEF Wants
  <1>6. Quiet
    BY <1>1, <1>5 DEF Quiet
  <1>7. \A b \in Actors : (job'[b].step = "recorded") <=> (job[b].step = "recorded")
    BY <1>1, <1>2
  <1>8. \A b \in Actors : job[b].step = "recorded" =>
           job'[b] = job[b] /\ job[b].order \in Orders /\ job[b].order # o
    <2>1. \A b \in Actors : job[b].step = "recorded" => job[b].order \in Orders /\ b # a
      BY <1>1 DEF IInv, Shape, JobsOK, JobOK
    <2>2. \A b \in Actors : job[b].step = "recorded" => job[b].order # o
      BY <1>1, OwnOrder DEF IInv, o
    <2>3. QED
      BY <1>2, <2>1, <2>2
  <1>9. \A p \in Orders : booked'[p] # 0 => order'[p].priced
    BY <1>1, <1>3, <1>4 DEF PricedInv
  <1>10. \A b \in Actors : job'[b].step = "recorded" =>
            order'[job'[b].order].priced /\ order'[job'[b].order].qty = job'[b].filled
    BY <1>4, <1>7, <1>8 DEF PricedInv
  <1>11. \A p \in Orders : staged'[p].status = "success" => ~staged'[p].priced
    BY <1>1, <1>4 DEF PricedInv
  <1>12. \A p \in Orders \ dropped :
            order'[p].status = "success" /\ order'[p].priced /\ booked'[p] = 0 =>
               \E b \in Actors : job'[b].step = "recorded" /\ job'[b].order = p
    <2> SUFFICES ASSUME NEW p \in Orders \ dropped, order'[p].status = "success", order'[p].priced,
                        booked'[p] = 0
                 PROVE  \E b \in Actors : job'[b].step = "recorded" /\ job'[b].order = p
      OBVIOUS
    <2>1. order'[p] = order[p]
      BY <1>1, <1>4
    <2>2. PICK b \in Actors : job[b].step = "recorded" /\ job[b].order = p
      BY <1>1, <2>1 DEF PricedInv
    <2>3. QED
      BY <1>8, <2>2
  <1>13. /\ \A p \in Orders : p \in dropped => order'[p].status = "success" /\ booked'[p] = 0
         /\ \A b \in Actors : job'[b].step = "recorded" => job'[b].order \notin dropped
    BY <1>1, <1>3, <1>4, <1>7, <1>8 DEF PricedInv
  <1>14. PricedInv'
    BY <1>1, <1>9, <1>10, <1>11, <1>12, <1>13 DEF PricedInv
  <1>15. QED
    BY <1>6, <1>14

\* An exception ends what its actor had in hand, and the worker's pass.
LEMMA AbortIsQuiet ==
  ASSUME IInv, PricedInv, NEW a \in Actors, SessionRaises(a)
  PROVE  Quiet /\ PricedInv'
  <1>1. /\ CanRaise(a) /\ Leave(a) /\ UNCHANGED <<order, net, booked, overlapped>>
        /\ staged' = NothingStaged \/ staged' = staged
        /\ dropped' = dropped \cup Unbooked({a})
    BY DEF SessionRaises, worker
  <1>2. job'[a].step = "none" /\ \A b \in Actors \ {a} : job'[b] = job[b]
    <2>1. job' = [job EXCEPT ![a] = NoJob] /\ DOMAIN job = Actors
      BY <1>1 DEF Leave, IInv, Shape, JobsOK
    <2>2. NoJob.step = "none"
      BY Constants
    <2> HIDE DEF NoJob
    <2>3. QED
      BY <2>1, <2>2
  <1>3. \A o \in Orders : staged'[o] = staged[o] \/ staged'[o] = NoOrder
    BY <1>1, FlushFacts DEF IInv
  <1>4. CASE job[a].step # "recorded"
    <2>1. dropped' = dropped
      BY <1>1, <1>4 DEF Unbooked
    <2>2. QED
      BY <1>1, <1>2, <1>3, <1>4, <2>1, JobOnlyQuiet
  <1>5. CASE job[a].step = "recorded"
    <2>1. NoOrder.status = "none"
      BY Constants
    <2> HIDE DEF NoOrder
    <2>2. dropped' = dropped \cup {job[a].order}
      BY <1>1, <1>5 DEF Unbooked
    <2>3. \A b \in Actors : job'[b].step = "recorded" => b # a /\ job'[b] = job[b]
      BY <1>2
    <2>4. Quiet
      <3>1. ASSUME NEW o \in Orders, NEW q \in Nat, Wants(o, q)' PROVE Wants(o, q)
        <4>1. CASE order'[o].status = "retrying" /\ order'[o].qty = q
          BY <1>1, <4>1 DEF Wants
        <4>2. CASE staged'[o].status = "retrying" /\ staged'[o].qty = q
          BY <1>3, <2>1, <4>2 DEF Wants
        <4>3. CASE \E b \in Actors : job'[b].step # "none" /\ job'[b].order = o /\ job'[b].qty = q
          BY <1>2, <4>3 DEF Wants
        <4>4. QED
          BY <3>1, <4>1, <4>2, <4>3 DEF Wants
      <3>2. QED
        BY <1>1, <3>1 DEF Quiet
    <2>5. /\ job[a].order \in Orders /\ order[job[a].order].status = "success"
          /\ booked[job[a].order] = 0
      BY <1>5, UnbookedRows
    <2>6. \A b \in Actors \ {a} : job[b].step = "recorded" => job[b].order # job[a].order
      BY <1>5, OwnOrder DEF IInv
    <2>7. /\ \A o \in Orders : staged'[o].status = "success" => ~staged'[o].priced
          /\ \A o \in Orders : o \in dropped' => order'[o].status = "success" /\ booked'[o] = 0
          /\ \A b \in Actors : job'[b].step = "recorded" => job'[b].order \notin dropped'
      BY <1>1, <1>3, <2>1, <2>2, <2>3, <2>5, <2>6 DEF PricedInv
    <2>8. ASSUME NEW o \in Orders \ dropped', order'[o].status = "success", order'[o].priced,
                 booked'[o] = 0
          PROVE  \E b \in Actors : job'[b].step = "recorded" /\ job'[b].order = o
      <3>1. PICK b \in Actors : job[b].step = "recorded" /\ job[b].order = o
        BY <1>1, <2>2, <2>8 DEF PricedInv
      <3>2. b # a
        BY <2>2, <2>8, <3>1
      <3>3. QED
        BY <1>2, <3>1, <3>2
    <2>9. /\ \A o \in Orders : booked'[o] # 0 => order'[o].priced
          /\ \A b \in Actors : job'[b].step = "recorded" =>
                order'[job'[b].order].priced /\ order'[job'[b].order].qty = job'[b].filled
      BY <1>1, <2>3 DEF PricedInv
    <2>10. QED
      BY <2>4, <2>7, <2>8, <2>9 DEF PricedInv
  <1>6. QED
    BY <1>4, <1>5

\* The commit of _on_success: the row is a priced success until it is booked.
LEMMA SuccessIsQuiet ==
  ASSUME IInv, PricedInv, NEW a \in Actors, RecordSuccess(a)
  PROVE  Quiet /\ PricedInv'
  <1> DEFINE o == job[a].order
             row == SuccessRow(a)
  <1>1. /\ job[a].step = "acked" /\ job[a].priced /\ UNCHANGED <<net, dropped, booked, overlapped>>
        /\ order' = [IF a = Worker THEN Flushed ELSE order EXCEPT ![o] = row]
        /\ staged' = IF a = Worker THEN NothingStaged ELSE staged
        /\ job' = [job EXCEPT ![a].step = "recorded"]
    BY DEF RecordSuccess, history
  <1>2. row.status = "success" /\ row.priced /\ row.qty = job[a].filled
    BY <1>1 DEF SuccessRow
  <1>3. o \in Orders /\ order[o].status \in {"none", "retrying"} /\ booked[o] = 0
    BY <1>1, InHand DEF IInv
  <1>4. /\ job'[a].step = "recorded" /\ job'[a].order = o
        /\ job'[a].qty = job[a].qty /\ job'[a].filled = job[a].filled
        /\ \A b \in Actors \ {a} : job'[b] = job[b]
    BY <1>1, StepOK DEF IInv, Shape
  <1> HIDE DEF row, o
  <1>5. /\ order'[o] = row
        /\ \A p \in Orders \ {o} : order'[p] = IF a = Worker THEN Flushed[p] ELSE order[p]
    BY <1>1, <1>3, FlushFacts DEF IInv, Shape, RowsOK
  <1>6. \A p \in Orders \ {o} :
           \/ order'[p] = order[p]
           \/ /\ order'[p] = staged[p] /\ order[p].status = "retrying" /\ booked[p] = 0
              /\ order'[p].status = "success" => ~order'[p].priced
    BY <1>5, FlushedRows
  <1>7. \A p \in Orders : staged'[p] = staged[p] \/ staged'[p].status = "none"
    BY <1>1, FlushFacts DEF IInv
  <1>8. ASSUME NEW p \in Orders, NEW q \in Nat, Wants(p, q)' PROVE Wants(p, q)
    <2>1. CASE \E b \in Actors : job'[b].step # "none" /\ job'[b].order = p /\ job'[b].qty = q
      BY <1>1, <1>4, <2>1 DEF Wants, o
    <2>2. CASE order'[p].status = "retrying" /\ order'[p].qty = q
      BY <1>2, <1>5, <1>6, <2>2 DEF Wants
    <2>3. CASE staged'[p].status = "retrying" /\ staged'[p].qty = q
      BY <1>7, <2>3 DEF Wants
    <2>4. QED
      BY <1>8, <2>1, <2>2, <2>3 DEF Wants
  <1>9. Quiet
    BY <1>1, <1>8 DEF Quiet
  <1>10. \A b \in Actors \ {a} : job[b].step = "recorded" =>
            /\ job[b].order \in Orders /\ job[b].order # o /\ order[job[b].order].status = "success"
    <2>1. \A b \in Actors : job[b].step = "recorded" =>
             job[b].order \in Orders /\ order[job[b].order].status = "success"
      BY DEF IInv, TaskInv, TaskOf, WorkerInv, Actors, Shape, JobsOK, JobOK
    <2>2. \A b \in Actors \ {a} : job[b].step = "recorded" => job[b].order # o
      BY <1>1, OwnOrder DEF IInv, o
    <2>3. QED
      BY <2>1, <2>2
  <1>11. \A p \in Orders : booked'[p] # 0 => order'[p].priced
    BY <1>1, <1>3, <1>6 DEF PricedInv
  <1>12. \A b \in Actors : job'[b].step = "recorded" =>
            order'[job'[b].order].priced /\ order'[job'[b].order].qty = job'[b].filled
    <2>1. order'[job'[a].order].priced /\ order'[job'[a].order].qty = job'[a].filled
      BY <1>2, <1>4, <1>5
    <2>2. \A b \in Actors \ {a} : job'[b].step = "recorded" =>
             order'[job'[b].order].priced /\ order'[job'[b].order].qty = job'[b].filled
      BY <1>4, <1>6, <1>10 DEF PricedInv
    <2>3. QED
      BY <2>1, <2>2
  <1>13. \A p \in Orders : staged'[p].status = "success" => ~staged'[p].priced
    BY <1>7 DEF PricedInv
  <1>14. \A p \in Orders \ dropped :
            order'[p].status = "success" /\ order'[p].priced /\ booked'[p] = 0 =>
               \E b \in Actors : job'[b].step = "recorded" /\ job'[b].order = p
    <2> SUFFICES ASSUME NEW p \in Orders \ dropped, order'[p].status = "success", order'[p].priced,
                        booked'[p] = 0
                 PROVE  \E b \in Actors : job'[b].step = "recorded" /\ job'[b].order = p
      OBVIOUS
    <2>1. CASE p = o
      BY <1>4, <2>1
    <2>2. CASE p # o
      <3>1. order'[p] = order[p]
        BY <1>6, <2>2
      <3>2. PICK b \in Actors : job[b].step = "recorded" /\ job[b].order = p
        BY <1>1, <3>1 DEF PricedInv
      <3>3. b # a
        BY <1>1, <3>2
      <3>4. QED
        BY <1>4, <3>2, <3>3
    <2>3. QED
      BY <2>1, <2>2
  <1>15. /\ \A p \in Orders : p \in dropped => order'[p].status = "success" /\ booked'[p] = 0
         /\ \A b \in Actors : job'[b].step = "recorded" => job'[b].order \notin dropped
    <2>1. o \notin dropped
      BY <1>3 DEF PricedInv
    <2>2. QED
      BY <1>1, <1>4, <1>6, <2>1 DEF PricedInv
  <1>16. PricedInv'
    BY <1>1, <1>11, <1>12, <1>13, <1>14, <1>15 DEF PricedInv
  <1>17. QED
    BY <1>9, <1>16

\* The ledger commit: what was in hand is part of the sum from now on.
LEMMA BookKeeps ==
  ASSUME IInv, PositionInv, NEW a \in Actors, BookFill(a)
  PROVE  PositionInv' /\ (OneInv => OneInv')
  <1>0. job[a].order \in Orders /\ job[a].filled \in Nat /\ VenueOf(job[a].order) \in Venues
    <2>1. job[a].order \in Orders /\ job[a].filled \in Nat
      BY DEF BookFill, IInv, Shape, JobsOK, JobOK, JobType
    <2>2. QED
      BY <2>1, OrdersArePairs DEF VenueOf
  <1>a. PICK o \in Orders, f \in Nat, v \in Venues :
           job[a].order = o /\ job[a].filled = f /\ VenueOf(o) = v
    BY <1>0
  <1>1. /\ job[a].step = "recorded" /\ Leave(a) /\ UNCHANGED <<order, staged, dropped, overlapped>>
        /\ net' = [net EXCEPT ![v] = @ + Signed(o, f)]
        /\ booked' = [booked EXCEPT ![o] = @ + 1]
    BY <1>a DEF BookFill, worker, history
  <1>2. job'[a].step = "none" /\ \A b \in Actors \ {a} : job'[b] = job[b]
    BY <1>1, LeaveFacts DEF IInv, Core
  <1>3. /\ o \in Orders /\ v \in Venues /\ order[o].status = "success" /\ booked[o] = 0
        /\ f \in Nat /\ f <= job[a].qty /\ job[a].qty \in Nat
        /\ order[o].priced /\ order[o].qty = f
    <2>1. o \in Orders /\ f \in Nat /\ f <= job[a].qty /\ job[a].qty \in Nat
      BY <1>a, <1>1 DEF IInv, Shape, JobsOK, JobOK, JobType
    <2>2. order[o].status = "success" /\ booked[o] = 0
      BY <1>a, <1>1 DEF IInv, TaskInv, TaskOf, WorkerInv, Actors
    <2>3. QED
      BY <1>a, <1>1, <2>1, <2>2 DEF PositionInv, PricedInv
  <1>4. Signed(o, f) \in Int
    BY <1>3 DEF Signed
  <1>5. /\ net \in [Venues -> Int] /\ net'[v] = net[v] + Signed(o, f)
        /\ \A w \in Venues \ {v} : net'[w] = net[w]
        /\ booked'[o] = 1 /\ \A p \in Orders \ {o} : booked'[p] = booked[p]
    BY <1>1, <1>3 DEF IInv, Shape, NumbersOK
  <1>6. \A b \in Actors \ {a} : job[b].step # "none" => job[b].order # o
    BY <1>1, <1>a, OwnOrder DEF IInv
  <1>7. PricedInv'
    <2>1. \A p \in Orders : booked'[p] # 0 => order'[p].priced
      BY <1>1, <1>3, <1>5 DEF PositionInv, PricedInv
    <2>2. \A b \in Actors : job'[b].step = "recorded" => b # a /\ job'[b] = job[b]
      BY <1>2
    <2>3. \A b \in Actors : job'[b].step = "recorded" =>
             order'[job'[b].order].priced /\ order'[job'[b].order].qty = job'[b].filled
      BY <1>1, <2>2 DEF PositionInv, PricedInv
    <2>4. \A p \in Orders : staged'[p].status = "success" => ~staged'[p].priced
      BY <1>1 DEF PositionInv, PricedInv
    <2>5. ASSUME NEW p \in Orders \ dropped, order'[p].status = "success", order'[p].priced,
                 booked'[p] = 0
          PROVE  \E b \in Actors : job'[b].step = "recorded" /\ job'[b].order = p
      <3>1. p # o
        BY <1>5, <2>5
      <3>2. PICK b \in Actors : job[b].step = "recorded" /\ job[b].order = p
        BY <1>1, <1>5, <2>5, <3>1 DEF PositionInv, PricedInv
      <3>3. b # a
        BY <1>a, <3>1, <3>2
      <3>4. QED
        BY <1>2, <3>2, <3>3
    <2>6. o \notin dropped
      BY <1>a, <1>1 DEF PositionInv, PricedInv
    <2>7. /\ \A p \in Orders : p \in dropped => order'[p].status = "success" /\ booked'[p] = 0
          /\ \A b \in Actors : job'[b].step = "recorded" => job'[b].order \notin dropped
      BY <1>1, <1>5, <2>2, <2>6 DEF PositionInv, PricedInv
    <2>8. QED
      BY <1>1, <2>1, <2>3, <2>4, <2>5, <2>7 DEF PricedInv
  <1>8. SignedQty' = SignedQty
    BY <1>1 DEF SignedQty, Signed
  <1>9. ASSUME NEW w \in Venues PROVE SumOf(w)'
    <2>1. IsFiniteSet(BookedAt(w)) /\ net[w] = Sum(SignedQty, BookedAt(w))
      BY DEF PositionInv, SumOf
    <2>2. CASE w # v
      <3>1. BookedAt(w)' = BookedAt(w)
        BY <1>a, <1>5, <2>2 DEF BookedAt
      <3>2. net'[w] = net[w]
        BY <1>5, <2>2
      <3>3. QED
        BY <1>8, <2>1, <3>1, <3>2 DEF SumOf
    <2>3. CASE w = v
      <3>1. BookedAt(v)' = BookedAt(v) \cup {o} /\ o \notin BookedAt(v)
        <4>1. o \notin BookedAt(v) /\ \A p \in Orders : p # o => booked'[p] = booked[p]
          BY <1>3, <1>5 DEF BookedAt
        <4>2. booked'[o] # 0 /\ VenueOf(o) = v /\ o \in Orders
          BY <1>a, <1>3, <1>5
        <4>3. \A p : p \in BookedAt(v)' <=> p \in BookedAt(v) \cup {o}
          BY <4>1, <4>2 DEF BookedAt
        <4>4. QED
          BY <4>1, <4>3
      <3> DEFINE g == SignedQty
      <3>2. g[o] = Signed(o, f) /\ \A p \in BookedAt(v) : g[p] \in Int
        BY <1>3 DEF SignedQty, Signed, BookedAt, IInv, Shape, RowsOK, RowType
      <3> HIDE DEF g
      <3>3. IsFiniteSet(BookedAt(v)) /\ IsFiniteSet(BookedAt(v) \cup {o})
        BY <2>1, <2>3, FS_AddElement
      <3>4. Sum(g, BookedAt(v) \cup {o}) = g[o] + Sum(g, BookedAt(v))
        BY <1>4, <3>1, <3>2, <3>3, SumAdd
      <3>5. Sum(g, BookedAt(v)) = net[v]
        BY <2>1, <2>3 DEF g
      <3>6. net'[v] = Sum(g, BookedAt(v)')
        BY <1>3, <1>4, <1>5, <3>1, <3>2, <3>4, <3>5
      <3>7. QED
        <4>1. IsFiniteSet(BookedAt(v)')
          BY <3>1, <3>3
        <4>2. net'[v] = Sum(SignedQty', BookedAt(v)')
          BY <1>8, <3>6 DEF g
        <4>3. QED
          BY <2>3, <4>1, <4>2 DEF SumOf
    <2>4. QED
      BY <2>2, <2>3
  <1>10. ASSUME OneInv PROVE OneInv'
    <2>1. \A p \in Orders, q \in Nat : Wants(p, q)' => p # o /\ Wants(p, q)
      <3> SUFFICES ASSUME NEW p \in Orders, NEW q \in Nat, Wants(p, q)' PROVE p # o /\ Wants(p, q)
        OBVIOUS
      <3>1. CASE order'[p].status = "retrying" /\ order'[p].qty = q
        BY <1>1, <1>3, <3>1 DEF Wants
      <3>2. CASE staged'[p].status = "retrying" /\ staged'[p].qty = q
        BY <1>1, <1>3, <3>2 DEF Wants, IInv, WorkerInv
      <3>3. CASE \E b \in Actors : job'[b].step # "none" /\ job'[b].order = p /\ job'[b].qty = q
        BY <1>2, <1>6, <3>3 DEF Wants
      <3>4. QED
        BY <3>1, <3>2, <3>3 DEF Wants
    <2>2. Wants(o, job[a].qty)
      BY <1>1, <1>a DEF Wants
    <2>3. ASSUME NEW w \in Venues \ overlapped'
          PROVE  /\ net'[w] \in -OpenQty..OpenQty
                 /\ \A p, r \in Orders, q, k \in Nat :
                       VenueOf(p) = w /\ VenueOf(r) = w /\ Wants(p, q)' /\ Wants(r, k)'
                          => p = r /\ Room(p, q)'
      <3>1. w \in Venues \ overlapped
        BY <1>1, <2>3
      <3>2. CASE w = v
        <4>1. Room(o, job[a].qty)
          BY <1>3, <1>a, <1>10, <2>2, <3>1, <3>2 DEF OneInv
        <4>2. f \in 0..job[a].qty
          BY <1>3
        <4>3. net[v] + Signed(o, f) \in -OpenQty..OpenQty
          BY <1>a, <4>1, <4>2 DEF Room
        <4>4. \A p \in Orders, q \in Nat : VenueOf(p) = v => ~Wants(p, q)'
          BY <1>3, <1>a, <1>10, <2>1, <2>2, <3>1, <3>2 DEF OneInv
        <4>5. QED
          BY <1>5, <3>2, <4>3, <4>4
      <3>3. CASE w # v
        <4>1. net'[w] = net[w]
          BY <1>5, <3>1, <3>3
        <4>2. \A p \in Orders, q \in Nat : VenueOf(p) = w => (Room(p, q)' <=> Room(p, q))
          BY <4>1 DEF Room, Signed
        <4>3. QED
          BY <1>10, <2>1, <3>1, <4>1, <4>2 DEF OneInv
      <3>4. QED
        BY <3>2, <3>3
    <2>4. QED
      BY <2>3 DEF OneInv
  <1>11. QED
    BY <1>7, <1>9, <1>10 DEF PositionInv

\* A decision sees every fill of the venue, or marks it; it opens only when flat and closes no
\* more than there is.
LEMMA DispatchKeeps ==
  ASSUME IInv, PositionInv, FinalKept, NEW d \in Deliveries, Dispatch(d)
  PROVE  PositionInv' /\ (Sar = {} /\ OneInv => OneInv')
  <1> DEFINE v == VenueSeq[todo[d]]
             o == <<d, v>>
  <1>1. /\ todo[d] \in DOMAIN VenueSeq /\ job[d] = NoJob
        /\ UNCHANGED <<staged, net, booked, dropped>>
        /\ overlapped' = IF Unresolved(v) THEN overlapped \cup {v} ELSE overlapped
    BY DEF Dispatch, Dispatching, worker
  <1>2. v \in Venues /\ o \in Orders /\ VenueOf(o) = v /\ d \in Actors
    BY <1>1, RouteFacts, OrdersArePairs DEF VenueOf, Actors
  <1>3. order[o].status = "none" /\ booked[o] = 0 /\ job[d].step = "none"
    <2>1. job[d].step = "none" /\ todo[d] # 0
      BY <1>1, Constants, RouteFacts
    <2>2. order[o].status = "none"
      BY <1>1, <2>1 DEF IInv, TaskInv, TaskOf
    <2>3. QED
      BY <1>2, <2>1, <2>2 DEF IInv, CountInv, CountOf
  <1> HIDE DEF o
  <1>4. PICK q \in Sizings(d, v) :
           \/ q = 0 /\ order' = [order EXCEPT ![o] = AuditRow] /\ UNCHANGED job
           \/ q # 0 /\ job' = [job EXCEPT ![d] = Started(o, q)] /\ UNCHANGED order
    BY Zenon DEF Dispatch, Started, o
  <1>5. q \in Nat
    BY <1>2, <1>4, SizingsAreNat DEF IInv
  <1> HIDE DEF v
  <1>6. \A p \in Orders : order'[p] = order[p] \/ (p = o /\ order'[p].status = "rejected")
    BY <1>2, <1>4, Constants DEF IInv, Shape, RowsOK
  <1>7. /\ \A b \in Actors \ {d} : job'[b] = job[b]
        /\ \/ job'[d] = job[d]
           \/ q # 0 /\ job'[d].step = "calling" /\ job'[d].order = o /\ job'[d].qty = q
    <2>1. DOMAIN job = Actors
      BY DEF IInv, Shape, JobsOK
    <2> DEFINE j == Started(o, q)
    <2>2. j.step = "calling" /\ j.order = o /\ j.qty = q
      BY <1>2, <1>5, NewJobType
    <2>3. q # 0 => job' = [job EXCEPT ![d] = j]
      BY <1>4
    <2> HIDE DEF j
    <2>4. QED
      BY <1>2, <1>4, <2>1, <2>2, <2>3
  <1>8. \A p \in Orders, k \in Nat : Wants(p, k)' => Wants(p, k) \/ (p = o /\ k = q /\ q # 0)
    <2> SUFFICES ASSUME NEW p \in Orders, NEW k \in Nat, Wants(p, k)'
                 PROVE  Wants(p, k) \/ (p = o /\ k = q /\ q # 0)
      OBVIOUS
    <2>1. CASE order'[p].status = "retrying" /\ order'[p].qty = k
      BY <1>6, <2>1 DEF Wants
    <2>2. CASE staged'[p].status = "retrying" /\ staged'[p].qty = k
      BY <1>1, <2>2 DEF Wants
    <2>3. CASE \E b \in Actors : job'[b].step # "none" /\ job'[b].order = p /\ job'[b].qty = k
      BY <1>7, <2>3 DEF Wants
    <2>4. QED
      BY <2>1, <2>2, <2>3 DEF Wants
  <1>9. ASSUME NEW w \in Venues PROVE SumOf(w)'
    <2>1. BookedAt(w)' = BookedAt(w) /\ IsFiniteSet(BookedAt(w)) /\ net'[w] = net[w]
          /\ net[w] = Sum(SignedQty, BookedAt(w))
      BY <1>1 DEF PositionInv, SumOf, BookedAt
    <2> DEFINE g == SignedQty
               h == SignedQty'
    <2>2. \A p \in BookedAt(w) : g[p] = h[p]
      BY BookedRowsStay DEF BookedAt, SignedQty, Signed
    <2>3. net[w] = Sum(g, BookedAt(w))
      BY <2>1
    <2> HIDE DEF g, h
    <2>4. Sum(g, BookedAt(w)) = Sum(h, BookedAt(w))
      BY <2>1, <2>2, SumSame
    <2>5. net'[w] = Sum(h, BookedAt(w)')
      BY <2>1, <2>3, <2>4
    <2>6. QED
      BY <2>1, <2>5 DEF SumOf, h
  <1>10. PricedInv'
    <2>1. \A b \in Actors : (job'[b].step = "recorded" <=> job[b].step = "recorded")
                            /\ (job[b].step = "recorded" => job'[b] = job[b])
      BY <1>3, <1>7
    <2>2. \A b \in Actors : job[b].step = "recorded" =>
             job[b].order \in Orders /\ order[job[b].order].status = "success"
      BY DEF IInv, TaskInv, TaskOf, WorkerInv, Actors, Shape, JobsOK, JobOK
    <2>3. \A p \in Orders : booked'[p] # 0 => order'[p].priced
      BY <1>1, <1>3, <1>6 DEF PositionInv, PricedInv
    <2>4. \A b \in Actors : job'[b].step = "recorded" =>
             order'[job'[b].order].priced /\ order'[job'[b].order].qty = job'[b].filled
      BY <1>3, <1>6, <2>1, <2>2 DEF PositionInv, PricedInv
    <2>5. \A p \in Orders : staged'[p].status = "success" => ~staged'[p].priced
      BY <1>1 DEF PositionInv, PricedInv
    <2>6. ASSUME NEW p \in Orders \ dropped, order'[p].status = "success", order'[p].priced,
                 booked'[p] = 0
          PROVE  \E b \in Actors : job'[b].step = "recorded" /\ job'[b].order = p
      <3>1. order'[p] = order[p]
        BY <1>6, <2>6
      <3>2. PICK b \in Actors : job[b].step = "recorded" /\ job[b].order = p
        BY <1>1, <2>6, <3>1 DEF PositionInv, PricedInv
      <3>3. QED
        BY <2>1, <3>2
    <2>7. /\ \A p \in Orders : p \in dropped => order'[p].status = "success" /\ booked'[p] = 0
          /\ \A b \in Actors : job'[b].step = "recorded" => job'[b].order \notin dropped
      BY <1>1, <1>3, <1>6, <2>1 DEF PositionInv, PricedInv
    <2>8. QED
      BY <1>1, <2>3, <2>4, <2>5, <2>6, <2>7 DEF PricedInv
  <1>11. ASSUME Sar = {}, OneInv PROVE OneInv'
    <2>1. \A p \in Orders, k \in Nat : VenueOf(p) = v /\ Wants(p, k) => Unresolved(v)
      BY Constants DEF Wants, Unresolved, IInv, WorkerInv
    <2>2. ASSUME q # 0, net[v] \in -OpenQty..OpenQty PROVE Room(o, q)
      <3>1. net[v] \in Int /\ OpenQty \in Nat
        BY <1>2, SizeAssumption DEF IInv, Shape, NumbersOK
      <3>2. \/ net[v] = 0 /\ q = OpenQty
            \/ net[v] > 0 /\ ActionOf[d] # "buy" /\ q = net[v]
            \/ net[v] < 0 /\ ActionOf[d] = "buy" /\ q = -net[v]
        BY <1>4, <1>11, <2>2, <3>1 DEF Sizings
      <3>3. \A k \in 0..q : Signed(o, k) = IF ActionOf[d] = "buy" THEN k ELSE -k
        BY DEF Signed, o
      <3>4. \A k \in 0..q : net[v] + (IF ActionOf[d] = "buy" THEN k ELSE -k) \in -OpenQty..OpenQty
        BY <2>2, <3>1, <3>2
      <3>5. QED
        BY <1>2, <3>3, <3>4 DEF Room
    <2>3. \A p \in Orders, k \in Nat : Room(p, k)' <=> Room(p, k)
      BY <1>1 DEF Room, Signed
    <2>4. ASSUME NEW w \in Venues \ overlapped'
          PROVE  /\ net'[w] \in -OpenQty..OpenQty
                 /\ \A p, r \in Orders, k, l \in Nat :
                       VenueOf(p) = w /\ VenueOf(r) = w /\ Wants(p, k)' /\ Wants(r, l)'
                          => p = r /\ Room(p, k)'
      <3>1. w \in Venues \ overlapped /\ (w = v => ~Unresolved(v))
        BY <1>1, <2>4
      <3>2. net'[w] = net[w] /\ net[w] \in -OpenQty..OpenQty
        BY <1>1, <1>11, <3>1 DEF OneInv
      <3>3. CASE w = v
        BY <1>8, <2>1, <2>2, <2>3, <3>1, <3>2, <3>3
      <3>4. CASE w # v
        <4>1. \A p \in Orders, k \in Nat : VenueOf(p) = w /\ Wants(p, k)' => Wants(p, k)
          BY <1>2, <1>8, <3>4
        <4>2. QED
          BY <1>11, <2>3, <3>1, <3>2, <4>1 DEF OneInv
      <3>5. QED
        BY <3>3, <3>4
    <2>5. QED
      BY <2>4 DEF OneInv
  <1>12. QED
    BY <1>9, <1>10, <1>11 DEF PositionInv

\* Every step keeps the sum and, for a managed strategy, the room.
LEMMA PositionStep ==
  ASSUME IInv, PositionInv, [Next]_vars
  PROVE  PositionInv' /\ (Sar = {} /\ OneInv => OneInv')
  <1>1. FinalKept /\ PricedInv
    BY StepInv DEF PositionInv
  <1>2. ASSUME Quiet, PricedInv' PROVE PositionInv' /\ (OneInv => OneInv')
    BY <1>1, <1>2, QuietKeeps DEF PositionInv
  <1>3. ASSUME UNCHANGED <<order, job, staged, net, booked, dropped, overlapped>>
        PROVE  PositionInv' /\ (OneInv => OneInv')
    <2>1. Quiet
      BY <1>3 DEF Quiet, Wants
    <2>2. PricedInv'
      BY <1>1, <1>3 DEF PricedInv
    <2>3. QED
      BY <1>2, <2>1, <2>2
  <1>4. ASSUME NEW d \in Deliveries, Deliver(d) PROVE PositionInv' /\ (OneInv => OneInv')
    BY <1>3, <1>4 DEF Deliver, worker, history
  <1>5. ASSUME NEW d \in Deliveries, Dispatch(d) PROVE PositionInv' /\ (Sar = {} /\ OneInv => OneInv')
    BY <1>1, <1>5, DispatchKeeps
  <1>6. ASSUME NEW a \in Actors, Execute(a) PROVE PositionInv' /\ (OneInv => OneInv')
    <2>1. CASE Call(a)
      BY <1>1, <1>2, <2>1, CallIsQuiet
    <2>2. CASE RecordSuccess(a)
      BY <1>1, <1>2, <2>2, SuccessIsQuiet
    <2>3. CASE BookFill(a)
      BY <2>3, BookKeeps
    <2>4. CASE RecordUnpriced(a) \/ RecordFailure(a)
      BY <1>1, <1>2, <2>4, WritesAreQuiet
    <2>5. QED
      BY <1>6, <2>1, <2>2, <2>3, <2>4 DEF Execute
  <1>7. CASE ScanRetries
    BY <1>3, <1>7 DEF ScanRetries, history
  <1>8. CASE ReplayNext
    BY <1>1, <1>2, <1>8, ReplayIsQuiet
  <1>9. CASE EndPass
    BY <1>1, <1>2, <1>9, EndPassIsQuiet
  <1>10. CASE ToggleKillSwitch
    BY <1>3, <1>10 DEF ToggleKillSwitch, worker, history
  <1>11. CASE Crash
    BY <1>1, <1>2, <1>11, CrashIsQuiet
  <1>12. CASE UNCHANGED vars
    BY <1>3, <1>12 DEF vars, worker, history
  <1>13. ASSUME NEW a \in Actors, SessionRaises(a) PROVE PositionInv' /\ (OneInv => OneInv')
    BY <1>1, <1>2, <1>13, AbortIsQuiet
  <1>14. QED
    BY <1>13, <1>4, <1>5, <1>6, <1>7, <1>8, <1>9, <1>10, <1>11, <1>12 DEF Next

\* The position per venue is the sum of the rows that were booked, whatever was lost on the way.
THEOREM PositionInvariant == Spec => []PositionInv
  <1>1. Init => PositionInv
    BY PositionInit
  <1>2. IInv /\ PositionInv /\ [Next]_vars => PositionInv'
    BY PositionStep
  <1>3. QED
    BY <1>1, <1>2, Invariant, PTL DEF Spec

\* The sum the audit computes, over booked rows.
LEMMA AuditedSum ==
  ASSUME NEW S, S \subseteq Orders, IsFiniteSet(S)
  PROVE  MapThenSumSet(LAMBDA o : Signed(o, order[o].qty), S) = Sum(SignedQty, S)
  <1> DEFINE g == SignedQty
             P(h) == h = [s \in SUBSET S |-> IF s = {} THEN 0
                                             ELSE Signed(Pick(s), order[Pick(s)].qty) + h[s \ {Pick(s)}]]
  <1>1. \A s \in SUBSET S : s # {} => g[Pick(s)] = Signed(Pick(s), order[Pick(s)].qty)
    BY PickInSet DEF SignedQty
  <1>2. \A h : [s \in SUBSET S |-> IF s = {} THEN 0
                                   ELSE Signed(Pick(s), order[Pick(s)].qty) + h[s \ {Pick(s)}]]
               = [s \in SUBSET S |-> IF s = {} THEN 0 ELSE g[Pick(s)] + h[s \ {Pick(s)}]]
    <2> HIDE DEF g
    <2> QED
      BY <1>1
  <1>3. \A h : P(h) <=> Sums(g, S, h)
    BY <1>2 DEF Sums
  <1>4. MapThenSumSet(LAMBDA o : Signed(o, order[o].qty), S) = (CHOOSE h : P(h))[S]
    BY Zenon DEF MapThenSumSet, MapThenFoldSet, Pick
  <1> HIDE DEF P, g
  <1>5. P(CHOOSE h : P(h))
    BY <1>3, SumsExists
  <1>6. Sums(g, S, CHOOSE h : P(h))
    BY <1>3, <1>5
  <1>7. Sum(g, S) = (CHOOSE h : P(h))[S]
    BY <1>6, SumFrom
  <1>8. QED
    BY <1>4, <1>7 DEF g

\* The audit's net: while no booking is under way, the position is the sum of the priced success
\* rows but for those whose booking was cut off, whatever was retried, rolled back or filled in
\* part.
THEOREM AuditFindsNoDrift == Spec => []AuditClean
  <1>1. IInv /\ PositionInv => AuditClean
    <2> SUFFICES ASSUME IInv, PositionInv, Unbooked(Actors) = {}, NEW v \in Venues
                 PROVE  net[v] = MapThenSumSet(LAMBDA o : Signed(o, order[o].qty),
                                    {o \in Orders \ dropped :
                                        /\ VenueOf(o) = v /\ order[o].priced
                                        /\ order[o].status = "success"})
      BY DEF AuditClean
    <2>1. \A a \in Actors : job[a].step # "recorded"
      BY DEF Unbooked
    <2>2. \A o \in Orders : booked[o] # 0 <=>
             o \notin dropped /\ order[o].status = "success" /\ order[o].priced
      BY <2>1 DEF PositionInv, PricedInv, IInv, CountInv, CountOf
    <2>3. {o \in Orders \ dropped : /\ VenueOf(o) = v /\ order[o].priced
                                    /\ order[o].status = "success"} = BookedAt(v)
      BY <2>2 DEF BookedAt
    <2>4. IsFiniteSet(BookedAt(v)) /\ net[v] = Sum(SignedQty, BookedAt(v)) /\ BookedAt(v) \subseteq Orders
      BY DEF PositionInv, SumOf, BookedAt
    <2>5. MapThenSumSet(LAMBDA o : Signed(o, order[o].qty), BookedAt(v)) = net[v]
      BY <2>4, AuditedSum
    <2>6. QED
      BY <2>3, <2>5
  <1>2. QED
    BY <1>1, Invariant, PositionInvariant, PTL

\* A managed strategy, none of whose signals is alert-driven, holds at most one OPEN on a venue
\* where no decision was taken while another order was unresolved.
THEOREM OneOpenAtMost == ASSUME Sar = {} PROVE Spec => []OneOpenUnlessOverlapped
  <1>1. Init => OneInv
    BY PositionInit
  <1>2. IInv /\ PositionInv /\ OneInv /\ [Next]_vars => OneInv'
    BY PositionStep
  <1>3. OneInv => OneOpenUnlessOverlapped
    BY DEF OneInv, OneOpenUnlessOverlapped
  <1>4. QED
    BY <1>1, <1>2, <1>3, Invariant, PositionInvariant, PTL DEF Spec
============================================================================
