--------------------------- MODULE ArbPairProofs ---------------------------
(* One arb per key, the hedge after its leg, the pairs of PairBook, and a   *)
(* book that the venue matches, for any finite set of requests, any keys    *)
(* and assets, and any closers, grids, fees, fills, attempts and faults.    *)
EXTENDS ArbPair, SumTheorems, TLAPS

RowType == [status : RowStatus, target : Int, filled : Int]
OrderType == [status : {"none", "success", "retrying", "dead"}, attempts : Int]
JobType == [step : {"none", "calling", "acked", "failed"}, leg : Legs \cup {<<>>},
            target : Int, filled : Int]
OpenerType == [step : {"none", "spot", "perp", "finalize", "to_open", "to_error"}, fill : Int]

\* What the records look like that EXCEPT updates.
Shape ==
    /\ arb \in [Requests -> {"none", "closed"} \cup NonClosed]
    /\ leg \in [Legs -> RowType]
    /\ order \in [Legs -> OrderType]
    /\ \A x \in Legs : order[x].status = "none" => order[x] = NoOrder
    /\ opener \in [Requests -> OpenerType]
    /\ job \in [Actors -> JobType]
    /\ \A a \in Actors : job[a].step # "none" => job[a].leg \in Legs
    /\ \A a \in Actors : job[a].step # "acked" => job[a].filled = 0
    /\ batch \subseteq Legs
    /\ staged \in [Legs -> [leg : RowType, order : OrderType]]
    /\ \A x \in Legs : staged[x].order.status = "none" => staged[x] = NothingStaged[x]

\* A close writes to an arb that exists, and never makes a leg a success.
CloserInv ==
    /\ DOMAIN closer = Closers
    /\ \A c \in Closers :
          /\ DOMAIN closer[c] = DOMAIN NoCloser
          /\ closer[c].step # "none" => closer[c].arb \in Requests /\ arb[closer[c].arb] # "none"
          /\ closer[c].write \in {"keep", "closed", "error"}

\* Orders and tasks only exist of arbs that do; a leg is filled by its order.
RowInv ==
    /\ \A r \in Requests : arb[r] = "none" => /\ opener[r].step = "none"
                                              /\ order[<<r, "spot">>].status = "none"
                                              /\ order[<<r, "perp">>].status = "none"
    /\ \A x \in Legs : leg[x].status = "success" => order[x].status = "success"

\* The task of an open goes through its legs in order, and remembers what leg 1 filled.
OpenerOf(r) ==
    /\ opener[r].step = "spot" => order[<<r, "spot">>].status = "none"
    /\ opener[r].step \in {"spot", "perp"} => order[<<r, "perp">>].status = "none"
    /\ opener[r].step = "perp" /\ HedgeQty(opener[r].fill) > 0 =>
          /\ order[<<r, "spot">>].status = "success"
          /\ leg[<<r, "spot">>].filled = opener[r].fill
    /\ opener[r].step = "to_open" => /\ order[<<r, "spot">>].status = "success"
                                     /\ order[<<r, "perp">>].status = "success"
    /\ job[r].step # "none" =>
          /\ opener[r].step \in {"spot", "perp"}
          /\ job[r].leg = <<r, opener[r].step>>
          /\ opener[r].step = "perp" => /\ HedgeQty(opener[r].fill) > 0
                                        /\ job[r].target = HedgeQty(opener[r].fill)
OpenerInv == \A r \in Requests : OpenerOf(r)

\* The worker handles orders that are retrying, and keeps their targets.
WorkerInv ==
    /\ \A x \in batch : order[x].status = "retrying"
    /\ job[Worker].step # "none" =>
          /\ order[job[Worker].leg].status = "retrying"
          /\ job[Worker].target = leg[job[Worker].leg].target
    /\ \A x \in Legs : staged[x].order.status # "none" =>
          /\ order[x].status = "retrying"
          /\ staged[x].leg.target = leg[x].target
          /\ staged[x].leg.status = staged[x].order.status

\* HedgeFollowsFill, by the status of the order and the hedge of the recorded fill.
HedgeInv ==
    \A r \in Requests : order[<<r, "perp">>].status # "none" =>
       /\ order[<<r, "spot">>].status = "success"
       /\ leg[<<r, "perp">>].target = HedgeQty(leg[<<r, "spot">>].filled)
       /\ leg[<<r, "perp">>].target > 0

IInv == Shape /\ CloserInv /\ RowInv /\ OpenerInv /\ WorkerInv /\ HedgeInv /\ OneArbPerKey
----------------------------------------------------------------------------
\* The hedge of a whole fill is whole.
LEMMA HedgeQtyInt == \A q \in Int : HedgeQty(q) \in Int
  BY GridAssumption DEF HedgeQty, SnapNearest

\* The hedge is off by at most half a step of its grid.
LEMMA HedgeQtyNear ==
  ASSUME NEW q \in Int, HedgeQty(q) > 0
  PROVE  2 * (HedgeQty(q) - q) \in -PerpStep..PerpStep
  <1> DEFINE b == 2 * PerpStep
             a == 2 * q + PerpStep
             k == a \div b
  <1>1. q >= PerpStep /\ HedgeQty(q) = k * PerpStep
    BY GridAssumption DEF HedgeQty, SnapNearest
  <1>2. a \in Nat /\ b \in Nat \ {0}
    BY <1>1, GridAssumption
  <1>3. k \in Nat /\ k * b <= a /\ a < k * b + b
    <2> HIDE DEF a, b
    <2> QED
      BY <1>2, SMT
  <1>4. k * b = 2 * (k * PerpStep) /\ k * PerpStep \in Int
    <2> HIDE DEF k, a
    <2> QED
      BY <1>3, GridAssumption, SMT
  <1> HIDE DEF k
  <1>5. QED
    BY <1>1, <1>3, <1>4, GridAssumption

\* A leg is its request and its product.
LEMMA LegsArePairs ==
  /\ \A r \in Requests : <<r, "spot">> \in Legs /\ <<r, "perp">> \in Legs
  /\ \A x \in Legs : /\ x[1] \in Requests
                     /\ x = <<x[1], "spot">> \/ x = <<x[1], "perp">>
  BY DEF Legs, Products

\* The invariant holds initially.
LEMMA InitInv == Init => IInv
  <1> SUFFICES ASSUME Init PROVE IInv
    OBVIOUS
  <1> USE LegsArePairs DEF Init
  <1>1. Shape
    BY DEF Shape, NonClosed, RowType, RowStatus, OrderType, JobType, OpenerType, NoLeg, NoOrder,
           NoJob, NoOpener, NothingStaged
  <1>2. CloserInv
    BY DEF CloserInv, NoCloser
  <1>3. RowInv /\ OpenerInv /\ HedgeInv /\ OneArbPerKey
    BY DEF RowInv, OpenerInv, OpenerOf, HedgeInv, OneArbPerKey, NoLeg, NoOrder, NoOpener, NoJob, Actors
  <1>4. WorkerInv
    BY DEF WorkerInv, NothingStaged, NoOrder, NoJob, Actors
  <1>5. QED
    BY <1>1, <1>2, <1>3, <1>4 DEF IInv
----------------------------------------------------------------------------
\* What a replay or a task leaves is a row again.
LEMMA RowsAfter ==
  ASSUME Shape, NEW a \in Actors, job[a].step \in {"acked", "failed"}
  PROVE  /\ job[a].leg \in Legs
         /\ LegAfter(a) \in RowType /\ OrderAfter(a) \in OrderType
         /\ OrderAfter(a).status # "none"
         /\ LegAfter(a).status = OrderAfter(a).status
         /\ LegAfter(a).target = job[a].target
         /\ OrderAfter(a).status = "success" <=> job[a].step = "acked"
         /\ job[a].step = "acked" => LegAfter(a).filled = job[a].filled
  BY DEF Shape, LegAfter, OrderAfter, RowType, RowStatus, OrderType, JobType

\* Updating one field of one row.
LEMMA StatusUpdate ==
  ASSUME leg \in [Legs -> RowType], NEW x \in Legs, NEW v \in RowStatus
  PROVE  [leg EXCEPT ![x].status = v] \in [Legs -> RowType]
  BY DEF RowType

\* Changing the step keeps the type of openers,
LEMMA StepUpdate ==
  ASSUME opener \in [Requests -> OpenerType], NEW r \in Requests,
         NEW v \in {"none", "spot", "perp", "finalize", "to_open", "to_error"}
  PROVE  [opener EXCEPT ![r].step = v] \in [Requests -> OpenerType]
  BY DEF OpenerType

\* and of jobs;
LEMMA JobStepUpdate ==
  ASSUME job \in [Actors -> JobType], NEW a \in Actors, NEW v \in {"calling", "acked", "failed"}
  PROVE  [job EXCEPT ![a].step = v] \in [Actors -> JobType]
  BY DEF JobType

\* so does the answer to a job's call.
LEMMA JobFilledUpdate ==
  ASSUME NEW f \in [Actors -> JobType], NEW a \in Actors, NEW n \in Int
  PROVE  [f EXCEPT ![a].filled = n] \in [Actors -> JobType]
  BY DEF JobType

\* The job of a replay.
LEMMA ReplayJob ==
  ASSUME NEW x, NEW q
  PROVE  [NoJob EXCEPT !.step = "calling", !.leg = x, !.target = q]
         = [step |-> "calling", leg |-> x, target |-> q, filled |-> 0]
  <1>1. [NoJob EXCEPT !.step = "calling"]
        = [step |-> "calling", leg |-> <<>>, target |-> 0, filled |-> 0]
    BY DEF NoJob
  <1>2. [[step |-> "calling", leg |-> <<>>, target |-> 0, filled |-> 0] EXCEPT !.leg = x]
        = [step |-> "calling", leg |-> x, target |-> 0, filled |-> 0]
    OBVIOUS
  <1>3. [[step |-> "calling", leg |-> x, target |-> 0, filled |-> 0] EXCEPT !.target = q]
        = [step |-> "calling", leg |-> x, target |-> q, filled |-> 0]
    OBVIOUS
  <1>4. [NoJob EXCEPT !.step = "calling", !.leg = x, !.target = q]
        = [[[NoJob EXCEPT !.step = "calling"] EXCEPT !.leg = x] EXCEPT !.target = q]
    OBVIOUS
  <1>5. QED
    BY <1>1, <1>2, <1>3, <1>4

\* A call keeps the types of the rows and the venue's books.
LEMMA CallShape ==
  ASSUME Shape, NEW a \in Actors, Call(a)
  PROVE  /\ job' \in [Actors -> JobType]
         /\ \A b \in Actors \ {a} : job'[b] = job[b]
         /\ job'[a].leg = job[a].leg /\ job'[a].target = job[a].target
         /\ job'[a].step = "acked" \/ (job'[a].step = "failed" /\ job'[a].filled = 0)
  <1> USE DEF Shape
  <1>1. job[a].step = "calling" /\ job[a].filled = 0
    BY DEF Call
  <1>2. \A x \in Legs, q \in Fills : Recorded(x, q) \subseteq Int
    BY QtyAssumption, GridAssumption DEF Recorded
  <1>3. ASSUME NEW n \in Int, job' = [job EXCEPT ![a].step = "acked", ![a].filled = n]
        PROVE  job' = [[job EXCEPT ![a].step = "acked"] EXCEPT ![a].filled = n]
    BY <1>3
  <1>4. CASE \E n \in Int : job' = [job EXCEPT ![a].step = "acked", ![a].filled = n]
    <2>1. PICK n \in Int : job' = [job EXCEPT ![a].step = "acked", ![a].filled = n]
      BY <1>4
    <2> DEFINE f == [job EXCEPT ![a].step = "acked"]
    <2>2. f \in [Actors -> JobType] /\ job' = [f EXCEPT ![a].filled = n]
      BY <2>1, <1>3, JobStepUpdate
    <2>3. job' \in [Actors -> JobType]
      <3> HIDE DEF f
      <3> QED
        BY <2>2, JobFilledUpdate
    <2>4. QED
      <3>1. DOMAIN job = Actors /\ DOMAIN job[a] = {"step", "leg", "target", "filled"}
        BY DEF JobType
      <3>2. job'[a] = [[job[a] EXCEPT !.step = "acked"] EXCEPT !.filled = n]
        BY <2>1, <3>1
      <3>3. \A b \in Actors \ {a} : job'[b] = job[b]
        BY <2>1, <3>1
      <3> DEFINE j == [job[a] EXCEPT !.step = "acked"]
      <3>4. /\ DOMAIN j = {"step", "leg", "target", "filled"}
            /\ j.step = "acked" /\ j.leg = job[a].leg /\ j.target = job[a].target
        BY <3>1
      <3>5. job'[a].step = j.step /\ job'[a].leg = j.leg /\ job'[a].target = j.target
        <4> HIDE DEF j
        <4> QED
          BY <3>2, <3>4
      <3>6. QED
        <4> HIDE DEF j
        <4> QED
          BY <2>3, <3>3, <3>4, <3>5
  <1>5. CASE job' = [job EXCEPT ![a].step = "failed"]
    <2>1. job' \in [Actors -> JobType]
      BY <1>5, JobStepUpdate
    <2>2. QED
      BY <1>1, <1>5, <2>1 DEF JobType
  <1>6. (\E n \in Int : job' = [job EXCEPT ![a].step = "acked", ![a].filled = n])
        \/ job' = [job EXCEPT ![a].step = "failed"]
    <2>1. job[a].target \in Int
      BY DEF JobType
    <2>2. QED
      BY <1>1, <1>2, <2>1 DEF Call
  <1>7. QED
    BY <1>4, <1>5, <1>6

\* Every step keeps the types.
LEMMA ShapeStep ==
  ASSUME Shape, CloserInv, [Next]_vars
  PROVE  Shape'
  <1> USE DEF Shape, book, worker, closing, outside, venue, faults
  <1> USE LegsArePairs
  <1>1. ASSUME NEW r \in Requests, OpenCheck(r) PROVE Shape'
    BY <1>1 DEF OpenCheck
  <1>2. ASSUME NEW r \in Requests, OpenPersist(r) PROVE Shape'
    <2>1. NewLegs(r) \in [Legs -> RowType]
      BY QtyAssumption DEF NewLegs, RowType, RowStatus
    <2>2. \/ UNCHANGED <<leg, opener>>
          \/ leg' = NewLegs(r) /\ opener' = [opener EXCEPT ![r].step = "spot"]
      BY <1>2 DEF OpenPersist
    <2>6. leg' \in [Legs -> RowType]
      BY <2>1, <2>2
    <2>7. opener' \in [Requests -> OpenerType]
      <3>1. [opener EXCEPT ![r].step = "spot"] \in [Requests -> OpenerType]
        BY StepUpdate
      <3>2. QED
        BY <2>2, <3>1
    <2>3. arb' \in [Requests -> {"none", "closed"} \cup NonClosed]
      BY <1>2 DEF OpenPersist, NonClosed
    <2>4. UNCHANGED <<order, job, batch, staged>>
      BY <1>2 DEF OpenPersist
    <2>5. QED
      BY <2>3, <2>4, <2>6, <2>7
  <1>3. ASSUME NEW r \in Requests, StartSpot(r) PROVE Shape'
    BY <1>3 DEF StartSpot, Actors, JobType, NoJob, RowType
  <1>4. ASSUME NEW r \in Requests, StartHedge(r) PROVE Shape'
    BY <1>4, HedgeQtyInt DEF StartHedge, Actors, JobType, NoJob, OpenerType
  <1>5. ASSUME NEW r \in Requests, SkipHedge(r) PROVE Shape'
    <2>1. leg' \in [Legs -> RowType] /\ opener' \in [Requests -> OpenerType]
      BY <1>5, StatusUpdate, StepUpdate DEF SkipHedge, RowStatus
    <2>2. QED
      BY <1>5, <2>1 DEF SkipHedge
  <1>6. ASSUME NEW r \in Requests, CommitLeg(r) PROVE Shape'
    <2>1. r \in Actors
      BY DEF Actors
    <2>2. QED
      BY <1>6, <2>1, RowsAfter DEF CommitLeg, JobType, NoJob, OpenerType
  <1>7. ASSUME NEW r \in Requests, ReadVerdict(r) \/ WriteVerdict(r) PROVE Shape'
    <2>1. CASE ReadVerdict(r)
      <3>1. opener' \in [Requests -> OpenerType]
        BY <2>1, StepUpdate DEF ReadVerdict
      <3>2. QED
        BY <2>1, <3>1 DEF ReadVerdict
    <2>2. CASE WriteVerdict(r)
      BY <2>2 DEF WriteVerdict, NonClosed, NoOpener, OpenerType
    <2>3. QED
      BY <1>7, <2>1, <2>2
  <1>8. ASSUME NEW a \in Actors, Call(a) PROVE Shape'
    <2>1. job[a].step = "calling" /\ UNCHANGED <<arb, leg, order, opener, batch, staged>>
      BY <1>8 DEF Call
    <2>2. QED
      BY <1>8, <2>1, CallShape
  <1>9. CASE ScanRetries
    BY <1>9 DEF ScanRetries, Due
  <1>10. CASE ReplayNext
    <2>1. Worker \in Actors
      BY DEF Actors
    <2>6. \A x \in batch : [NoJob EXCEPT !.step = "calling", !.leg = x, !.target = leg[x].target]
                            = [step |-> "calling", leg |-> x, target |-> leg[x].target,
                               filled |-> 0]
      BY ReplayJob
    <2>2. PICK x \in batch :
               job' = [job EXCEPT ![Worker] = [step |-> "calling", leg |-> x,
                                               target |-> leg[x].target, filled |-> 0]]
      BY <1>10, <2>6 DEF ReplayNext
    <2>3. x \in Legs /\ leg[x].target \in Int
      BY DEF RowType
    <2>4. job' \in [Actors -> JobType]
      BY <2>1, <2>2, <2>3 DEF JobType
    <2>5. QED
      BY <1>10, <2>1, <2>2, <2>3, <2>4 DEF ReplayNext
  <1>11. CASE StageLeg
    <2>1. Worker \in Actors
      BY DEF Actors
    <2>2. QED
      BY <1>11, <2>1, RowsAfter DEF StageLeg, JobType, NoJob
  <1>12. CASE EndPass
    BY <1>12 DEF EndPass, IsStaged, NothingStaged, NoLeg, NoOrder, RowType, RowStatus, OrderType
  <1>13. CASE AbortPass
    BY <1>13 DEF AbortPass, Abort, NothingStaged, NoLeg, NoOrder, RowType, RowStatus, OrderType,
                JobType, NoJob, Actors
  <1>14. ASSUME NEW r \in Requests, AbortOpen(r) PROVE Shape'
    BY <1>14 DEF AbortOpen, Abort, NoOpener, OpenerType
  <1>15. ASSUME NEW c \in Closers, CloseCheck(c) \/ AbortClose(c) PROVE Shape'
    BY <1>15 DEF CloseCheck, AbortClose, Abort
  <1>16. ASSUME NEW c \in Closers, RunClose(c) PROVE Shape'
    <2>1. CASE CloseAccept(c) \/ FinishClose(c)
      BY <2>1 DEF CloseAccept, FinishClose, NonClosed
    <2>2. CASE CloseSpot(c) \/ ClosePerp(c) \/ \E p \in Products : SkipClosedLeg(c, p)
      BY <2>2 DEF CloseSpot, ClosePerp, SkipClosedLeg
    <2>3. ASSUME NEW p \in Products, CommitClosedLeg(c, p) PROVE Shape'
      <3>1. closer[c].step # "none" /\ <<closer[c].arb, p>> \in Legs
        BY <2>3 DEF CommitClosedLeg, CalledStep, CloserInv, Legs
      <3>2. leg' \in [Legs -> RowType]
        BY <2>3, <3>1, StatusUpdate DEF CommitClosedLeg, CloserInv, RowStatus
      <3>3. QED
        BY <2>3, <3>2 DEF CommitClosedLeg
    <2>4. QED
      BY <1>16, <2>1, <2>2, <2>3 DEF RunClose
  <1>17. CASE Crash
    BY <1>17 DEF Crash, NothingStaged, NoLeg, NoOrder, RowType, RowStatus, OrderType, JobType, NoJob,
                OpenerType, NoOpener
  <1>18. CASE UNCHANGED vars
    BY <1>18 DEF vars
  <1>19. QED
    BY <1>1, <1>2, <1>3, <1>4, <1>5, <1>6, <1>7, <1>8, <1>9, <1>10, <1>11, <1>12, <1>13, <1>14,
       <1>15, <1>16, <1>17, <1>18 DEF Next, RunOpen
----------------------------------------------------------------------------
\* A close that goes on keeps its arb.
LEMMA CloserKept ==
  ASSUME CloserInv, UNCHANGED arb, NEW c \in Closers, closer[c].step # "none",
         NEW j, closer' = [closer EXCEPT ![c] = j], DOMAIN j = DOMAIN NoCloser,
         j.arb = closer[c].arb, j.write \in {"keep", "closed", "error"}
  PROVE  CloserInv'
  BY DEF CloserInv

\* A step of another actor keeps what the closes know,
LEMMA CloserStepKept ==
  ASSUME CloserInv, UNCHANGED arb, NEW c \in Closers, closer[c].step # "none",
         NEW s, closer' = [closer EXCEPT ![c].step = s]
  PROVE  CloserInv'
  BY DEF CloserInv, NoCloser

\* one that also decides what to write,
LEMMA CloserWriteKept ==
  ASSUME CloserInv, UNCHANGED arb, NEW c \in Closers, closer[c].step # "none",
         NEW s, NEW w \in {"keep", "closed", "error"},
         closer' = [closer EXCEPT ![c].step = s, ![c].write = w]
  PROVE  CloserInv'
  <1> DEFINE k1 == [closer[c] EXCEPT !.step = s]
             k2 == [k1 EXCEPT !.write = w]
  <1>1. closer' = [closer EXCEPT ![c] = k2]
    BY DEF CloserInv
  <1>2. DOMAIN k1 = DOMAIN NoCloser /\ k1.arb = closer[c].arb
    BY DEF CloserInv, NoCloser
  <1> HIDE DEF k1
  <1>3. DOMAIN k2 = DOMAIN NoCloser /\ k2.arb = closer[c].arb /\ k2.write = w
    BY <1>2 DEF NoCloser
  <1> HIDE DEF k2
  <1>4. QED
    BY <1>1, <1>3, CloserKept

\* and one that counts an error besides.
LEMMA CloserErrorsKept ==
  ASSUME CloserInv, UNCHANGED arb, NEW c \in Closers, closer[c].step # "none",
         NEW s, NEW w \in {"keep", "closed", "error"}, NEW e,
         closer' = [closer EXCEPT ![c].step = s, ![c].write = w, ![c].errors = e]
  PROVE  CloserInv'
  <1> DEFINE k1 == [closer[c] EXCEPT !.step = s]
             k2 == [k1 EXCEPT !.write = w]
             k3 == [k2 EXCEPT !.errors = e]
  <1>1. closer' = [closer EXCEPT ![c] = k3]
    BY DEF CloserInv
  <1>2. DOMAIN k1 = DOMAIN NoCloser /\ k1.arb = closer[c].arb
    BY DEF CloserInv, NoCloser
  <1> HIDE DEF k1
  <1>3. DOMAIN k2 = DOMAIN NoCloser /\ k2.arb = closer[c].arb /\ k2.write = w
    BY <1>2 DEF NoCloser
  <1> HIDE DEF k2
  <1>4. DOMAIN k3 = DOMAIN NoCloser /\ k3.arb = closer[c].arb /\ k3.write = w
    BY <1>3 DEF NoCloser
  <1> HIDE DEF k3
  <1>5. QED
    BY <1>1, <1>4, CloserKept

\* Closes: they hold an arb that exists, and no step takes an arb out of the table.
LEMMA CloserStep ==
  ASSUME IInv, [Next]_vars
  PROVE  /\ CloserInv'
         /\ \A r \in Requests : arb[r] # "none" => arb'[r] # "none"
  <1> DEFINE Stays == \A r \in Requests : arb[r] # "none" => arb'[r] # "none"
  <1> USE DEF IInv, Shape, CloserInv, book, worker, closing, outside, venue, faults
  <1>1. ASSUME NEW r \in Requests, OpenCheck(r) \/ OpenPersist(r) \/ AbortOpen(r)
        PROVE  CloserInv' /\ Stays
    BY <1>1 DEF OpenCheck, OpenPersist, AbortOpen, Abort
  <1>2. ASSUME NEW r \in Requests, RunOpen(r) PROVE CloserInv' /\ Stays
    BY <1>2 DEF RunOpen, StartSpot, StartHedge, SkipHedge, CommitLeg, ReadVerdict, WriteVerdict
  <1>3. CASE (\E a \in Actors : Call(a)) \/ ScanRetries \/ ReplayNext \/ StageLeg \/ EndPass
             \/ AbortPass \/ UNCHANGED vars
    BY <1>3 DEF Call, ScanRetries, ReplayNext, StageLeg, EndPass, AbortPass, Abort, vars
  <1>4. ASSUME NEW c \in Closers, CloseCheck(c) PROVE CloserInv' /\ Stays
    BY <1>4 DEF CloseCheck, NoCloser
  <1>5. ASSUME NEW c \in Closers, CloseAccept(c) PROVE CloserInv' /\ Stays
    BY <1>5 DEF CloseAccept, NoCloser
  <1>6. ASSUME NEW c \in Closers, FinishClose(c) PROVE CloserInv' /\ Stays
    BY <1>6 DEF FinishClose, NoCloser
  <1>7. ASSUME NEW c \in Closers, NEW p \in Products, SkipClosedLeg(c, p) \/ CommitClosedLeg(c, p)
        PROVE  CloserInv' /\ Stays
    <2>1. closer[c].step # "none" /\ UNCHANGED arb
      BY <1>7 DEF SkipClosedLeg, CommitClosedLeg, CalledStep, Products
    <2>2. \/ closer' = [closer EXCEPT ![c].step = AfterLeg(p)]
          \/ closer' = [closer EXCEPT ![c].step = AfterLeg(p), ![c].write = "keep"]
      BY <1>7 DEF SkipClosedLeg, CommitClosedLeg
    <2>3. QED
      <3>1. CASE closer' = [closer EXCEPT ![c].step = AfterLeg(p)]
        BY <2>1, <3>1, CloserStepKept
      <3>2. CASE closer' = [closer EXCEPT ![c].step = AfterLeg(p), ![c].write = "keep"]
        BY <2>1, <3>2, CloserWriteKept
      <3>3. QED
        BY <2>1, <2>2, <3>1, <3>2
  <1>8. ASSUME NEW c \in Closers, CloseSpot(c) \/ ClosePerp(c) PROVE CloserInv' /\ Stays
    <2>1. PICK p \in Products, ok \in BOOLEAN : closer' = Called(c, p, ok)
      BY <1>8 DEF CloseSpot, ClosePerp, Products
    <2>2. closer[c].step # "none" /\ UNCHANGED arb
      BY <1>8 DEF CloseSpot, ClosePerp
    <2>3. PICK w \in {"keep", "closed", "error"}, e \in {closer[c].errors \/ ~ok} :
               closer' = [closer EXCEPT ![c].step = CalledStep(p), ![c].write = w,
                                        ![c].errors = e]
      BY <2>1 DEF Called
    <2>4. QED
      BY <2>2, <2>3, CloserErrorsKept
  <1>9. ASSUME NEW c \in Closers, AbortClose(c) PROVE CloserInv' /\ Stays
    <2>1. CASE \E p \in Products :
                  /\ closer[c].step \in {p, CalledStep(p)}
                  /\ closer' = [closer EXCEPT ![c].step = AfterLeg(p), ![c].write = "keep",
                                              ![c].errors = TRUE]
      <3>1. closer[c].step # "none" /\ UNCHANGED arb
        BY <1>9, <2>1 DEF AbortClose, CalledStep, Products
      <3>2. PICK p \in Products :
                 closer' = [closer EXCEPT ![c].step = AfterLeg(p), ![c].write = "keep",
                                          ![c].errors = TRUE]
        BY <2>1
      <3>3. CloserInv'
        BY <3>1, <3>2, CloserErrorsKept
      <3>4. QED
        BY <3>1, <3>3
    <2>2. CASE closer' = [closer EXCEPT ![c] = NoCloser]
      BY <1>9, <2>2 DEF AbortClose, NoCloser
    <2>3. QED
      BY <1>9, <2>1, <2>2 DEF AbortClose
  <1>10. CASE Crash
    BY <1>10 DEF Crash, NoCloser
  <1>11. QED
    BY <1>1, <1>2, <1>3, <1>4, <1>5, <1>6, <1>7, <1>8, <1>9, <1>10 DEF Next, RunClose
----------------------------------------------------------------------------
(* The rows, one lemma per kind of step. *)

Inner == RowInv /\ OpenerInv /\ WorkerInv /\ HedgeInv

\* Steps of requests, venue and closes that write none of the rows.
LEMMA SameRows ==
  ASSUME IInv, UNCHANGED <<book, opener, job, worker>>
  PROVE  Inner'
  BY DEF Inner, IInv, RowInv, OpenerInv, OpenerOf, WorkerInv, HedgeInv, book, worker, Shape, IsStaged

\* A close, or a verdict, overwrites the status of an arb.
LEMMA OtherStatus ==
  ASSUME IInv, NEW r \in Requests, arb[r] # "none", NEW v \in {"open", "error", "closing", "closed"},
         arb' = [arb EXCEPT ![r] = v], UNCHANGED <<leg, order, opener, job, worker>>
  PROVE  Inner'
  BY DEF Inner, IInv, RowInv, OpenerInv, OpenerOf, WorkerInv, HedgeInv, worker, Shape

\* A close overwrites the status of a leg.
LEMMA LegStatus ==
  ASSUME IInv, NEW x \in Legs, NEW v \in {"closed", "error"},
         leg' = [leg EXCEPT ![x].status = v], UNCHANGED <<arb, order, opener, job, worker>>
  PROVE  Inner'
  <1> USE LegsArePairs DEF IInv, Shape
  <1>1. \A y \in Legs : /\ leg'[y].target = leg[y].target /\ leg'[y].filled = leg[y].filled
                        /\ leg'[y].status = "success" => leg[y].status = "success"
    BY DEF RowType
  <1>2. RowInv'
    BY <1>1 DEF RowInv
  <1>5. OpenerInv'
    <2>1. ASSUME NEW r \in Requests PROVE OpenerOf(r)'
      <3>1. OpenerOf(r)
        BY DEF OpenerInv
      <3>2. leg'[<<r, "spot">>].filled = leg[<<r, "spot">>].filled
        BY <1>1
      <3> HIDE DEF IInv, Shape
      <3>3. QED
        BY <3>1, <3>2 DEF OpenerOf
    <2>2. QED
      BY <2>1 DEF OpenerInv
  <1>6. HedgeInv'
    <2>1. ASSUME NEW r \in Requests, order'[<<r, "perp">>].status # "none"
          PROVE  /\ order'[<<r, "spot">>].status = "success"
                 /\ leg'[<<r, "perp">>].target = HedgeQty(leg'[<<r, "spot">>].filled)
                 /\ leg'[<<r, "perp">>].target > 0
      <3>1. order[<<r, "perp">>].status # "none"
        BY <2>1
      <3>2. QED
        BY <3>1, <1>1 DEF HedgeInv
    <2>2. QED
      BY <2>1 DEF HedgeInv
  <1>3. WorkerInv'
    BY <1>1 DEF WorkerInv, worker, Actors
  <1>4. QED
    BY <1>2, <1>3, <1>5, <1>6 DEF Inner

\* The new rows of an open satisfy the invariant.
LEMMA OpenPersistStep ==
  ASSUME IInv, NEW r \in Requests, OpenPersist(r)
  PROVE  Inner' /\ OneArbPerKey'
  <1> USE LegsArePairs DEF IInv, Shape, worker
  <1>1. CASE UNCHANGED <<arb, leg, opener>>
    BY <1>1, SameRows DEF OpenPersist, book, OneArbPerKey
  <1>2. CASE /\ Repeats(r) = {} /\ arb' = [arb EXCEPT ![r] = "opening"] /\ leg' = NewLegs(r)
             /\ opener' = [opener EXCEPT ![r].step = "spot"]
    <2>1. arb[r] = "none" /\ \A q \in Requests : KeyOf[q] = KeyOf[r] => arb[q] = "none"
      BY <1>2 DEF Repeats
    <2>2. UNCHANGED <<order, job, worker>>
      BY DEF OpenPersist
    <2>3. \A x \in Legs : IF x[1] = r THEN leg'[x].status = "pending" ELSE leg'[x] = leg[x]
      BY <1>2 DEF NewLegs
    <2>4. opener'[r].step = "spot" /\ \A q \in Requests \ {r} : opener'[q] = opener[q]
      BY <1>2 DEF OpenerType
    <2>5. opener[r].step = "none" /\ order[<<r, "spot">>].status = "none"
          /\ order[<<r, "perp">>].status = "none" /\ job[r].step = "none"
      BY <2>1 DEF RowInv, OpenerInv, OpenerOf
    <2>6. \A x \in Legs : order[x].status # "none" => leg'[x] = leg[x]
      BY <2>3, <2>5
    <2>7. RowInv'
      <3>1. ASSUME NEW q \in Requests, arb'[q] = "none"
            PROVE  opener'[q].step = "none" /\ order'[<<q, "spot">>].status = "none"
                   /\ order'[<<q, "perp">>].status = "none"
        <4>1. q # r /\ arb[q] = "none"
          BY <1>2, <3>1
        <4>2. QED
          BY <2>2, <2>4, <4>1 DEF RowInv
      <3>2. ASSUME NEW x \in Legs, leg'[x].status = "success"
            PROVE  order'[x].status = "success"
        BY <2>2, <2>3, <3>2 DEF RowInv
      <3>3. QED
        BY <3>1, <3>2 DEF RowInv
    <2>8. OpenerInv'
      <3>1. ASSUME NEW q \in Requests PROVE OpenerOf(q)'
        <4>1. CASE q = r
          BY <2>2, <2>4, <2>5, <4>1, LegsArePairs DEF OpenerOf
        <4>2. CASE q # r
          BY <2>2, <2>4, <2>6, <4>2 DEF OpenerInv, OpenerOf
        <4>3. QED
          BY <4>1, <4>2
      <3>2. QED
        BY <3>1 DEF OpenerInv
    <2>9. WorkerInv'
      BY <2>2, <2>6 DEF WorkerInv, Actors
    <2>10. HedgeInv'
      BY <2>2, <2>6 DEF HedgeInv
    <2>11. OneArbPerKey'
      BY <1>2, <2>1 DEF OneArbPerKey
    <2>12. QED
      BY <2>7, <2>8, <2>9, <2>10, <2>11 DEF Inner
  <1>3. QED
    BY <1>1, <1>2 DEF OpenPersist

\* A task that takes up a leg.
LEMMA StartStep ==
  ASSUME IInv, NEW r \in Requests, StartSpot(r) \/ StartHedge(r)
  PROVE  Inner'
  <1> USE LegsArePairs, WorkerAssumption DEF IInv, Shape, book, worker
  <1>1. UNCHANGED <<arb, leg, order, opener, batch, staged>>
    BY DEF StartSpot, StartHedge
  <1>2. /\ opener[r].step \in {"spot", "perp"}
        /\ job'[r].leg = <<r, opener[r].step>>
        /\ opener[r].step = "perp" => /\ HedgeQty(opener[r].fill) > 0
                                      /\ job'[r].target = HedgeQty(opener[r].fill)
    <2>1. CASE StartSpot(r)
      <3>1. job'[r] = [step |-> "calling", leg |-> <<r, "spot">>,
                       target |-> leg[<<r, "spot">>].target, filled |-> 0]
        BY <2>1, ReplayJob DEF StartSpot, Actors
      <3>2. QED
        BY <2>1, <3>1 DEF StartSpot
    <2>2. CASE StartHedge(r)
      <3>1. job'[r] = [step |-> "calling", leg |-> <<r, "perp">>,
                       target |-> HedgeQty(opener[r].fill), filled |-> 0]
        BY <2>2, ReplayJob DEF StartHedge, Actors
      <3>2. QED
        BY <2>2, <3>1 DEF StartHedge
    <2>3. QED
      BY <2>1, <2>2
  <1>3. \A a \in Actors \ {r} : job'[a] = job[a]
    BY DEF StartSpot, StartHedge
  <1>4. OpenerInv'
    <2>1. ASSUME NEW q \in Requests PROVE OpenerOf(q)'
      <3>1. OpenerOf(q)
        BY DEF OpenerInv
      <3>2. CASE q = r
        BY <3>1, <3>2, <1>1, <1>2 DEF OpenerOf
      <3>3. CASE q # r
        <4>1. job'[q] = job[q]
          BY <1>3, <3>3 DEF Actors
        <4>2. QED
          BY <3>1, <1>1, <4>1 DEF OpenerOf
      <3>4. QED
        BY <3>2, <3>3
    <2>2. QED
      BY <2>1 DEF OpenerInv
  <1>5. WorkerInv'
    <2>1. job'[Worker] = job[Worker]
      BY <1>3 DEF Actors
    <2>2. QED
      BY <1>1, <2>1 DEF WorkerInv
  <1>6. QED
    BY <1>1, <1>4, <1>5 DEF RowInv, HedgeInv, Inner

\* Leg 2 is not placed.
LEMMA SkipStep ==
  ASSUME IInv, NEW r \in Requests, SkipHedge(r)
  PROVE  Inner'
  <1> USE LegsArePairs, WorkerAssumption DEF IInv, Shape, worker
  <1> DEFINE x == <<r, "perp">>
  <1>1. UNCHANGED <<arb, order, job, batch, staged>>
    BY DEF SkipHedge
  <1>2. \A y \in Legs : /\ leg'[y].target = leg[y].target /\ leg'[y].filled = leg[y].filled
                        /\ leg'[y].status = "success" => leg[y].status = "success"
    <2>1. x \in Legs /\ leg' = [leg EXCEPT ![x].status = "error"]
      BY DEF SkipHedge
    <2> HIDE DEF x
    <2>2. QED
      BY <2>1 DEF RowType
  <1>3. /\ opener[r].step = "perp" /\ opener'[r].step = "finalize" /\ job[r].step = "none"
        /\ \A q \in Requests \ {r} : opener'[q] = opener[q]
    BY DEF SkipHedge, OpenerType, NoJob
  <1>4. OpenerInv'
    <2>1. ASSUME NEW q \in Requests PROVE OpenerOf(q)'
      <3>1. OpenerOf(q) /\ leg'[<<q, "spot">>].filled = leg[<<q, "spot">>].filled
        BY <1>2 DEF OpenerInv
      <3>2. CASE q = r
        BY <3>2, <1>1, <1>3 DEF OpenerOf
      <3>3. CASE q # r
        BY <3>1, <3>3, <1>1, <1>3 DEF OpenerOf
      <3>4. QED
        BY <3>2, <3>3
    <2>2. QED
      BY <2>1 DEF OpenerInv
  <1>5. RowInv'
    BY <1>1, <1>2, <1>3 DEF RowInv
  <1>6. WorkerInv'
    BY <1>1, <1>2 DEF WorkerInv, Actors
  <1>7. HedgeInv'
    <2>1. ASSUME NEW q \in Requests, order'[<<q, "perp">>].status # "none"
          PROVE  /\ order'[<<q, "spot">>].status = "success"
                 /\ leg'[<<q, "perp">>].target = HedgeQty(leg'[<<q, "spot">>].filled)
                 /\ leg'[<<q, "perp">>].target > 0
      <3>1. order[<<q, "perp">>].status # "none"
        BY <2>1, <1>1
      <3>2. QED
        BY <3>1, <1>1, <1>2 DEF HedgeInv
    <2>2. QED
      BY <2>1 DEF HedgeInv
  <1>8. QED
    BY <1>4, <1>5, <1>6, <1>7 DEF Inner

\* The session of a leg of an open ends: its order appears.
LEMMA CommitLegStep ==
  ASSUME IInv, NEW r \in Requests, CommitLeg(r)
  PROVE  Inner'
  <1> USE LegsArePairs, WorkerAssumption DEF IInv, Shape, worker
  <1> DEFINE x == job[r].leg
             p == opener[r].step
             acked == job[r].step = "acked"
  <1>1. /\ UNCHANGED <<arb, batch, staged>> /\ job' = [job EXCEPT ![r] = NoJob]
        /\ r \in Actors /\ job[r].step \in {"acked", "failed"}
    BY DEF CommitLeg, Actors
  <1>2. /\ OpenerOf(r)
        /\ p \in {"spot", "perp"} /\ x = <<r, p>> /\ x \in Legs
        /\ order[x].status = "none" /\ order[<<r, "perp">>].status = "none"
        /\ arb[r] # "none"
    BY <1>1 DEF OpenerInv, OpenerOf, RowInv
  <1>3. /\ leg'[x] = LegAfter(r) /\ order'[x] = OrderAfter(r)
        /\ \A y \in Legs \ {x} : leg'[y] = leg[y] /\ order'[y] = order[y]
    BY <1>2 DEF CommitLeg
  <1>4. /\ order'[x].status # "none" /\ leg'[x].status = order'[x].status
        /\ leg'[x].target = job[r].target
        /\ order'[x].status = "success" <=> acked
        /\ acked => leg'[x].filled = job[r].filled
        /\ ~acked => job[r].filled = 0
    BY <1>1, <1>3, RowsAfter
  <1>5. /\ p = "spot" => opener'[r].step = "perp" /\ opener'[r].fill = job[r].filled
        /\ p = "perp" => opener'[r].step = "finalize"
        /\ \A q \in Requests \ {r} : opener'[q] = opener[q]
    BY <1>1, <1>2 DEF CommitLeg
  <1>6. job'[r] = NoJob /\ \A a \in Actors \ {r} : job'[a] = job[a]
    BY <1>1
  <1> HIDE DEF x, p, acked
  <1>7. \A q \in Requests \ {r} : <<q, "spot">> # x /\ <<q, "perp">> # x
    BY <1>2
  <1>8. RowInv'
    <2>1. ASSUME NEW q \in Requests, arb'[q] = "none"
          PROVE  opener'[q].step = "none" /\ order'[<<q, "spot">>].status = "none"
                 /\ order'[<<q, "perp">>].status = "none"
      <3>1. q # r
        BY <2>1, <1>1, <1>2
      <3>2. /\ opener'[q] = opener[q]
            /\ order'[<<q, "spot">>] = order[<<q, "spot">>]
            /\ order'[<<q, "perp">>] = order[<<q, "perp">>]
        BY <3>1, <1>3, <1>5, <1>7
      <3>3. QED
        BY <2>1, <3>2, <1>1 DEF RowInv
    <2>2. ASSUME NEW y \in Legs, leg'[y].status = "success"
          PROVE  order'[y].status = "success"
      BY <2>2, <1>3, <1>4 DEF RowInv
    <2>3. QED
      BY <2>1, <2>2 DEF RowInv
  <1>9. OpenerInv'
    <2>1. ASSUME NEW q \in Requests, q # r PROVE OpenerOf(q)'
      <3>1. /\ opener'[q] = opener[q] /\ job'[q] = job[q]
            /\ order'[<<q, "spot">>] = order[<<q, "spot">>]
            /\ order'[<<q, "perp">>] = order[<<q, "perp">>]
            /\ leg'[<<q, "spot">>] = leg[<<q, "spot">>]
        BY <2>1, <1>3, <1>5, <1>6, <1>7 DEF Actors
      <3>2. QED
        BY <3>1 DEF OpenerInv, OpenerOf
    <2>2. OpenerOf(r)'
      <3>1. CASE p = "spot"
        <4>1. opener'[r].step = "perp" /\ opener'[r].fill = job[r].filled /\ job'[r].step = "none"
          BY <3>1, <1>5, <1>6 DEF NoJob
        <4>2. order'[<<r, "perp">>].status = "none"
          BY <3>1, <1>2, <1>3
        <4>3. HedgeQty(0) = 0
          BY GridAssumption DEF HedgeQty
        <4>4. HedgeQty(job[r].filled) > 0 =>
                 order'[x].status = "success" /\ leg'[x].filled = job[r].filled
          BY <4>3, <1>4
        <4>5. QED
          BY <3>1, <1>2, <4>1, <4>2, <4>4 DEF OpenerOf
      <3>2. CASE p = "perp"
        BY <3>2, <1>5, <1>6 DEF OpenerOf, NoJob
      <3>3. QED
        BY <1>2, <3>1, <3>2
    <2>3. QED
      BY <2>1, <2>2 DEF OpenerInv
  <1>10. WorkerInv'
    <2>1. job'[Worker] = job[Worker]
      BY <1>6 DEF Actors
    <2>2. \A y \in Legs : order[y].status = "retrying" => order'[y] = order[y] /\ leg'[y] = leg[y]
      BY <1>2, <1>3
    <2>3. QED
      BY <1>1, <2>1, <2>2 DEF WorkerInv, Actors
  <1>11. HedgeInv'
    <2>1. ASSUME NEW q \in Requests, order'[<<q, "perp">>].status # "none"
          PROVE  /\ order'[<<q, "spot">>].status = "success"
                 /\ leg'[<<q, "perp">>].target = HedgeQty(leg'[<<q, "spot">>].filled)
                 /\ leg'[<<q, "perp">>].target > 0
      <3>1. CASE q # r
        <4>1. /\ order'[<<q, "spot">>] = order[<<q, "spot">>]
              /\ order'[<<q, "perp">>] = order[<<q, "perp">>]
              /\ leg'[<<q, "spot">>] = leg[<<q, "spot">>]
              /\ leg'[<<q, "perp">>] = leg[<<q, "perp">>]
          BY <3>1, <1>3, <1>7
        <4>2. QED
          BY <2>1, <4>1 DEF HedgeInv
      <3>2. CASE q = r
        <4>1. p = "perp" /\ x = <<r, "perp">>
          BY <2>1, <3>2, <1>2, <1>3
        <4>2. leg'[<<r, "spot">>] = leg[<<r, "spot">>] /\ order'[<<r, "spot">>] = order[<<r, "spot">>]
          BY <4>1, <1>3
        <4>3. /\ HedgeQty(opener[r].fill) > 0 /\ job[r].target = HedgeQty(opener[r].fill)
              /\ order[<<r, "spot">>].status = "success"
              /\ leg[<<r, "spot">>].filled = opener[r].fill
          BY <4>1, <1>1, <1>2 DEF OpenerOf, p
        <4>4. QED
          BY <3>2, <4>1, <4>2, <4>3, <1>4
      <3>3. QED
        BY <3>1, <3>2
    <2>2. QED
      BY <2>1 DEF HedgeInv
  <1>12. QED
    BY <1>8, <1>9, <1>10, <1>11 DEF Inner

\* The other steps of a task write no leg.
LEMMA VerdictStep ==
  ASSUME IInv, NEW r \in Requests, ReadVerdict(r) \/ WriteVerdict(r) \/ AbortOpen(r)
  PROVE  Inner'
  <1> USE LegsArePairs, WorkerAssumption DEF IInv, Shape, worker, book
  <1> DEFINE step == opener'[r].step
  <1>1. UNCHANGED <<leg, order, job, batch, staged>>
    BY DEF ReadVerdict, WriteVerdict, AbortOpen
  <1>2. /\ \A q \in Requests \ {r} : opener'[q] = opener[q] /\ arb'[q] = arb[q]
        /\ arb[r] # "none" => arb'[r] # "none"
        /\ job[r].step = "none"
    <2>1. CASE ReadVerdict(r) \/ WriteVerdict(r)
      BY <2>1 DEF ReadVerdict, WriteVerdict, OpenerInv, OpenerOf
    <2>2. CASE AbortOpen(r)
      BY <2>2 DEF AbortOpen, NoJob
    <2>3. QED
      BY <2>1, <2>2
  <1>3. /\ step \in {"none", "to_open", "to_error"}
        /\ step # "none" => arb[r] # "none"
        /\ step = "to_open" => /\ leg[<<r, "spot">>].status = "success"
                               /\ leg[<<r, "perp">>].status = "success"
    <2>1. CASE ReadVerdict(r)
      BY <2>1 DEF ReadVerdict, RowInv, OpenerType, Products
    <2>2. CASE WriteVerdict(r) \/ AbortOpen(r)
      BY <2>2 DEF WriteVerdict, AbortOpen, NoOpener
    <2>3. QED
      BY <2>1, <2>2
  <1> HIDE DEF step
  <1>4. RowInv'
    <2>1. ASSUME NEW q \in Requests, arb'[q] = "none"
          PROVE  opener'[q].step = "none" /\ order'[<<q, "spot">>].status = "none"
                 /\ order'[<<q, "perp">>].status = "none"
      <3>1. arb[q] = "none"
        BY <2>1, <1>2
      <3>2. CASE q = r
        BY <3>1, <3>2, <1>1, <1>3 DEF RowInv, step
      <3>3. CASE q # r
        BY <3>1, <3>3, <1>1, <1>2 DEF RowInv
      <3>4. QED
        BY <3>2, <3>3
    <2>2. QED
      BY <2>1, <1>1 DEF RowInv
  <1>5. OpenerInv'
    <2>1. ASSUME NEW q \in Requests PROVE OpenerOf(q)'
      <3>1. CASE q = r
        BY <3>1, <1>1, <1>2, <1>3 DEF OpenerOf, RowInv, step
      <3>2. CASE q # r
        <4>1. OpenerOf(q) /\ opener'[q] = opener[q]
          BY <3>2, <1>2 DEF OpenerInv
        <4>2. QED
          BY <4>1, <1>1 DEF OpenerOf
      <3>3. QED
        BY <3>1, <3>2
    <2>2. QED
      BY <2>1 DEF OpenerInv
  <1>6. WorkerInv' /\ HedgeInv'
    BY <1>1 DEF WorkerInv, HedgeInv
  <1>7. QED
    BY <1>4, <1>5, <1>6 DEF Inner

\* What the worker does before its pass ends writes no row.
LEMMA PassStep ==
  ASSUME IInv, ScanRetries \/ ReplayNext \/ StageLeg \/ AbortPass
  PROVE  Inner'
  <1> USE LegsArePairs, WorkerAssumption DEF IInv, Shape, worker, book
  <1>1. UNCHANGED <<arb, leg, order, opener>> /\ \A r \in Requests : job'[r] = job[r]
    BY DEF ScanRetries, ReplayNext, StageLeg, AbortPass, Actors
  <1>2. RowInv' /\ HedgeInv'
    BY <1>1 DEF RowInv, HedgeInv
  <1>3. OpenerInv'
    <2>1. ASSUME NEW r \in Requests PROVE OpenerOf(r)'
      <3>1. OpenerOf(r) /\ job'[r] = job[r]
        BY <1>1 DEF OpenerInv
      <3>2. QED
        BY <3>1, <1>1 DEF OpenerOf
    <2>2. QED
      BY <2>1 DEF OpenerInv
  <1>4. WorkerInv'
    <2>1. CASE ScanRetries
      BY <2>1 DEF ScanRetries, Due, WorkerInv
    <2>2. CASE ReplayNext
      <3>1. PICK x \in batch : /\ batch' = batch \ {x}
                               /\ job'[Worker].leg = x /\ job'[Worker].target = leg[x].target
        BY <2>2, ReplayJob DEF ReplayNext, Actors
      <3>2. QED
        BY <2>2, <3>1 DEF ReplayNext, WorkerInv
    <2>3. CASE StageLeg
      <3> DEFINE x == job[Worker].leg
      <3>1. /\ Worker \in Actors /\ job[Worker].step \in {"acked", "failed"}
            /\ job'[Worker] = NoJob /\ batch' = batch
            /\ staged'[x] = [leg |-> LegAfter(Worker), order |-> OrderAfter(Worker)]
            /\ \A y \in Legs \ {x} : staged'[y] = staged[y]
            /\ x \in Legs
        BY <2>3 DEF StageLeg, Actors
      <3>2. /\ order[x].status = "retrying" /\ staged'[x].leg.target = leg[x].target
            /\ staged'[x].leg.status = staged'[x].order.status
        BY <3>1, RowsAfter DEF WorkerInv
      <3> HIDE DEF x
      <3>3. QED
        BY <1>1, <3>1, <3>2 DEF WorkerInv, NoJob
    <2>4. CASE AbortPass
      BY <2>4 DEF AbortPass, WorkerInv, NothingStaged, NoOrder, NoJob, Actors
    <2>5. QED
      BY <2>1, <2>2, <2>3, <2>4
  <1>5. QED
    BY <1>2, <1>3, <1>4 DEF Inner

\* The venue answers.
LEMMA CallStep ==
  ASSUME IInv, NEW a \in Actors, Call(a)
  PROVE  Inner'
  <1> USE LegsArePairs, WorkerAssumption DEF worker, book
  <1>1. UNCHANGED <<arb, leg, order, opener, batch, staged>> /\ job[a].step = "calling"
    BY DEF Call
  <1>2. \A b \in Actors : /\ job'[b].step # "none" => job[b].step # "none"
                          /\ job'[b].leg = job[b].leg /\ job'[b].target = job[b].target
    <2>1. Shape
      BY DEF IInv
    <2>2. QED
      BY <2>1, <1>1, CallShape
  <1> USE DEF IInv, Shape
  <1>3. OpenerInv'
    <2>1. ASSUME NEW r \in Requests PROVE OpenerOf(r)'
      <3>1. /\ OpenerOf(r)
            /\ job'[r].step # "none" => job[r].step # "none"
            /\ job'[r].leg = job[r].leg /\ job'[r].target = job[r].target
        BY <1>2 DEF OpenerInv, Actors
      <3>2. QED
        BY <3>1, <1>1 DEF OpenerOf
    <2>2. QED
      BY <2>1 DEF OpenerInv
  <1>4. WorkerInv'
    <2>1. /\ job'[Worker].step # "none" => job[Worker].step # "none"
          /\ job'[Worker].leg = job[Worker].leg /\ job'[Worker].target = job[Worker].target
      BY <1>2 DEF Actors
    <2>2. QED
      BY <1>1, <2>1 DEF WorkerInv
  <1>5. QED
    BY <1>1, <1>3, <1>4 DEF RowInv, HedgeInv, Inner

\* The pass commits what it staged: orders that were retrying until now.
LEMMA EndPassStep ==
  ASSUME IInv, EndPass
  PROVE  Inner'
  <1> USE LegsArePairs, WorkerAssumption DEF IInv, Shape, worker
  <1>1. UNCHANGED <<arb, opener, job>> /\ batch = {} /\ batch' = {} /\ staged' = NothingStaged
        /\ job[Worker].step = "none"
    BY DEF EndPass, NoJob
  <1>2. ASSUME NEW x \in Legs
        PROVE  /\ order[x].status # "retrying" => order'[x] = order[x] /\ leg'[x] = leg[x]
               /\ order[x].status = "retrying" => order'[x].status # "none"
               /\ leg'[x].target = leg[x].target
               /\ leg'[x].status = "success" => order'[x].status = "success"
    <2>1. CASE IsStaged(x)
      <3>1. staged[x].order.status # "none"
        BY <2>1 DEF IsStaged, NothingStaged, NoOrder
      <3>2. order[x].status = "retrying" /\ staged[x].leg.target = leg[x].target
            /\ staged[x].leg.status = staged[x].order.status
        BY <3>1 DEF WorkerInv
      <3>3. order'[x] = staged[x].order /\ leg'[x] = staged[x].leg
        BY <2>1 DEF EndPass
      <3>4. QED
        BY <3>1, <3>2, <3>3
    <2>2. CASE ~IsStaged(x)
      <3>1. order'[x] = order[x] /\ leg'[x] = leg[x]
        BY <2>2 DEF EndPass
      <3>2. QED
        BY <3>1 DEF RowInv
    <2>3. QED
      BY <2>1, <2>2
  <1>3. RowInv'
    <2>1. ASSUME NEW r \in Requests, arb'[r] = "none"
          PROVE  opener'[r].step = "none" /\ order'[<<r, "spot">>].status = "none"
                 /\ order'[<<r, "perp">>].status = "none"
      <3>1. /\ opener[r].step = "none" /\ order[<<r, "spot">>].status = "none"
            /\ order[<<r, "perp">>].status = "none"
        BY <2>1, <1>1 DEF RowInv
      <3>2. QED
        BY <3>1, <1>1, <1>2
    <2>2. QED
      BY <2>1, <1>2 DEF RowInv
  <1>4. OpenerInv'
    <2>1. ASSUME NEW r \in Requests PROVE OpenerOf(r)'
      <3>1. OpenerOf(r) /\ opener'[r] = opener[r] /\ job'[r] = job[r]
        BY <1>1 DEF OpenerInv
      <3>2. /\ order[<<r, "spot">>].status # "retrying" =>
                   /\ order'[<<r, "spot">>] = order[<<r, "spot">>]
                   /\ leg'[<<r, "spot">>] = leg[<<r, "spot">>]
            /\ order[<<r, "perp">>].status # "retrying" =>
                   order'[<<r, "perp">>] = order[<<r, "perp">>]
        BY <1>2
      <3>3. QED
        BY <3>1, <3>2 DEF OpenerOf
    <2>2. QED
      BY <2>1 DEF OpenerInv
  <1>5. WorkerInv'
    BY <1>1 DEF WorkerInv, NothingStaged, NoOrder
  <1>6. HedgeInv'
    <2>1. ASSUME NEW r \in Requests, order'[<<r, "perp">>].status # "none"
          PROVE  /\ order'[<<r, "spot">>].status = "success"
                 /\ leg'[<<r, "perp">>].target = HedgeQty(leg'[<<r, "spot">>].filled)
                 /\ leg'[<<r, "perp">>].target > 0
      <3>1. order[<<r, "perp">>].status # "none"
        BY <2>1, <1>2
      <3>2. /\ order[<<r, "spot">>].status = "success"
            /\ leg[<<r, "perp">>].target = HedgeQty(leg[<<r, "spot">>].filled)
            /\ leg[<<r, "perp">>].target > 0
        BY <3>1 DEF HedgeInv
      <3>3. QED
        BY <3>2, <1>2
    <2>2. QED
      BY <2>1 DEF HedgeInv
  <1>7. QED
    BY <1>3, <1>4, <1>5, <1>6 DEF Inner

\* A restart keeps the tables and forgets tasks and sessions.
LEMMA CrashStep ==
  ASSUME IInv, Crash
  PROVE  Inner'
  <1> USE LegsArePairs, WorkerAssumption DEF IInv, Shape, book
  <1>1. /\ UNCHANGED <<arb, leg, order>> /\ batch' = {} /\ staged' = NothingStaged
        /\ \A r \in Requests : opener'[r].step = "none" /\ job'[r].step = "none"
        /\ job'[Worker].step = "none"
    BY DEF Crash, NoOpener, NoJob, Actors
  <1>2. QED
    BY <1>1 DEF Inner, RowInv, OpenerInv, OpenerOf, WorkerInv, HedgeInv, NothingStaged, NoOrder

\* Every step keeps the invariant.
LEMMA StepInv ==
  ASSUME IInv, [Next]_vars
  PROVE  IInv'
  <1>1. Shape' /\ CloserInv'
    BY ShapeStep, CloserStep DEF IInv
  <1>2. Inner'
    <2> USE DEF book, worker, closing, outside, venue, faults
    <2>1. ASSUME NEW r \in Requests, OpenCheck(r) PROVE Inner'
      BY <2>1, SameRows DEF OpenCheck
    <2>2. ASSUME NEW r \in Requests, RunOpen(r) \/ AbortOpen(r) PROVE Inner'
      BY <2>2, StartStep, SkipStep, CommitLegStep, VerdictStep DEF RunOpen
    <2>3. CASE ScanRetries \/ ReplayNext \/ StageLeg \/ AbortPass
      BY <2>3, PassStep
    <2>4. ASSUME NEW c \in Closers, CloseCheck(c) \/ CloseSpot(c) \/ ClosePerp(c) \/ AbortClose(c)
          PROVE  Inner'
      BY <2>4, SameRows DEF CloseCheck, CloseSpot, ClosePerp, AbortClose
    <2>5. ASSUME NEW c \in Closers, CloseAccept(c) \/ FinishClose(c) PROVE Inner'
      <3>1. closer[c].arb \in Requests /\ arb[closer[c].arb] # "none"
        BY <2>5 DEF IInv, CloserInv, CloseAccept, FinishClose
      <3>2. PICK v \in {"closing", "closed", "error"} : arb' = [arb EXCEPT ![closer[c].arb] = v]
        BY <2>5 DEF CloseAccept, FinishClose
      <3>3. UNCHANGED <<leg, order, opener, job, worker>>
        BY <2>5 DEF CloseAccept, FinishClose
      <3>4. QED
        BY <3>1, <3>2, <3>3, OtherStatus
    <2>6. ASSUME NEW c \in Closers, NEW p \in Products, SkipClosedLeg(c, p) \/ CommitClosedLeg(c, p)
          PROVE  Inner'
      <3>1. CASE UNCHANGED leg
        BY <2>6, <3>1, SameRows DEF SkipClosedLeg, CommitClosedLeg
      <3>2. CASE leg' # leg
        <4>1. /\ CommitClosedLeg(c, p) /\ closer[c].step # "none"
              /\ leg' = [leg EXCEPT ![<<closer[c].arb, p>>].status = closer[c].write]
              /\ closer[c].write # "keep"
          BY <2>6, <3>2 DEF SkipClosedLeg, CommitClosedLeg, CalledStep
        <4>2. <<closer[c].arb, p>> \in Legs /\ closer[c].write \in {"closed", "error"}
          BY <4>1 DEF IInv, CloserInv, Legs
        <4>3. UNCHANGED <<arb, order, opener, job, worker>>
          BY <4>1 DEF CommitClosedLeg
        <4>4. QED
          BY <4>1, <4>2, <4>3, LegStatus
      <3>3. QED
        BY <3>1, <3>2
    <2>7. CASE UNCHANGED vars
      BY <2>7, SameRows DEF vars
    <2>8. QED
      BY <2>1, <2>2, <2>3, <2>4, <2>5, <2>6, <2>7, OpenPersistStep, CallStep, EndPassStep, CrashStep
         DEF Next, RunClose
  <1>3. OneArbPerKey'
    <2>1. CASE \E r \in Requests : OpenPersist(r)
      BY <2>1, OpenPersistStep
    <2>2. CASE \A r \in Requests : ~OpenPersist(r)
      <3> USE DEF IInv, Shape, book
      <3>1. ASSUME NEW r \in Requests, arb[r] = "none" PROVE arb'[r] = "none"
        <4>1. CASE \E q \in Requests : RunOpen(q)
          <5>1. PICK q \in Requests : RunOpen(q)
            BY <4>1
          <5>2. CASE WriteVerdict(q)
            <6>1. q # r
              BY <3>1, <5>2 DEF WriteVerdict, RowInv
            <6>2. QED
              BY <3>1, <5>2, <6>1 DEF WriteVerdict
          <5>3. CASE ~WriteVerdict(q)
            BY <3>1, <5>1, <5>3 DEF RunOpen, StartSpot, StartHedge, SkipHedge, CommitLeg, ReadVerdict
          <5>4. QED
            BY <5>2, <5>3
        <4>2. CASE \E c \in Closers : RunClose(c)
          <5>1. PICK c \in Closers : RunClose(c)
            BY <4>2
          <5>2. CASE CloseAccept(c) \/ FinishClose(c)
            <6>1. arb[closer[c].arb] # "none"
              BY <5>2 DEF CloserInv, CloseAccept, FinishClose
            <6>2. QED
              BY <3>1, <5>2, <6>1 DEF CloseAccept, FinishClose
          <5>3. CASE ~(CloseAccept(c) \/ FinishClose(c))
            BY <3>1, <5>1, <5>3 DEF RunClose, CloseSpot, ClosePerp, SkipClosedLeg, CommitClosedLeg
          <5>4. QED
            BY <5>2, <5>3
        <4>3. CASE \/ \E q \in Requests : OpenCheck(q) \/ AbortOpen(q)
                   \/ \E a \in Actors : Call(a)
                   \/ ScanRetries \/ ReplayNext \/ StageLeg \/ EndPass \/ AbortPass
                   \/ \E c \in Closers : CloseCheck(c) \/ AbortClose(c)
                   \/ Crash \/ UNCHANGED vars
          BY <3>1, <4>3 DEF OpenCheck, AbortOpen, Call, ScanRetries, ReplayNext, StageLeg, EndPass,
                            AbortPass, CloseCheck, AbortClose, Crash, vars
        <4>4. QED
          BY <2>2, <4>1, <4>2, <4>3 DEF Next
      <3>2. QED
        BY <3>1 DEF IInv, OneArbPerKey
    <2>3. QED
      BY <2>1, <2>2
  <1>4. QED
    BY <1>1, <1>2, <1>3 DEF IInv, Inner
----------------------------------------------------------------------------
(* The theorems. *)

\* The strengthened invariant holds in every reachable state: what a task, a session of the
\* worker or a close has read is still what the rows say.
THEOREM Invariant == Spec => []IInv
  BY InitInv, StepInv, PTL DEF Spec

\* A repeated open never makes a second pair, however its request races the first.
THEOREM OnePairPerKey == Spec => []OneArbPerKey
  BY Invariant, PTL DEF IInv

\* The hedge is ordered only once leg 1's fill is committed, and within half a step of it,
\* whatever sessions, replays, closes and restarts come between.
THEOREM HedgeIsDerived == Spec => []HedgeFollowsFill
  <1>1. IInv => HedgeFollowsFill
    <2> SUFFICES ASSUME IInv, NEW r \in Requests, order[<<r, "perp">>] # NoOrder
                 PROVE  LET gap == leg[<<r, "perp">>].target - leg[<<r, "spot">>].filled IN
                        /\ order[<<r, "spot">>].status = "success"
                        /\ leg[<<r, "perp">>].target > 0
                        /\ 2 * gap \in -PerpStep..PerpStep
      BY DEF HedgeFollowsFill
    <2>1. order[<<r, "perp">>].status # "none" /\ leg[<<r, "spot">>].filled \in Int
      BY LegsArePairs DEF IInv, Shape, RowType
    <2>2. QED
      BY <2>1, HedgeQtyNear DEF IInv, HedgeInv
  <1>2. QED
    BY Invariant, <1>1, PTL

Success == {x \in Legs : order[x].status = "success"}

\* Orders that become a success: their arb exists, and the hedge comes after its leg.
LEMMA FillsOnPairs ==
  ASSUME IInv, UNCHANGED arb,
         \A x \in Legs : order[x].status = "success" => order'[x] = order[x],
         \A r \in Requests : order'[<<r, "perp">>].status = "success" =>
                              order[<<r, "spot">>].status = "success",
         \A x \in Legs : order'[x].status = "success" => arb[x[1]] # "none"
  PROVE  [Pairs!Next]_(Pairs!pairVars)
  <1> DEFINE S == Success' \ Success
  <1>1. Success' = Success \cup S
    BY DEF Success
  <1>2. S \in SUBSET Pairs!Legs
    BY DEF Success, Pairs!Legs, Legs, Products
  <1>3. ASSUME NEW x \in S
        PROVE  Pairs!Exists(x[1]) /\ (x[2] = "perp" => <<x[1], "spot">> \in Success)
    <2>1. x \in Legs /\ order'[x].status = "success" /\ x[1] \in Requests
      BY LegsArePairs DEF Success
    <2>2. x[2] = "perp" => x = <<x[1], "perp">>
      BY <2>1, LegsArePairs
    <2>3. QED
      BY <2>1, <2>2, LegsArePairs DEF Success, Pairs!Exists
  <1>4. S \cap Success = {}
    OBVIOUS
  <1> HIDE DEF S
  <1>5. CASE S = {}
    BY <1>1, <1>5 DEF Pairs!pairVars, Success
  <1>6. CASE S # {}
    <2>1. PICK T \in SUBSET Pairs!Legs : T = S
      BY <1>2
    <2>2. Pairs!Fill(T)
      BY <1>1, <1>3, <1>4, <1>6, <2>1 DEF Pairs!Fill, Success
    <2>3. QED
      BY <2>2 DEF Pairs!Next
  <1>7. QED
    BY <1>5, <1>6

\* A new status of an arb that exists.
LEMMA StatusOnPairs ==
  ASSUME NEW r \in Requests, arb[r] # "none", UNCHANGED order,
         NEW v \in {"open", "error", "closing", "closed"}, arb' = [arb EXCEPT ![r] = v],
         v = "open" => /\ order[<<r, "spot">>].status = "success"
                       /\ order[<<r, "perp">>].status = "success"
  PROVE  Pairs!Next
  <1>1. Pairs!Set(r, v)
    BY DEF Pairs!Set, Pairs!Exists
  <1>2. CASE v = "open"
    <2>1. Pairs!Filled(r)
      BY <1>2, LegsArePairs DEF Pairs!Filled
    <2>2. QED
      BY <1>1, <1>2, <2>1 DEF Pairs!Next
  <1>3. CASE v # "open"
    BY <1>1, <1>3 DEF Pairs!Next
  <1>4. QED
    BY <1>2, <1>3

\* Every step is one of PairBook or a stutter.
LEMMA StepOnPairs ==
  ASSUME IInv, [Next]_vars
  PROVE  [Pairs!Next]_(Pairs!pairVars)
  <1> USE DEF book
  <1>1. CASE UNCHANGED <<arb, order>>
    BY <1>1 DEF Pairs!pairVars
  <1>2. ASSUME NEW r \in Requests, OpenPersist(r) PROVE [Pairs!Next]_(Pairs!pairVars)
    <2>1. UNCHANGED order
      BY <1>2 DEF OpenPersist
    <2>2. CASE Repeats(r) = {} /\ arb' = [arb EXCEPT ![r] = "opening"]
      <3>1. Pairs!Open(r)
        BY <2>1, <2>2 DEF Pairs!Open, Pairs!Exists, Repeats
      <3>2. QED
        BY <3>1 DEF Pairs!Next
    <2>3. QED
      BY <1>1, <1>2, <2>1, <2>2 DEF OpenPersist
  <1>3. ASSUME NEW r \in Requests, CommitLeg(r) PROVE [Pairs!Next]_(Pairs!pairVars)
    <2> USE LegsArePairs
    <2> DEFINE x == job[r].leg
    <2>1. /\ arb' = arb /\ r \in Actors /\ job[r].step # "none"
          /\ order' = [order EXCEPT ![x] = OrderAfter(r)]
      BY <1>3 DEF CommitLeg, Actors
    <2>2. /\ OpenerOf(r) /\ x \in Legs /\ x \in {<<r, "spot">>, <<r, "perp">>}
          /\ order[x].status = "none" /\ arb[r] # "none"
      BY <2>1 DEF IInv, Shape, RowInv, OpenerInv, OpenerOf
    <2>3. x = <<r, "perp">> => order[<<r, "spot">>].status = "success"
      BY <2>1, <2>2 DEF OpenerOf
    <2>4. \A y \in Legs \ {x} : order'[y] = order[y]
      BY <2>1
    <2> HIDE DEF x
    <2>5. \A y \in Legs : order[y].status = "success" => order'[y] = order[y]
      BY <2>2, <2>4
    <2>6. ASSUME NEW q \in Requests, order'[<<q, "perp">>].status = "success"
          PROVE  order[<<q, "spot">>].status = "success"
      <3>1. CASE <<q, "perp">> = x
        BY <2>2, <2>3, <3>1
      <3>2. CASE <<q, "perp">> # x
        BY <2>4, <2>6, <3>2 DEF IInv, HedgeInv
      <3>3. QED
        BY <3>1, <3>2
    <2>7. ASSUME NEW y \in Legs, order'[y].status = "success" PROVE arb[y[1]] # "none"
      <3>1. CASE y = x
        BY <2>2, <3>1
      <3>2. CASE y # x
        <4>1. order[y].status # "none" /\ y[1] \in Requests
          BY <2>4, <2>7, <3>2
        <4>2. y = <<y[1], "spot">> \/ y = <<y[1], "perp">>
          OBVIOUS
        <4>3. QED
          BY <4>1, <4>2 DEF IInv, RowInv
      <3>3. QED
        BY <3>1, <3>2
    <2>8. QED
      BY <2>1, <2>5, <2>6, <2>7, FillsOnPairs
  <1>4. CASE EndPass
    <2> USE LegsArePairs
    <2>1. ASSUME NEW x \in Legs
          PROVE  /\ order[x].status # "retrying" => order'[x] = order[x]
                 /\ order[x].status = "none" => order'[x].status = "none"
      <3>1. CASE IsStaged(x)
        <4>1. order[x].status = "retrying"
          BY <3>1 DEF IInv, Shape, WorkerInv, IsStaged, NothingStaged, NoOrder
        <4>2. QED
          BY <4>1
      <3>2. CASE ~IsStaged(x)
        BY <1>4, <3>2 DEF EndPass
      <3>3. QED
        BY <3>1, <3>2
    <2>2. \A x \in Legs : order[x].status = "success" => order'[x] = order[x]
      BY <2>1
    <2>3. ASSUME NEW r \in Requests, order'[<<r, "perp">>].status = "success"
          PROVE  order[<<r, "spot">>].status = "success"
      BY <2>1, <2>3 DEF IInv, HedgeInv
    <2>4. ASSUME NEW x \in Legs, order'[x].status = "success" PROVE arb[x[1]] # "none"
      <3>1. order[x].status # "none"
        BY <2>1, <2>4
      <3>2. QED
        BY <3>1 DEF IInv, RowInv
    <2>5. arb' = arb
      BY <1>4 DEF EndPass
    <2>6. QED
      BY <2>2, <2>3, <2>4, <2>5, FillsOnPairs
  <1>5. ASSUME NEW r \in Requests, WriteVerdict(r) PROVE [Pairs!Next]_(Pairs!pairVars)
    <2> DEFINE v == IF opener[r].step = "to_open" THEN "open" ELSE "error"
    <2>1. /\ v \in {"open", "error", "closing", "closed"} /\ arb' = [arb EXCEPT ![r] = v]
          /\ UNCHANGED order /\ arb[r] # "none"
          /\ v = "open" => opener[r].step = "to_open"
      BY <1>5 DEF WriteVerdict, IInv, RowInv
    <2>2. v = "open" => /\ order[<<r, "spot">>].status = "success"
                        /\ order[<<r, "perp">>].status = "success"
      BY <2>1 DEF IInv, OpenerInv, OpenerOf
    <2> HIDE DEF v
    <2>3. QED
      BY <2>1, <2>2, StatusOnPairs
  <1>6. ASSUME NEW c \in Closers, CloseAccept(c) \/ FinishClose(c)
        PROVE  [Pairs!Next]_(Pairs!pairVars)
    <2>1. closer[c].arb \in Requests /\ arb[closer[c].arb] # "none"
      BY <1>6 DEF IInv, CloserInv, CloseAccept, FinishClose
    <2>2. PICK v \in {"closing", "closed", "error"} : arb' = [arb EXCEPT ![closer[c].arb] = v]
      BY <1>6 DEF CloseAccept, FinishClose
    <2>3. UNCHANGED order
      BY <1>6 DEF CloseAccept, FinishClose
    <2>4. QED
      BY <2>1, <2>2, <2>3, StatusOnPairs
  <1>7. CASE \/ \E r \in Requests : OpenCheck(r) \/ AbortOpen(r)
             \/ \E a \in Actors : Call(a)
             \/ ScanRetries \/ ReplayNext \/ StageLeg \/ AbortPass
             \/ \E c \in Closers : CloseCheck(c) \/ AbortClose(c)
             \/ Crash \/ UNCHANGED vars
    BY <1>1, <1>7 DEF OpenCheck, AbortOpen, Call, ScanRetries, ReplayNext, StageLeg, AbortPass,
                      CloseCheck, AbortClose, Crash, vars
  <1>8. ASSUME NEW r \in Requests, RunOpen(r) PROVE [Pairs!Next]_(Pairs!pairVars)
    BY <1>1, <1>3, <1>5, <1>8 DEF RunOpen, StartSpot, StartHedge, SkipHedge, ReadVerdict
  <1>9. ASSUME NEW c \in Closers, RunClose(c) PROVE [Pairs!Next]_(Pairs!pairVars)
    BY <1>1, <1>6, <1>9 DEF RunClose, CloseSpot, ClosePerp, SkipClosedLeg, CommitClosedLeg
  <1>10. QED
    BY <1>2, <1>4, <1>7, <1>8, <1>9 DEF Next

\* Tasks, sessions, replays, closes and restarts implement the pairs of PairBook.
THEOREM RefinesPairs == Spec => ImplementsPairs
  <1>1. Init => Pairs!Init
    BY DEF Init, Pairs!Init, NoOrder
  <1>2. QED
    BY <1>1, StepOnPairs, Invariant, PTL DEF Spec, ImplementsPairs, Pairs!Spec
----------------------------------------------------------------------------
(***************************************************************************)
(* The book and the venue.  Everything is said of one leg at a time: of an *)
(* asset nothing disturbed at most one arb is not closed, so the sums of   *)
(* BookMatchesVenue have one summand each.                                 *)
(***************************************************************************)

\* What the numbers are: quantities, and attempts that stop at the last one.
CountInv ==
    /\ \A x \in Legs :
          /\ leg[x].target \in Nat /\ leg[x].filled \in Nat
          /\ staged[x].leg.target \in Nat /\ staged[x].leg.filled \in Nat
          /\ order[x].attempts \in 0..MaxAttempts /\ staged[x].order.attempts \in 0..MaxAttempts
          /\ order[x].status = "retrying" => order[x].attempts < MaxAttempts
          /\ staged[x].order.status = "retrying" => staged[x].order.attempts < MaxAttempts
    /\ \A a \in Actors : job[a].target \in Nat /\ job[a].filled \in Nat
    /\ spot \in [Assets -> Nat] /\ short \in [Assets -> Nat]

\* The sets, and the pass: one that is over left nothing behind, one that runs takes every order
\* once.
PassInv ==
    /\ checked \subseteq Requests /\ disturbed \subseteq Assets
    /\ writer \in Actors \cup {Nobody} /\ inPass \in BOOLEAN
    /\ ~inPass => /\ batch = {} /\ job[Worker].step = "none"
                  /\ \A x \in Legs : staged[x].order.status = "none"
    /\ \A x \in batch : staged[x].order.status = "none"
    /\ job[Worker].step # "none" => /\ job[Worker].leg \notin batch
                                    /\ staged[job[Worker].leg].order.status = "none"

\* An order that did not succeed filled nothing; an arb that does not exist has no legs; a spot
\* leg is sized once and for all.
FillInv ==
    /\ \A x \in Legs : /\ order[x].status # "success" => leg[x].filled = 0
                       /\ staged[x].order.status # "success" => staged[x].leg.filled = 0
    /\ \A r \in Requests : /\ arb[r] = "none" => leg[<<r, "spot">>] = NoLeg /\ leg[<<r, "perp">>] = NoLeg
                           /\ arb[r] # "none" => leg[<<r, "spot">>].target = Qty
                           /\ job[r].step # "none" /\ opener[r].step = "spot" => job[r].target = Qty

Facts == IInv /\ CountInv /\ PassInv /\ FillInv

Clean(s) == s \notin disturbed
Running(c, r) == closer[c].arb = r /\ closer[c].step \notin {"none", "checked"}

\* The arb of an asset nothing disturbed: while its task runs it is opening; while its close runs
\* it is closing, and no order of it waits; what is closed stays so; it is alone.
TaskOf(r) ==
    /\ opener[r].step # "none" => arb[r] = "opening"
    /\ \A c \in Closers : Running(c, r) =>
          /\ arb[r] = "closing"
          /\ order[<<r, "spot">>].status # "retrying" /\ order[<<r, "perp">>].status # "retrying"
          /\ \A d \in Closers : Running(d, r) => d = c
    /\ \A p \in Products : leg[<<r, p>>].status = "closed" =>
          arb[r] \in {"closing", "error", "closed"} /\ order[<<r, p>>].status # "retrying"
    /\ arb[r] = "closed" => leg[<<r, "spot">>].status = "closed" /\ leg[<<r, "perp">>].status = "closed"
    /\ \A q \in Requests : AssetOf[q] = AssetOf[r] /\ arb[q] \in NonClosed /\ arb[r] \in NonClosed => q = r
TaskInv == \A r \in Requests : Clean(AssetOf[r]) => TaskOf(r)

\* How far a close has come with the legs, and what its next commit will write.
ProgressOf(c, r) ==
    /\ closer[c].step \in {"perp", "perp_called", "finish"} /\ ~closer[c].errors =>
          leg[<<r, "spot">>].status = "closed"
    /\ closer[c].step = "finish" /\ ~closer[c].errors => leg[<<r, "perp">>].status = "closed"
    /\ \A p \in Products : closer[c].step = CalledStep(p) =>
          /\ leg[<<r, p>>].status # "closed"
          /\ closer[c].write # "closed" => closer[c].errors
          /\ closer[c].write = "keep" => leg[<<r, p>>].status = "error"
ProgressInv ==
    \A c \in Closers, r \in Requests : Clean(AssetOf[r]) /\ Running(c, r) => ProgressOf(c, r)

CalledOn(c, x) == closer[c].arb = x[1] /\ closer[c].step = CalledStep(x[2])
AckedOn(a, x) == job[a].step = "acked" /\ job[a].leg = x
StagedFill(x) == staged[x].order.status = "success"
Carried(x) == IF leg[x].status = "closed" THEN 0 ELSE leg[x].filled

\* What the venue holds in the place of a leg, the fee that may be missing from it, the dust older
\* legs left there, and the dust this one may leave.
Held(x) == IF x[2] = "spot" THEN spot[AssetOf[x[1]]] ELSE short[AssetOf[x[1]]]
FeeOf(x) == IF x[2] = "spot" THEN Fee ELSE 0
DustOf(x) == IF x[2] = "spot" THEN Dust(AssetOf[x[1]]) ELSE 0
Grain(x) == IF x[2] = "spot" THEN SpotStep - 1 ELSE 0

\* The venue holds what the order of a leg filled, or its close left, whether the row says so
\* already, an acknowledged call or a staged row; less a fee at most, and more by dust.
Holds(x) ==
    /\ (\A a \in Actors : ~AckedOn(a, x)) /\ ~StagedFill(x) => Held(x) <= Carried(x) + DustOf(x)
    /\ \A a \in Actors : AckedOn(a, x) =>
          job[a].filled - FeeOf(x) <= Held(x) /\ Held(x) <= job[a].filled + DustOf(x)
    /\ StagedFill(x) => /\ staged[x].leg.filled - FeeOf(x) <= Held(x)
                        /\ Held(x) <= staged[x].leg.filled + DustOf(x)
    /\ leg[x].status = "success" /\ (\A c \in Closers : ~CalledOn(c, x)) =>
          leg[x].filled - FeeOf(x) <= Held(x)
    /\ \A c \in Closers : CalledOn(c, x) /\ closer[c].write = "closed" =>
          Held(x) <= DustOf(x) + Grain(x)

\* The venue holds what the book of the one arb of an asset says, and dust when there is none.
BookAt(s) ==
    /\ AllClosed(s) => Flat(s)
    /\ \A x \in Legs : AssetOf[x[1]] = s /\ arb[x[1]] \in NonClosed => Holds(x)
BookInv == \A s \in Assets : Clean(s) => BookAt(s)

Book == TaskInv /\ ProgressInv /\ BookInv
----------------------------------------------------------------------------
(* What holds of every asset, disturbed or not. *)

\* The order an actor is handling has not succeeded, and has an attempt left.
LEMMA JobOrder ==
  ASSUME Facts, NEW a \in Actors, job[a].step # "none"
  PROVE  /\ job[a].leg \in Legs
         /\ order[job[a].leg].status = IF a = Worker THEN "retrying" ELSE "none"
         /\ order[job[a].leg].attempts \in 0..(MaxAttempts - 1)
         /\ leg[job[a].leg].filled = 0
         /\ staged[job[a].leg].order.status = "none"
         /\ a # Worker => a \in Requests /\ job[a].leg = <<a, opener[a].step>>
                          /\ opener[a].step \in {"spot", "perp"}
  <1> DEFINE x == job[a].leg
  <1>1. x \in Legs
    BY DEF Facts, IInv, Shape
  <1>2. CASE a = Worker
    <2>1. order[x].status = "retrying" /\ staged[x].order.status = "none"
      BY <1>2 DEF Facts, IInv, WorkerInv, PassInv
    <2> HIDE DEF x
    <2>2. leg[x].filled = 0 /\ order[x].attempts \in 0..(MaxAttempts - 1)
      BY <1>1, <2>1, AttemptAssumption DEF Facts, FillInv, CountInv
    <2>3. QED
      BY <1>1, <1>2, <2>1, <2>2 DEF x
  <1>3. CASE a # Worker
    <2>1. a \in Requests /\ x = <<a, opener[a].step>> /\ opener[a].step \in {"spot", "perp"}
      BY <1>3 DEF Actors, Facts, IInv, OpenerInv, OpenerOf
    <2>2. order[x].status = "none"
      BY <1>3, <2>1 DEF Facts, IInv, OpenerInv, OpenerOf
    <2>3. order[x].attempts = 0 /\ leg[x].filled = 0
      BY <1>1, <2>2 DEF Facts, IInv, Shape, FillInv, NoOrder
    <2>4. staged[x].order.status = "none"
      BY <1>1, <2>2 DEF Facts, IInv, WorkerInv
    <2>5. QED
      BY <1>1, <1>3, <2>1, <2>2, <2>3, <2>4, AttemptAssumption
  <1>4. QED
    BY <1>2, <1>3

\* What an answer makes of its rows.
LEMMA AfterCount ==
  ASSUME Facts, NEW a \in Actors, job[a].step \in {"acked", "failed"}
  PROVE  /\ LegAfter(a).target \in Nat /\ LegAfter(a).filled \in Nat
         /\ LegAfter(a).target = job[a].target
         /\ OrderAfter(a).attempts \in 0..MaxAttempts
         /\ OrderAfter(a).status = "retrying" => OrderAfter(a).attempts < MaxAttempts
         /\ OrderAfter(a).status \in {"success", "retrying", "dead"}
         /\ LegAfter(a).status = OrderAfter(a).status
         /\ job[a].step = "acked" => OrderAfter(a).status = "success"
                                     /\ LegAfter(a).filled = job[a].filled
         /\ job[a].step = "failed" => OrderAfter(a).status # "success" /\ LegAfter(a).filled = 0
  <1>1. /\ order[job[a].leg].attempts \in 0..(MaxAttempts - 1) /\ leg[job[a].leg].filled = 0
        /\ job[a].target \in Nat /\ job[a].filled \in Nat
    BY JobOrder DEF Facts, CountInv
  <1>2. QED
    BY <1>1, AttemptAssumption DEF LegAfter, OrderAfter

\* The order of a spot leg is for what the pair was sized to, so a fee is a part of it.
LEMMA SpotTarget ==
  ASSUME Facts, NEW a \in Actors, job[a].step # "none", job[a].leg[2] = "spot"
  PROVE  job[a].target = Qty
  <1> DEFINE x == job[a].leg
  <1>1. x \in Legs /\ x = <<x[1], "spot">> /\ x[1] \in Requests
    BY JobOrder, LegsArePairs
  <1>2. CASE a = Worker
    <2>1. job[a].target = leg[x].target /\ order[x].status = "retrying"
      BY <1>2 DEF Facts, IInv, WorkerInv
    <2>2. arb[x[1]] # "none"
      BY <1>1, <2>1 DEF Facts, IInv, RowInv
    <2> HIDE DEF x
    <2>3. QED
      BY <1>1, <2>1, <2>2 DEF Facts, FillInv
  <1>3. CASE a # Worker
    <2>1. a \in Requests /\ x = <<a, opener[a].step>>
      BY <1>3, JobOrder
    <2>2. opener[a].step = "spot"
      BY <2>1
    <2>3. QED
      BY <2>1, <2>2 DEF Facts, FillInv
  <1>4. QED
    BY <1>2, <1>3

\* Updating the status of a row keeps what it counts.
LEMMA StatusRow ==
  ASSUME leg \in [Legs -> RowType], NEW x \in Legs, NEW v, leg' = [leg EXCEPT ![x].status = v]
  PROVE  /\ \A y \in Legs : leg'[y].target = leg[y].target /\ leg'[y].filled = leg[y].filled
         /\ \A y \in Legs \ {x} : leg'[y] = leg[y]
         /\ leg'[x].status = v
  BY DEF RowType

\* A call of the worker, or of the task of an open, in its new state.
LEMMA JobSet ==
  ASSUME job \in [Actors -> JobType], NEW a \in Actors, NEW j, job' = [job EXCEPT ![a] = j]
  PROVE  job'[a] = j /\ \A b \in Actors \ {a} : job'[b] = job[b]
  OBVIOUS

\* The quantities of jobs.
LEMMA JobCountStep ==
  ASSUME Facts, [Next]_vars, IInv'
  PROVE  \A a \in Actors : job'[a].target \in Nat /\ job'[a].filled \in Nat
  <1> DEFINE Goal == \A a \in Actors : job'[a].target \in Nat /\ job'[a].filled \in Nat
  <1> USE DEF book, worker, closing, outside, venue, faults
  <1>0. /\ job \in [Actors -> JobType] /\ \A a \in Actors : job[a].target \in Nat /\ job[a].filled \in Nat
        /\ \A x \in Legs : leg[x].target \in Nat
        /\ \A a \in Actors : job[a].step # "acked" => job[a].filled = 0
        /\ opener \in [Requests -> OpenerType]
        /\ batch \subseteq Legs
    BY DEF Facts, IInv, Shape, CountInv
  <1>1. ASSUME NEW r \in Requests, StartSpot(r) PROVE Goal
    <2>1. <<r, "spot">> \in Legs /\ r \in Actors
      BY LegsArePairs DEF Actors
    <2>2. job' = [job EXCEPT ![r] = [step |-> "calling", leg |-> <<r, "spot">>,
                                     target |-> leg[<<r, "spot">>].target, filled |-> 0]]
      BY <1>1, ReplayJob DEF StartSpot
    <2>3. QED
      BY <1>0, <2>1, <2>2, JobSet
  <1>2. ASSUME NEW r \in Requests, StartHedge(r) PROVE Goal
    <2>1. r \in Actors /\ HedgeQty(opener[r].fill) \in Nat
      BY <1>0, <1>2, HedgeQtyInt DEF Actors, StartHedge, OpenerType
    <2>2. job' = [job EXCEPT ![r] = [step |-> "calling", leg |-> <<r, "perp">>,
                                     target |-> HedgeQty(opener[r].fill), filled |-> 0]]
      BY <1>2, ReplayJob DEF StartHedge
    <2>3. QED
      BY <1>0, <2>1, <2>2, JobSet
  <1>3. ASSUME NEW a \in Actors, Call(a) PROVE Goal
    <2>1. /\ \A b \in Actors \ {a} : job'[b] = job[b]
          /\ job'[a].target = job[a].target
      BY <1>3, CallShape DEF Facts, IInv
    <2>2. job'[a].filled \in Nat
      <3>1. \A x \in Legs, q \in Fills : Recorded(x, q) \subseteq Nat
        BY QtyAssumption, GridAssumption, FeeAssumption DEF Recorded
      <3>2. job[a].leg \in Legs /\ job[a].step = "calling"
        BY <1>3, JobOrder DEF Call
      <3>3. CASE job' = [job EXCEPT ![a].step = "failed"]
        BY <1>0, <3>2, <3>3 DEF JobType
      <3>4. CASE \E n \in Nat : job' = [job EXCEPT ![a].step = "acked", ![a].filled = n]
        BY <1>0, <3>4 DEF JobType
      <3>5. QED
        BY <1>0, <1>3, <3>1, <3>2, <3>3, <3>4 DEF Call
    <2>3. QED
      BY <1>0, <2>1, <2>2
  <1>4. ASSUME NEW r \in Requests, CommitLeg(r) PROVE Goal
    BY <1>0, <1>4 DEF CommitLeg, NoJob
  <1>5. CASE ReplayNext
    <2>1. \A x \in batch : [NoJob EXCEPT !.step = "calling", !.leg = x, !.target = leg[x].target]
                           = [step |-> "calling", leg |-> x, target |-> leg[x].target,
                              filled |-> 0]
      BY ReplayJob
    <2>2. PICK x \in batch : job' = [job EXCEPT ![Worker] = [step |-> "calling", leg |-> x,
                                                 target |-> leg[x].target, filled |-> 0]]
      BY <1>5, <2>1 DEF ReplayNext
    <2>3. QED
      BY <1>0, <2>2
  <1>6. CASE StageLeg \/ AbortPass \/ Crash
    BY <1>0, <1>6 DEF StageLeg, AbortPass, Crash, NoJob
  <1>7. CASE UNCHANGED job
    BY <1>0, <1>7
  <1>8. QED
    BY <1>1, <1>2, <1>3, <1>4, <1>5, <1>6, <1>7
       DEF Next, RunOpen, RunClose, OpenCheck, OpenPersist, SkipHedge, ReadVerdict, WriteVerdict,
           AbortOpen, ScanRetries, EndPass, CloseCheck, CloseAccept, CloseSpot, ClosePerp,
           FinishClose, SkipClosedLeg, CommitClosedLeg, AbortClose, vars

\* The quantities of the committed rows.
LEMMA RowCountStep ==
  ASSUME Facts, [Next]_vars, IInv'
  PROVE  \A x \in Legs : /\ leg'[x].target \in Nat /\ leg'[x].filled \in Nat
                         /\ order'[x].attempts \in 0..MaxAttempts
                         /\ order'[x].status = "retrying" => order'[x].attempts < MaxAttempts
                         /\ order'[x].status # "success" => leg'[x].filled = 0
  <1> DEFINE GoodRow(l, o) == /\ l.target \in Nat /\ l.filled \in Nat
                              /\ o.attempts \in 0..MaxAttempts
                              /\ o.status = "retrying" => o.attempts < MaxAttempts
                              /\ o.status # "success" => l.filled = 0
             Goal == \A x \in Legs : GoodRow(leg'[x], order'[x])
  <1> USE DEF book, worker, closing, outside, venue, faults
  <1>0. /\ leg \in [Legs -> RowType] /\ order \in [Legs -> OrderType]
        /\ \A x \in Legs : GoodRow(leg[x], order[x]) /\ GoodRow(staged[x].leg, staged[x].order)
    BY DEF Facts, IInv, Shape, CountInv, FillInv
  <1>1. ASSUME NEW r \in Requests, OpenPersist(r) PROVE Goal
    <2>1. CASE UNCHANGED leg
      BY <1>0, <1>1, <2>1 DEF OpenPersist
    <2>2. CASE arb[r] = "none" /\ leg' = NewLegs(r)
      <3>1. \A x \in Legs : x[1] = r => order[x].status = "none"
        <4>1. order[<<r, "spot">>].status = "none" /\ order[<<r, "perp">>].status = "none"
          BY <2>2 DEF Facts, IInv, RowInv
        <4>2. \A x \in Legs : x[1] = r => x = <<r, "spot">> \/ x = <<r, "perp">>
          BY LegsArePairs
        <4>3. QED
          BY <4>1, <4>2
      <3>2. \A x \in Legs : /\ x[1] = r => leg'[x].target = Qty /\ leg'[x].filled = 0
                            /\ x[1] # r => leg'[x] = leg[x]
        BY <2>2 DEF NewLegs
      <3>3. order' = order
        BY <1>1 DEF OpenPersist
      <3>4. QED
        BY <1>0, <3>1, <3>2, <3>3, QtyAssumption
    <2>3. QED
      BY <1>1, <2>1, <2>2 DEF OpenPersist, Repeats
  <1>2. ASSUME NEW r \in Requests, SkipHedge(r) PROVE Goal
    <2>1. order' = order
      BY <1>2 DEF SkipHedge
    <2>2. \A y \in Legs : leg'[y].target = leg[y].target /\ leg'[y].filled = leg[y].filled
      BY <1>0, <1>2, StatusRow, LegsArePairs DEF SkipHedge
    <2>3. QED
      BY <1>0, <2>1, <2>2
  <1>3. ASSUME NEW r \in Requests, CommitLeg(r) PROVE Goal
    <2> DEFINE x == job[r].leg
    <2>1. r \in Actors /\ job[r].step \in {"acked", "failed"} /\ x \in Legs
      BY <1>3, JobOrder DEF CommitLeg, Actors
    <2>2. GoodRow(LegAfter(r), OrderAfter(r))
      BY <2>1, AfterCount
    <2>3. /\ leg' = [leg EXCEPT ![x] = LegAfter(r)] /\ order' = [order EXCEPT ![x] = OrderAfter(r)]
      BY <1>3 DEF CommitLeg
    <2> HIDE DEF x, GoodRow
    <2>4. QED
      BY <1>0, <2>1, <2>2, <2>3
  <1>4. CASE EndPass
    <2>1. \A x \in Legs : /\ leg'[x] = IF IsStaged(x) THEN staged[x].leg ELSE leg[x]
                          /\ order'[x] = IF IsStaged(x) THEN staged[x].order ELSE order[x]
      BY <1>4 DEF EndPass
    <2>2. ASSUME NEW x \in Legs PROVE GoodRow(leg'[x], order'[x])
      <3>1. CASE IsStaged(x)
        <4>1. leg'[x] = staged[x].leg /\ order'[x] = staged[x].order
          BY <2>1, <3>1
        <4> HIDE DEF GoodRow
        <4>2. QED
          BY <1>0, <4>1
      <3>2. CASE ~IsStaged(x)
        <4>1. leg'[x] = leg[x] /\ order'[x] = order[x]
          BY <2>1, <3>2
        <4> HIDE DEF GoodRow
        <4>2. QED
          BY <1>0, <4>1
      <3>3. QED
        BY <3>1, <3>2
    <2>3. QED
      BY <2>2
  <1>5. ASSUME NEW c \in Closers, NEW p \in Products, CommitClosedLeg(c, p) PROVE Goal
    <2>1. order' = order /\ <<closer[c].arb, p>> \in Legs
      BY <1>5 DEF CommitClosedLeg, CalledStep, Facts, IInv, CloserInv, Legs
    <2>2. \A y \in Legs : leg'[y].target = leg[y].target /\ leg'[y].filled = leg[y].filled
      BY <1>0, <1>5, <2>1, StatusRow DEF CommitClosedLeg
    <2>3. QED
      BY <1>0, <2>1, <2>2
  <1>6. CASE UNCHANGED <<leg, order>>
    BY <1>0, <1>6
  <1>7. QED
    <2>1. Goal
      BY <1>1, <1>2, <1>3, <1>4, <1>5, <1>6
         DEF Next, RunOpen, RunClose, OpenCheck, StartSpot, StartHedge, ReadVerdict, WriteVerdict,
             AbortOpen, Call, ScanRetries, ReplayNext, StageLeg, AbortPass, CloseCheck,
             CloseAccept, CloseSpot, ClosePerp, FinishClose, SkipClosedLeg, AbortClose, Crash, vars
    <2>2. QED
      BY <2>1

\* The quantities of the rows of the pass.
LEMMA StagedCountStep ==
  ASSUME Facts, [Next]_vars, IInv'
  PROVE  \A x \in Legs : /\ staged'[x].leg.target \in Nat /\ staged'[x].leg.filled \in Nat
                         /\ staged'[x].order.attempts \in 0..MaxAttempts
                         /\ staged'[x].order.status = "retrying" =>
                               staged'[x].order.attempts < MaxAttempts
                         /\ staged'[x].order.status # "success" => staged'[x].leg.filled = 0
  <1> DEFINE GoodRow(l, o) == /\ l.target \in Nat /\ l.filled \in Nat
                              /\ o.attempts \in 0..MaxAttempts
                              /\ o.status = "retrying" => o.attempts < MaxAttempts
                              /\ o.status # "success" => l.filled = 0
             Goal == \A x \in Legs : GoodRow(staged'[x].leg, staged'[x].order)
  <1> USE DEF book, worker, closing, outside, venue, faults
  <1>0. \A x \in Legs : GoodRow(staged[x].leg, staged[x].order)
    BY DEF Facts, CountInv, FillInv
  <1>1. CASE StageLeg
    <2> DEFINE x == job[Worker].leg
    <2>1. Worker \in Actors /\ job[Worker].step \in {"acked", "failed"}
      BY <1>1 DEF StageLeg, Actors
    <2>2. GoodRow(LegAfter(Worker), OrderAfter(Worker))
      BY <2>1, AfterCount
    <2>3. staged' = [staged EXCEPT ![x] = [leg |-> LegAfter(Worker), order |-> OrderAfter(Worker)]]
      BY <1>1 DEF StageLeg
    <2>4. staged \in [Legs -> [leg : RowType, order : OrderType]]
      BY DEF Facts, IInv, Shape
    <2>5. \A y \in Legs : staged'[y] = IF y = x THEN [leg |-> LegAfter(Worker),
                                                    order |-> OrderAfter(Worker)]
                                     ELSE staged[y]
      BY <2>3, <2>4
    <2> HIDE DEF x
    <2>6. ASSUME NEW y \in Legs PROVE GoodRow(staged'[y].leg, staged'[y].order)
      <3>1. CASE y = x
        <4>1. staged'[y].leg = LegAfter(Worker) /\ staged'[y].order = OrderAfter(Worker)
          BY <2>5, <3>1
        <4>2. QED
          BY <2>2, <4>1
      <3>2. CASE y # x
        <4>1. staged'[y] = staged[y]
          BY <2>5, <3>2
        <4>2. QED
          BY <1>0, <4>1
      <3>3. QED
        BY <3>1, <3>2
    <2>7. QED
      BY <2>6
  <1>2. CASE staged' = NothingStaged
    BY <1>2, AttemptAssumption DEF NothingStaged, NoLeg, NoOrder
  <1>3. CASE UNCHANGED staged
    BY <1>0, <1>3
  <1>4. QED
    <2>1. Goal
      BY <1>1, <1>2, <1>3
         DEF Next, RunOpen, RunClose, OpenCheck, OpenPersist, StartSpot, StartHedge, SkipHedge,
             CommitLeg, ReadVerdict, WriteVerdict, AbortOpen, Call, ScanRetries, ReplayNext,
             EndPass, AbortPass, CloseCheck, CloseAccept, CloseSpot, ClosePerp, FinishClose,
             SkipClosedLeg, CommitClosedLeg, AbortClose, Crash, vars
    <2>2. QED
      BY <2>1

\* What SnapDown cuts off is less than a step.
LEMMA SnapDownNear ==
  ASSUME NEW q \in Nat
  PROVE  SnapDown(q, SpotStep) \in Nat /\ SnapDown(q, SpotStep) <= q /\ q < SnapDown(q, SpotStep) + SpotStep
  <1> DEFINE k == q \div SpotStep
  <1>1. k \in Nat /\ k * SpotStep <= q /\ q < k * SpotStep + SpotStep
    BY GridAssumption, SMT
  <1>2. k * SpotStep \in Nat
    <2> HIDE DEF k
    <2> QED
      BY <1>1, GridAssumption, SMT
  <1>3. QED
    BY <1>1, <1>2 DEF SnapDown

\* What a trade changes at the venue.
LEMMA TradeHeld ==
  ASSUME Facts, NEW x \in Legs, NEW q \in Nat, Trade(x, q), x[2] = "spot" => Fee <= q
  PROVE  /\ spot' \in [Assets -> Nat] /\ short' \in [Assets -> Nat]
         /\ AssetOf[x[1]] \in Assets
         /\ x[2] = "spot" => short' = short /\ spot'[AssetOf[x[1]]] = spot[AssetOf[x[1]]] + q - Fee
         /\ x[2] = "perp" => spot' = spot /\ short'[AssetOf[x[1]]] = short[AssetOf[x[1]]] + q
         /\ \A s \in Assets \ {AssetOf[x[1]]} : spot'[s] = spot[s] /\ short'[s] = short[s]
  <1>1. x[1] \in Requests /\ x[2] \in {"spot", "perp"} /\ AssetOf[x[1]] \in Assets
    BY LegsArePairs DEF Assets
  <1>2. spot \in [Assets -> Nat] /\ short \in [Assets -> Nat]
    BY DEF Facts, CountInv
  <1> DEFINE s0 == AssetOf[x[1]]
  <1>3. CASE x[2] = "spot"
    <2>1. spot' = [spot EXCEPT ![s0] = spot[s0] + q - Fee] /\ short' = short
      BY <1>3 DEF Trade
    <2>2. spot[s0] \in Nat /\ spot[s0] + q - Fee \in Nat
      BY <1>1, <1>2, <1>3, GridAssumption
    <2> HIDE DEF s0
    <2>3. QED
      BY <1>1, <1>2, <1>3, <2>1, <2>2 DEF s0
  <1>4. CASE x[2] = "perp"
    <2>1. short' = [short EXCEPT ![s0] = short[s0] + q] /\ spot' = spot
      BY <1>4 DEF Trade
    <2>2. short[s0] + q \in Nat
      BY <1>1, <1>2
    <2>3. QED
      BY <1>1, <1>2, <1>4, <2>1, <2>2
  <1>5. QED
    BY <1>1, <1>3, <1>4

\* What the venue holds is never negative: a close sells no more than there is.
LEMMA VenueStep ==
  ASSUME Facts, [Next]_vars
  PROVE  spot' \in [Assets -> Nat] /\ short' \in [Assets -> Nat]
  <1> DEFINE Goal == spot' \in [Assets -> Nat] /\ short' \in [Assets -> Nat]
  <1> USE DEF book, worker, closing, outside, venue, faults
  <1>0. spot \in [Assets -> Nat] /\ short \in [Assets -> Nat]
    BY DEF Facts, CountInv
  <1>1. ASSUME NEW a \in Actors, Call(a) PROVE Goal
    <2> DEFINE x == job[a].leg
    <2>1. job[a].step = "calling" /\ x \in Legs /\ job[a].target \in Nat
      BY <1>1, JobOrder DEF Call, Facts, CountInv
    <2>2. CASE \E q \in Fills : Trade(x, q)
      BY <2>1, <2>2, TradeHeld, QtyAssumption, FeeAssumption
    <2>3. CASE UNCHANGED venue
      BY <1>0, <2>3
    <2>4. CASE Trade(x, job[a].target)
      <3>1. x[2] = "spot" => Fee <= job[a].target
        BY <2>1, SpotTarget, FeeAssumption
      <3> HIDE DEF x
      <3>2. QED
        BY <2>1, <2>4, <3>1, TradeHeld
    <2>5. QED
      BY <1>1, <2>2, <2>3, <2>4 DEF Call
  <1>2. ASSUME NEW c \in Closers, CloseSpot(c) PROVE Goal
    <2> DEFINE r == closer[c].arb
               s == AssetOf[r]
               x == leg[<<r, "spot">>]
               free == IF x.filled < spot[s] THEN x.filled ELSE spot[s]
               qty == SnapDown(free, SpotStep)
    <2>1. r \in Requests /\ s \in Assets /\ <<r, "spot">> \in Legs
      BY <1>2, LegsArePairs DEF CloseSpot, Facts, IInv, CloserInv, Assets
    <2>2. x.filled \in Nat /\ spot[s] \in Nat
      BY <1>0, <2>1 DEF Facts, CountInv
    <2>3. free \in Nat /\ free <= spot[s]
      <3> HIDE DEF x, s
      <3> QED
        BY <2>2
    <2>4. qty \in Nat /\ qty <= spot[s]
      <3> HIDE DEF free
      <3>1. qty \in Nat /\ qty <= free
        BY <2>3, SnapDownNear
      <3> HIDE DEF qty
      <3>2. QED
        BY <2>2, <2>3, <3>1
    <2>5. /\ short' = short
          /\ \/ spot' = [spot EXCEPT ![s] = @ - qty]
             \/ \E sold \in {0} \cup {f \in Fills : f < qty} : spot' = [spot EXCEPT ![s] = @ - sold]
             \/ spot' = spot
      BY <1>2 DEF CloseSpot
    <2> HIDE DEF qty, s
    <2>6. CASE spot' = [spot EXCEPT ![s] = @ - qty]
      BY <1>0, <2>1, <2>2, <2>4, <2>5, <2>6
    <2>7. CASE \E sold \in {0} \cup {f \in Fills : f < qty} : spot' = [spot EXCEPT ![s] = @ - sold]
      <3>1. PICK sold \in {0} \cup {f \in Fills : f < qty} : spot' = [spot EXCEPT ![s] = @ - sold]
        BY <2>7
      <3>2. sold \in Nat /\ sold <= spot[s]
        BY <2>2, <2>4, QtyAssumption
      <3>3. QED
        BY <1>0, <2>1, <2>2, <2>5, <3>1, <3>2
    <2>8. CASE spot' = spot
      BY <1>0, <2>5, <2>8
    <2>9. QED
      BY <2>5, <2>6, <2>7, <2>8
  <1>3. ASSUME NEW c \in Closers, ClosePerp(c) PROVE Goal
    <2> DEFINE s == AssetOf[closer[c].arb]
    <2>1. s \in Assets
      BY <1>3 DEF ClosePerp, Facts, IInv, CloserInv, Assets
    <2>2. short[s] \in Nat
      BY <1>0, <2>1
    <2>3. /\ spot' = spot
          /\ \/ short' = [short EXCEPT ![s] = 0]
             \/ \E f \in {g \in {0} \cup Fills : g < short[s]} : short' = [short EXCEPT ![s] = @ - f]
             \/ short' = short
      BY <1>3 DEF ClosePerp
    <2> HIDE DEF s
    <2>4. QED
      BY <1>0, <2>1, <2>2, <2>3, QtyAssumption
  <1>4. CASE UNCHANGED venue
    BY <1>0, <1>4
  <1>5. QED
    BY <1>1, <1>2, <1>3, <1>4
       DEF Next, RunOpen, RunClose, OpenCheck, OpenPersist, StartSpot, StartHedge, SkipHedge,
           CommitLeg, ReadVerdict, WriteVerdict, AbortOpen, ScanRetries, ReplayNext, StageLeg,
           EndPass, AbortPass, CloseCheck, CloseAccept, FinishClose, SkipClosedLeg,
           CommitClosedLeg, AbortClose, Crash, vars

\* The sets and the pass.

\* The sets stay what they are.
LEMMA SetsStep ==
  ASSUME Facts, [Next]_vars
  PROVE  /\ checked' \subseteq Requests /\ disturbed' \subseteq Assets
         /\ writer' \in Actors \cup {Nobody} /\ inPass' \in BOOLEAN
         /\ disturbed \subseteq disturbed'
  <1> DEFINE Goal == /\ checked' \subseteq Requests /\ disturbed' \subseteq Assets
                     /\ writer' \in Actors \cup {Nobody} /\ inPass' \in BOOLEAN
                     /\ disturbed \subseteq disturbed'
  <1> USE DEF book, worker, closing, outside, venue, faults
  <1>0. /\ checked \subseteq Requests /\ disturbed \subseteq Assets
        /\ writer \in Actors \cup {Nobody} /\ inPass \in BOOLEAN
        /\ Worker \in Actors /\ Requests \subseteq Actors
        /\ \A r \in Requests : AssetOf[r] \in Assets
    BY DEF Facts, PassInv, Actors, Assets
  <1>1. \A c \in Closers : closer[c].step # "none" => AssetOf[closer[c].arb] \in Assets
    BY DEF Facts, IInv, CloserInv, Assets
  <1>2. StagedFills \subseteq Assets
    BY LegsArePairs DEF StagedFills, Assets
  <1>3. \A a \in Actors : job[a].step # "none" => AssetOf[job[a].leg[1]] \in Assets
    BY JobOrder, LegsArePairs DEF Assets
  <1>4. ASSUME NEW r \in Requests, OpenCheck(r) \/ OpenPersist(r) \/ RunOpen(r) \/ AbortOpen(r)
        PROVE  Goal
    BY <1>0, <1>4 DEF OpenCheck, OpenPersist, RunOpen, StartSpot, StartHedge, SkipHedge, CommitLeg,
                      ReadVerdict, WriteVerdict, AbortOpen, Abort
  <1>5. ASSUME NEW a \in Actors, Call(a) PROVE Goal
    BY <1>0, <1>3, <1>5 DEF Call
  <1>6. CASE ScanRetries \/ ReplayNext \/ StageLeg \/ EndPass \/ AbortPass
    BY <1>0, <1>2, <1>6 DEF ScanRetries, ReplayNext, StageLeg, EndPass, AbortPass, Abort
  <1>7. ASSUME NEW c \in Closers, CloseCheck(c) \/ CloseAccept(c) \/ CloseSpot(c) \/ ClosePerp(c)
                                  \/ FinishClose(c)
        PROVE  Goal
    BY <1>0, <1>1, <1>7 DEF CloseCheck, CloseAccept, CloseSpot, ClosePerp, FinishClose
  <1>8. ASSUME NEW c \in Closers, NEW p \in Products, SkipClosedLeg(c, p) \/ CommitClosedLeg(c, p)
        PROVE  Goal
    BY <1>0, <1>8 DEF SkipClosedLeg, CommitClosedLeg
  <1>9. ASSUME NEW c \in Closers, AbortClose(c) PROVE Goal
    BY <1>0, <1>1, <1>9 DEF AbortClose, Abort, Products, CalledStep
  <1>10. CASE Crash
    <2>1. Uncommitted \subseteq Assets
      <3>1. \A c \in Closers : CallOf(c) => closer[c].step # "none"
        BY DEF CallOf, CalledStep
      <3>2. QED
        BY <1>1, <1>2, <1>3, <3>1 DEF Uncommitted
    <2>2. QED
      BY <1>0, <1>10, <2>1 DEF Crash
  <1>11. CASE UNCHANGED vars
    BY <1>0, <1>11 DEF vars
  <1>12. QED
    BY <1>4, <1>5, <1>6, <1>7, <1>8, <1>9, <1>10, <1>11 DEF Next, RunClose

\* Nobody but the worker changes its pass.
LEMMA PassInvStep ==
  ASSUME Facts, [Next]_vars
  PROVE  PassInv'
  <1> DEFINE P == /\ ~inPass => /\ batch = {} /\ job[Worker].step = "none"
                                /\ \A x \in Legs : staged[x].order.status = "none"
                  /\ \A x \in batch : staged[x].order.status = "none"
                  /\ job[Worker].step # "none" => /\ job[Worker].leg \notin batch
                                                  /\ staged[job[Worker].leg].order.status = "none"
  <1> SUFFICES P'
    BY SetsStep DEF PassInv
  <1> USE DEF book, worker, closing, outside, venue, faults
  <1>0. /\ P /\ Worker \in Actors /\ Worker \notin Requests /\ job \in [Actors -> JobType]
        /\ batch \subseteq Legs
        /\ staged \in [Legs -> [leg : RowType, order : OrderType]]
    BY WorkerAssumption DEF Facts, PassInv, Actors, IInv, Shape
  <1>1. \A x \in Legs : NothingStaged[x].order.status = "none"
    BY DEF NothingStaged, NoOrder
  <1>2. ASSUME UNCHANGED worker, job'[Worker].step # "none" => job[Worker].step # "none",
               job'[Worker].leg = job[Worker].leg \/ job'[Worker].step = "none"
        PROVE  P'
    BY <1>0, <1>2
  <1>3. CASE ScanRetries
    <2>1. ~inPass /\ inPass' /\ batch' \subseteq Due /\ UNCHANGED <<job, staged>>
      BY <1>3 DEF ScanRetries
    <2>2. QED
      BY <1>0, <2>1 DEF Due
  <1>4. CASE ReplayNext
    <2>1. PICK x \in batch : /\ batch' = batch \ {x}
                             /\ job' = [job EXCEPT ![Worker] = [NoJob EXCEPT !.step = "calling",
                                              !.leg = x, !.target = leg[x].target]]
      BY <1>4 DEF ReplayNext
    <2>2. job'[Worker] = [step |-> "calling", leg |-> x, target |-> leg[x].target, filled |-> 0]
      BY <1>0, <2>1, ReplayJob
    <2>3. inPass /\ UNCHANGED <<inPass, staged>>
      BY <1>4 DEF ReplayNext
    <2>4. QED
      BY <1>0, <2>1, <2>2, <2>3
  <1>5. CASE StageLeg
    <2> DEFINE x == job[Worker].leg
    <2>1. /\ job[Worker].step \in {"acked", "failed"} /\ UNCHANGED <<inPass, batch>>
          /\ job' = [job EXCEPT ![Worker] = NoJob]
          /\ staged' = [staged EXCEPT ![x] = [leg |-> LegAfter(Worker),
                                              order |-> OrderAfter(Worker)]]
      BY <1>5 DEF StageLeg
    <2>2. job'[Worker].step = "none" /\ x \notin batch /\ inPass
      BY <1>0, <2>1 DEF NoJob
    <2> HIDE DEF x
    <2>3. \A y \in Legs \ {x} : staged'[y] = staged[y]
      BY <1>0, <2>1
    <2>4. QED
      BY <1>0, <2>1, <2>2, <2>3
  <1>6. CASE EndPass
    BY <1>0, <1>1, <1>6 DEF EndPass, NoJob
  <1>7. CASE AbortPass
    BY <1>0, <1>1, <1>7 DEF AbortPass, NoJob
  <1>8. CASE Crash
    BY <1>0, <1>1, <1>8 DEF Crash, NoJob
  <1>9. ASSUME NEW r \in Requests, StartSpot(r) \/ StartHedge(r) \/ CommitLeg(r)
        PROVE  P'
    <2>1. r # Worker /\ UNCHANGED worker /\ \E j : job' = [job EXCEPT ![r] = j]
      BY <1>0, <1>9 DEF StartSpot, StartHedge, CommitLeg
    <2>2. QED
      BY <1>0, <1>2, <2>1
  <1>10. ASSUME NEW a \in Actors, Call(a) PROVE P'
    <2>1. UNCHANGED worker /\ job[a].step = "calling"
      BY <1>10 DEF Call
    <2>2. job'[a].leg = job[a].leg /\ \A b \in Actors \ {a} : job'[b] = job[b]
      BY <1>10, CallShape DEF Facts, IInv
    <2>3. QED
      BY <1>0, <1>2, <2>1, <2>2
  <1>11. CASE UNCHANGED <<worker, job>>
    BY <1>2, <1>11
  <1>12. QED
    BY <1>3, <1>4, <1>5, <1>6, <1>7, <1>8, <1>9, <1>10, <1>11
       DEF Next, RunOpen, RunClose, OpenCheck, OpenPersist, SkipHedge, ReadVerdict, WriteVerdict,
           AbortOpen, CloseCheck, CloseAccept, CloseSpot, ClosePerp, FinishClose, SkipClosedLeg,
           CommitClosedLeg, AbortClose, vars

\* Spot legs keep the size of their pair, and an arb that does not exist has no legs.
LEMMA LegsStep ==
  ASSUME Facts, [Next]_vars, IInv'
  PROVE  \A r \in Requests :
           /\ arb'[r] = "none" => leg'[<<r, "spot">>] = NoLeg /\ leg'[<<r, "perp">>] = NoLeg
           /\ arb'[r] # "none" => leg'[<<r, "spot">>].target = Qty
           /\ job'[r].step # "none" /\ opener'[r].step = "spot" => job'[r].target = Qty
  <1> DEFINE L(r) == /\ arb[r] = "none" => leg[<<r, "spot">>] = NoLeg /\ leg[<<r, "perp">>] = NoLeg
                     /\ arb[r] # "none" => leg[<<r, "spot">>].target = Qty
             J(r) == job[r].step # "none" /\ opener[r].step = "spot" => job[r].target = Qty
  <1> USE DEF book, worker, closing, outside, venue, faults
  <1>0. /\ \A r \in Requests : L(r) /\ J(r)
        /\ \A r \in Requests : <<r, "spot">> \in Legs /\ <<r, "perp">> \in Legs
        /\ \A r \in Requests : r \in Actors /\ r # Worker
        /\ leg \in [Legs -> RowType] /\ job \in [Actors -> JobType] /\ opener \in [Requests -> OpenerType]
        /\ arb \in [Requests -> {"none", "closed"} \cup NonClosed]
    BY LegsArePairs, WorkerAssumption DEF Facts, FillInv, Actors, IInv, Shape
  <1>1. ASSUME \A r \in Requests : arb[r] # "none" => arb'[r] # "none",
               \A r \in Requests : arb[r] = "none" => /\ arb'[r] = "none"
                                                      /\ leg'[<<r, "spot">>] = leg[<<r, "spot">>]
                                                      /\ leg'[<<r, "perp">>] = leg[<<r, "perp">>],
               \A r \in Requests : leg'[<<r, "spot">>].target = leg[<<r, "spot">>].target
        PROVE  \A r \in Requests : L(r)'
    BY <1>0, <1>1
  <1>2. ASSUME \A r \in Requests : /\ job'[r].target = job[r].target
                                   /\ job'[r].step # "none" => job[r].step # "none"
                                   /\ opener'[r].step = "spot" => opener[r].step = "spot"
        PROVE  \A r \in Requests : J(r)'
    BY <1>0, <1>2
  <1>3. ASSUME UNCHANGED <<arb, leg>> PROVE \A r \in Requests : L(r)'
    BY <1>0, <1>3
  <1>4. ASSUME UNCHANGED <<job, opener>> PROVE \A r \in Requests : J(r)'
    BY <1>0, <1>4
  <1>5. ASSUME NEW r \in Requests, OpenPersist(r) PROVE \A q \in Requests : L(q)' /\ J(q)'
    <2>1. CASE UNCHANGED <<arb, leg, opener>>
      BY <1>3, <1>4, <1>5, <2>1 DEF OpenPersist
    <2>2. CASE /\ arb[r] = "none" /\ arb' = [arb EXCEPT ![r] = "opening"] /\ leg' = NewLegs(r)
               /\ opener' = [opener EXCEPT ![r].step = "spot"]
      <3>1. /\ arb'[r] = "opening" /\ leg'[<<r, "spot">>].target = Qty
            /\ \A q \in Requests \ {r} : /\ arb'[q] = arb[q] /\ opener'[q] = opener[q]
                                         /\ leg'[<<q, "spot">>] = leg[<<q, "spot">>]
                                         /\ leg'[<<q, "perp">>] = leg[<<q, "perp">>]
        BY <1>0, <2>2 DEF NewLegs
      <3>2. job[r].step = "none" /\ job' = job
        BY <1>5, <2>2 DEF OpenPersist, Facts, IInv, RowInv, OpenerInv, OpenerOf
      <3>3. QED
        BY <1>0, <3>1, <3>2
    <2>3. QED
      BY <1>5, <2>1, <2>2 DEF OpenPersist, Repeats
  <1>6. ASSUME NEW r \in Requests, StartSpot(r) \/ StartHedge(r)
        PROVE  \A q \in Requests : L(q)' /\ J(q)'
    <2>1. UNCHANGED <<arb, leg, opener>>
      BY <1>6 DEF StartSpot, StartHedge
    <2>2. CASE StartSpot(r)
      <3>1. job' = [job EXCEPT ![r] = [step |-> "calling", leg |-> <<r, "spot">>,
                                       target |-> leg[<<r, "spot">>].target, filled |-> 0]]
        BY <2>2, ReplayJob DEF StartSpot
      <3>2. arb[r] # "none"
        BY <2>2 DEF StartSpot, Facts, IInv, RowInv
      <3>3. job'[r].target = Qty /\ \A q \in Requests \ {r} : job'[q] = job[q]
        BY <1>0, <3>1, <3>2
      <3>4. QED
        BY <1>0, <1>3, <2>1, <3>3
    <2>3. CASE StartHedge(r)
      <3>1. opener'[r].step = "perp" /\ \A q \in Requests \ {r} : job'[q] = job[q]
        BY <1>0, <2>3, <2>1 DEF StartHedge
      <3>2. QED
        BY <1>0, <1>3, <2>1, <3>1
    <2>4. QED
      BY <1>6, <2>2, <2>3
  <1>7. ASSUME NEW r \in Requests, SkipHedge(r) PROVE \A q \in Requests : L(q)' /\ J(q)'
    <2>1. /\ UNCHANGED <<arb, job>> /\ opener[r].step = "perp"
          /\ leg' = [leg EXCEPT ![<<r, "perp">>].status = "error"]
          /\ opener' = [opener EXCEPT ![r].step = "finalize"]
      BY <1>7 DEF SkipHedge
    <2>2. arb[r] # "none"
      BY <2>1 DEF Facts, IInv, RowInv
    <2>3. /\ \A y \in Legs : leg'[y].target = leg[y].target
          /\ \A y \in Legs \ {<<r, "perp">>} : leg'[y] = leg[y]
      BY <1>0, <2>1, StatusRow
    <2>4. \A q \in Requests : L(q)'
      BY <1>0, <1>1, <2>1, <2>2, <2>3
    <2>5. \A q \in Requests : opener'[q].step = "spot" => opener[q].step = "spot"
      BY <1>0, <2>1 DEF OpenerType
    <2>6. QED
      BY <1>2, <2>1, <2>4, <2>5
  <1>8. ASSUME NEW r \in Requests, CommitLeg(r) PROVE \A q \in Requests : L(q)' /\ J(q)'
    <2> DEFINE x == job[r].leg
    <2>1. /\ job[r].step \in {"acked", "failed"} /\ x = <<r, opener[r].step>>
          /\ opener[r].step \in {"spot", "perp"} /\ UNCHANGED arb
          /\ job' = [job EXCEPT ![r] = NoJob]
          /\ leg' = [leg EXCEPT ![x] = LegAfter(r)]
      BY <1>0, <1>8, JobOrder DEF CommitLeg
    <2>2. arb[r] # "none" /\ x \in Legs
      BY <1>0, <2>1, JobOrder DEF Facts, IInv, RowInv
    <2>3. LegAfter(r).target = job[r].target
      BY <1>0, <2>1, AfterCount
    <2>4. \A q \in Requests : L(q)'
      <3>1. \A y \in Legs \ {x} : leg'[y] = leg[y]
        BY <1>0, <2>1
      <3>2. opener[r].step = "spot" => leg'[<<r, "spot">>].target = Qty
        BY <1>0, <2>1, <2>2, <2>3
      <3>3. opener[r].step = "perp" => leg'[<<r, "spot">>] = leg[<<r, "spot">>]
        BY <1>0, <2>1, <3>1
      <3>4. ASSUME NEW q \in Requests, q # r PROVE L(q)'
        <4>1. leg'[<<q, "spot">>] = leg[<<q, "spot">>] /\ leg'[<<q, "perp">>] = leg[<<q, "perp">>]
          BY <1>0, <2>1, <3>1, <3>4
        <4>2. QED
          BY <1>0, <2>1, <4>1
      <3>5. L(r)'
        BY <1>0, <2>1, <2>2, <3>2, <3>3
      <3>6. QED
        BY <3>4, <3>5
    <2>5. \A q \in Requests : J(q)'
      <3>1. job'[r].step = "none" /\ \A q \in Requests \ {r} : job'[q] = job[q]
        BY <1>0, <2>1 DEF NoJob
      <3>2. \A q \in Requests \ {r} : opener'[q] = opener[q]
        BY <1>0, <1>8 DEF CommitLeg
      <3>3. QED
        BY <1>0, <3>1, <3>2
    <2>6. QED
      BY <2>4, <2>5
  <1>9. ASSUME NEW r \in Requests, ReadVerdict(r) \/ WriteVerdict(r) \/ AbortOpen(r)
        PROVE  \A q \in Requests : L(q)' /\ J(q)'
    <2>1. UNCHANGED <<leg, job>>
      BY <1>9 DEF ReadVerdict, WriteVerdict, AbortOpen
    <2>2. arb' = arb \/ arb[r] # "none"
      BY <1>9 DEF ReadVerdict, WriteVerdict, AbortOpen, Facts, IInv, RowInv
    <2>3. arb' = arb \/ \E v \in {"open", "error"} : arb' = [arb EXCEPT ![r] = v]
      BY <1>9 DEF ReadVerdict, WriteVerdict, AbortOpen
    <2>4. \A q \in Requests : L(q)'
      BY <1>0, <1>1, <2>1, <2>2, <2>3
    <2>5. \A q \in Requests : opener'[q].step = "spot" => opener[q].step = "spot"
      BY <1>0, <1>9 DEF ReadVerdict, WriteVerdict, AbortOpen, NoOpener, OpenerType
    <2>6. QED
      BY <1>2, <2>1, <2>4, <2>5
  <1>10. ASSUME NEW a \in Actors, Call(a) PROVE \A q \in Requests : L(q)' /\ J(q)'
    <2>1. UNCHANGED <<arb, leg, opener>> /\ job[a].step = "calling"
      BY <1>10 DEF Call
    <2>2. \A q \in Requests : /\ job'[q].target = job[q].target
                              /\ job'[q].step # "none" => job[q].step # "none"
      BY <1>0, <1>10, <2>1, CallShape DEF Facts, IInv
    <2>3. \A q \in Requests : opener'[q].step = "spot" => opener[q].step = "spot"
      BY <2>1
    <2>4. \A q \in Requests : L(q)'
      BY <1>3, <2>1
    <2>5. \A q \in Requests : J(q)'
      BY <1>2, <2>2, <2>3
    <2>6. QED
      BY <2>4, <2>5
  <1>11. CASE ReplayNext \/ StageLeg \/ AbortPass
    <2>1. UNCHANGED <<arb, leg, opener>>
      BY <1>11 DEF ReplayNext, StageLeg, AbortPass
    <2>2. \A q \in Requests : job'[q] = job[q]
      BY <1>0, <1>11 DEF ReplayNext, StageLeg, AbortPass
    <2>3. QED
      BY <1>2, <1>3, <2>1, <2>2
  <1>12. CASE EndPass
    <2>1. UNCHANGED <<arb, opener, job>>
      BY <1>12 DEF EndPass
    <2>2. \A x \in Legs : leg'[x] = IF IsStaged(x) THEN staged[x].leg ELSE leg[x]
      BY <1>12 DEF EndPass
    <2>3. \A x \in Legs : IsStaged(x) => staged[x].order.status # "none"
      BY DEF Facts, IInv, Shape, IsStaged, NothingStaged
    <2>4. \A x \in Legs : IsStaged(x) => /\ order[x].status = "retrying"
                                        /\ staged[x].leg.target = leg[x].target
      BY <2>3 DEF Facts, IInv, WorkerInv
    <2>5. \A q \in Requests : arb[q] = "none" => ~IsStaged(<<q, "spot">>) /\ ~IsStaged(<<q, "perp">>)
      BY <1>0, <2>4 DEF Facts, IInv, RowInv
    <2>6. \A x \in Legs : leg'[x].target = leg[x].target
      BY <2>2, <2>4
    <2>7. QED
      BY <1>0, <1>1, <1>4, <2>1, <2>2, <2>5, <2>6
  <1>13. ASSUME NEW c \in Closers, CloseAccept(c) \/ FinishClose(c)
         PROVE  \A q \in Requests : L(q)' /\ J(q)'
    <2>1. closer[c].arb \in Requests /\ arb[closer[c].arb] # "none" /\ UNCHANGED <<leg, job, opener>>
      BY <1>13 DEF CloseAccept, FinishClose, Facts, IInv, CloserInv
    <2>2. \E v \in {"closing", "error", "closed"} : arb' = [arb EXCEPT ![closer[c].arb] = v]
      BY <1>13 DEF CloseAccept, FinishClose
    <2>3. QED
      BY <1>0, <1>1, <1>4, <2>1, <2>2
  <1>14. ASSUME NEW c \in Closers, NEW p \in Products, CommitClosedLeg(c, p)
         PROVE  \A q \in Requests : L(q)' /\ J(q)'
    <2> DEFINE x == <<closer[c].arb, p>>
    <2>1. x \in Legs /\ closer[c].arb \in Requests /\ arb[closer[c].arb] # "none"
          /\ UNCHANGED <<arb, job, opener>>
      BY <1>14 DEF CommitClosedLeg, CalledStep, Facts, IInv, CloserInv, Legs
    <2>2. leg' = leg \/ leg' = [leg EXCEPT ![x].status = closer[c].write]
      BY <1>14 DEF CommitClosedLeg
    <2>3. /\ \A y \in Legs : leg'[y].target = leg[y].target
          /\ \A y \in Legs \ {x} : leg'[y] = leg[y]
      <3> HIDE DEF x
      <3> QED
        BY <1>0, <2>1, <2>2, StatusRow
    <2>4. \A q \in Requests : arb[q] = "none" => <<q, "spot">> # x /\ <<q, "perp">> # x
      BY <2>1
    <2>5. QED
      <3> HIDE DEF x
      <3> QED
        BY <1>0, <1>1, <1>4, <2>1, <2>3, <2>4
  <1>15. CASE Crash
    BY <1>0, <1>3, <1>15 DEF Crash, NoJob, NoOpener
  <1>16. CASE UNCHANGED <<arb, leg, opener, job>>
    BY <1>3, <1>4, <1>16
  <1>17. \A q \in Requests : L(q)' /\ J(q)'
    BY <1>5, <1>6, <1>7, <1>8, <1>9, <1>10, <1>11, <1>12, <1>13, <1>14, <1>15, <1>16
       DEF Next, RunOpen, RunClose, OpenCheck, ScanRetries, CloseCheck, CloseSpot, ClosePerp,
           SkipClosedLeg, AbortClose, vars
  <1>18. QED
    BY <1>17

\* What holds of every asset, disturbed or not, is kept.
LEMMA FactsStep ==
  ASSUME Facts, [Next]_vars
  PROVE  Facts'
  <1>1. IInv'
    BY StepInv DEF Facts
  <1>2. CountInv' /\ FillInv'
    BY <1>1, JobCountStep, RowCountStep, StagedCountStep, VenueStep, LegsStep DEF CountInv, FillInv
  <1>3. QED
    BY <1>1, <1>2, PassInvStep DEF Facts
----------------------------------------------------------------------------
(* Assets nothing disturbed: the parts that a step leaves alone. *)

\* A leg whose rows, calls and closes say what they said.
SameLeg(x) ==
    /\ leg'[x].filled = leg[x].filled
    /\ leg'[x].status = "closed" <=> leg[x].status = "closed"
    /\ leg'[x].status = "success" => leg[x].status = "success"
    /\ \A a \in Actors : /\ AckedOn(a, x)' <=> AckedOn(a, x)
                         /\ AckedOn(a, x) => job'[a].filled = job[a].filled
    /\ StagedFill(x)' <=> StagedFill(x)
    /\ StagedFill(x) => staged'[x].leg.filled = staged[x].leg.filled
    /\ \A c \in Closers : /\ CalledOn(c, x)' <=> CalledOn(c, x)
                          /\ CalledOn(c, x) => closer'[c].write = closer[c].write

\* The requests, the legs and what is closed are finitely many.
LEMMA ClosedFinite ==
  ASSUME NEW s
  PROVE  /\ IsFiniteSet({x \in LegsOf(s, "spot") : leg[x].status = "closed"})
         /\ IsFiniteSet({x \in LegsOf(s, "spot") : leg'[x].status = "closed"})
         /\ IsFiniteSet(Legs)
  <1>1. IsFiniteSet(Products)
    <2>1. IsFiniteSet({"spot"}) /\ IsFiniteSet({"perp"})
      BY FS_Singleton
    <2>2. IsFiniteSet({"spot"} \cup {"perp"})
      BY <2>1, FS_Union
    <2>3. {"spot"} \cup {"perp"} = Products
      BY DEF Products
    <2>4. QED
      BY <2>2, <2>3
  <1>2. IsFiniteSet(Legs)
    BY <1>1, RequestsFinite, FS_Product DEF Legs
  <1>3. QED
    BY <1>2, FS_Subset DEF LegsOf

\* Dust is a quantity,
LEMMA DustNat == ASSUME NEW s PROVE Dust(s) \in Nat /\ Dust(s)' \in Nat
  <1> DEFINE m == Cardinality({x \in LegsOf(s, "spot") : leg[x].status = "closed"})
             n == Cardinality({x \in LegsOf(s, "spot") : leg'[x].status = "closed"})
  <1>1. m \in Nat /\ n \in Nat
    BY ClosedFinite, FS_CardinalityType
  <1>2. Dust(s) = (SpotStep - 1) * m /\ Dust(s)' = (SpotStep - 1) * n
    BY DEF Dust, LegsOf
  <1> HIDE DEF m, n
  <1>3. SpotStep - 1 \in Nat
    BY GridAssumption
  <1>4. (SpotStep - 1) * m \in Nat /\ (SpotStep - 1) * n \in Nat
    BY <1>1, <1>3, SMT
  <1>5. QED
    BY <1>2, <1>4

\* that only closes add to.
LEMMA DustGrows ==
  ASSUME NEW s, \A x \in LegsOf(s, "spot") : leg[x].status = "closed" => leg'[x].status = "closed"
  PROVE  Dust(s) <= Dust(s)' /\ Dust(s)' \in Nat
  <1> DEFINE S == {x \in LegsOf(s, "spot") : leg[x].status = "closed"}
             T == {x \in LegsOf(s, "spot") : leg'[x].status = "closed"}
             m == Cardinality(S)
             n == Cardinality(T)
  <1>0. S \subseteq T
    OBVIOUS
  <1>1. IsFiniteSet(S) /\ IsFiniteSet(T)
    BY ClosedFinite, Zenon
  <1>2. m \in Nat /\ n \in Nat /\ m <= n
    <2> HIDE DEF S, T
    <2> QED
      BY <1>0, <1>1, FS_Subset, FS_CardinalityType
  <1>3. Dust(s) = (SpotStep - 1) * m /\ Dust(s)' = (SpotStep - 1) * n
    BY DEF Dust, LegsOf
  <1> HIDE DEF m, n
  <1>4. SpotStep - 1 \in Nat
    BY GridAssumption
  <1>5. (SpotStep - 1) * m <= (SpotStep - 1) * n /\ (SpotStep - 1) * n \in Nat
    BY <1>2, <1>4, SMT
  <1>6. QED
    BY <1>3, <1>5

\* Nothing closed, no more dust.
LEMMA DustSame ==
  ASSUME NEW s, \A x \in LegsOf(s, "spot") : leg'[x].status = "closed" <=> leg[x].status = "closed"
  PROVE  Dust(s)' = Dust(s)
  <1>1. {x \in LegsOf(s, "spot") : leg'[x].status = "closed"}
        = {x \in LegsOf(s, "spot") : leg[x].status = "closed"}
    OBVIOUS
  <1>2. QED
    BY <1>1 DEF Dust, LegsOf

\* A spot leg that is closed leaves less than a step of its grid.
LEMMA DustAdds ==
  ASSUME NEW s, NEW x \in LegsOf(s, "spot"), leg[x].status # "closed", leg'[x].status = "closed",
         \A y \in LegsOf(s, "spot") \ {x} : leg'[y].status = "closed" <=> leg[y].status = "closed"
  PROVE  Dust(s)' = Dust(s) + SpotStep - 1
  <1> DEFINE S == {y \in LegsOf(s, "spot") : leg[y].status = "closed"}
             T == {y \in LegsOf(s, "spot") : leg'[y].status = "closed"}
             m == Cardinality(S)
             n == Cardinality(T)
  <1>0. T = S \cup {x} /\ x \notin S
    OBVIOUS
  <1>1. IsFiniteSet(S)
    BY ClosedFinite, Zenon
  <1>2. m \in Nat /\ n = m + 1
    <2> HIDE DEF S, T
    <2> QED
      BY <1>0, <1>1, FS_AddElement, FS_CardinalityType
  <1>3. Dust(s) = (SpotStep - 1) * m /\ Dust(s)' = (SpotStep - 1) * n
    BY DEF Dust, LegsOf
  <1> HIDE DEF m, n
  <1>4. (SpotStep - 1) * (m + 1) = (SpotStep - 1) * m + SpotStep - 1
    BY <1>2, GridAssumption, SMT
  <1>5. QED
    BY <1>2, <1>3, <1>4

\* The numbers that Holds compares.
LEMMA HeldNat ==
  ASSUME NEW x \in Legs
  PROVE  /\ FeeOf(x) \in Nat /\ Grain(x) \in Nat /\ FeeOf(x)' = FeeOf(x) /\ Grain(x)' = Grain(x)
         /\ DustOf(x) \in Nat /\ DustOf(x)' \in Nat
         /\ Facts => Held(x) \in Nat /\ Carried(x) \in Nat
         /\ Facts' => Held(x)' \in Nat /\ Carried(x)' \in Nat
  <1>1. AssetOf[x[1]] \in Assets
    BY LegsArePairs DEF Assets
  <1>2. /\ Facts => Held(x) \in Nat /\ Carried(x) \in Nat
        /\ Facts' => Held(x)' \in Nat /\ Carried(x)' \in Nat
    BY <1>1 DEF Facts, CountInv, Held, Carried
  <1>3. DustOf(x) \in Nat /\ DustOf(x)' \in Nat
    BY DustNat DEF DustOf
  <1>4. QED
    BY <1>2, <1>3, GridAssumption DEF FeeOf, Grain

\* Such a leg still holds what it held, if the venue does and there is no less dust.
LEMMA HoldsSame ==
  ASSUME NEW x \in Legs, Facts, Facts', SameLeg(x), Held(x)' = Held(x), DustOf(x) <= DustOf(x)', Holds(x)
  PROVE  Holds(x)'
  <1>1. /\ Held(x) \in Nat /\ DustOf(x) \in Nat /\ FeeOf(x) \in Nat /\ Grain(x) \in Nat
        /\ Held(x)' \in Nat /\ DustOf(x)' \in Nat /\ Carried(x) \in Nat
    BY HeldNat
  <1>2. Carried(x)' = Carried(x)
    BY DEF SameLeg, Carried
  <1>3. FeeOf(x)' = FeeOf(x) /\ Grain(x)' = Grain(x)
    BY HeldNat
  <1>4. /\ \A a \in Actors : job[a].filled \in Nat
        /\ staged[x].leg.filled \in Nat /\ leg[x].filled \in Nat
    BY DEF Facts, CountInv
  <1>5. (\A a \in Actors : ~AckedOn(a, x)) /\ ~StagedFill(x) => Held(x) <= Carried(x) + DustOf(x)
    BY DEF Holds
  <1>6. (\A a \in Actors : ~AckedOn(a, x)') /\ ~StagedFill(x)' => Held(x)' <= Carried(x)' + DustOf(x)'
    BY <1>1, <1>2, <1>5 DEF SameLeg
  <1>7. ASSUME NEW a \in Actors, AckedOn(a, x)'
        PROVE  job'[a].filled - FeeOf(x)' <= Held(x)' /\ Held(x)' <= job'[a].filled + DustOf(x)'
    <2>1. AckedOn(a, x) /\ job'[a].filled = job[a].filled
      BY <1>7 DEF SameLeg
    <2>2. job[a].filled - FeeOf(x) <= Held(x) /\ Held(x) <= job[a].filled + DustOf(x)
      BY <2>1 DEF Holds
    <2>3. QED
      BY <1>1, <1>3, <1>4, <2>1, <2>2
  <1>8. ASSUME StagedFill(x)'
        PROVE  /\ staged'[x].leg.filled - FeeOf(x)' <= Held(x)'
               /\ Held(x)' <= staged'[x].leg.filled + DustOf(x)'
    <2>1. StagedFill(x) /\ staged'[x].leg.filled = staged[x].leg.filled
      BY <1>8 DEF SameLeg
    <2>2. staged[x].leg.filled - FeeOf(x) <= Held(x) /\ Held(x) <= staged[x].leg.filled + DustOf(x)
      BY <2>1 DEF Holds
    <2>3. QED
      BY <1>1, <1>3, <1>4, <2>1, <2>2
  <1>9. ASSUME leg'[x].status = "success", \A c \in Closers : ~CalledOn(c, x)'
        PROVE  leg'[x].filled - FeeOf(x)' <= Held(x)'
    <2>1. leg[x].status = "success" /\ \A c \in Closers : ~CalledOn(c, x)
      BY <1>9 DEF SameLeg
    <2>2. leg[x].filled - FeeOf(x) <= Held(x) /\ leg'[x].filled = leg[x].filled
      BY <2>1 DEF Holds, SameLeg
    <2>3. QED
      BY <1>1, <1>3, <1>4, <2>2
  <1>10. ASSUME NEW c \in Closers, CalledOn(c, x)', closer'[c].write = "closed"
         PROVE  Held(x)' <= DustOf(x)' + Grain(x)'
    <2>1. CalledOn(c, x) /\ closer[c].write = "closed"
      BY <1>10 DEF SameLeg
    <2>2. Held(x) <= DustOf(x) + Grain(x)
      BY <2>1 DEF Holds
    <2>3. QED
      BY <1>1, <1>3, <2>2
  <1>11. QED
    BY <1>6, <1>7, <1>8, <1>9, <1>10 DEF Holds

\* An asset that a step leaves alone.
LEMMA BookAtSame ==
  ASSUME Facts, Facts', NEW s \in Assets, BookAt(s),
         \A r \in Requests : AssetOf[r] = s => (arb'[r] \in NonClosed <=> arb[r] \in NonClosed),
         \A x \in Legs : AssetOf[x[1]] = s => SameLeg(x),
         spot'[s] = spot[s], short'[s] = short[s]
  PROVE  BookAt(s)'
  <1>1. Dust(s)' = Dust(s)
    BY DustSame DEF LegsOf, SameLeg
  <1>2. ASSUME AllClosed(s)' PROVE Flat(s)'
    <2>1. AllClosed(s)
      <3>1. \A r \in Requests : arb[r] \in {"none", "closed"} \cup NonClosed
        BY DEF Facts, IInv, Shape
      <3>2. QED
        BY <1>2, <3>1 DEF AllClosed, NonClosed
    <2>2. QED
      BY <1>1, <2>1 DEF BookAt, Flat
  <1>3. ASSUME NEW x \in Legs, AssetOf[x[1]] = s, arb'[x[1]] \in NonClosed PROVE Holds(x)'
    <2>1. Holds(x)
      BY <1>3, LegsArePairs DEF BookAt
    <2>2. Held(x)' = Held(x) /\ DustOf(x)' = DustOf(x) /\ DustOf(x) \in Nat
      BY <1>1, <1>3, HeldNat DEF Held, DustOf
    <2>3. QED
      BY <1>3, <2>1, <2>2, HoldsSame
  <1>4. QED
    BY <1>2, <1>3 DEF BookAt

\* A step that leaves every such asset alone.
LEMMA BookSame ==
  ASSUME Facts, Facts', BookInv, disturbed \subseteq disturbed',
         \A r \in Requests : Clean(AssetOf[r])' => (arb'[r] \in NonClosed <=> arb[r] \in NonClosed),
         \A x \in Legs : Clean(AssetOf[x[1]])' => SameLeg(x),
         \A s \in Assets : Clean(s)' => spot'[s] = spot[s] /\ short'[s] = short[s]
  PROVE  BookInv'
  BY BookAtSame DEF BookInv, Clean

\* A step about one leg of an arb that is not closed: the other leg of the pair holds something
\* else, and there is no other such arb of the asset.
LEMMA BookOne ==
  ASSUME Facts, Facts', TaskInv, BookInv, disturbed \subseteq disturbed', UNCHANGED arb,
         NEW x \in Legs,
         Clean(AssetOf[x[1]])' => /\ arb[x[1]] \in NonClosed /\ Holds(x)'
                                  /\ leg[x].status = "closed" => leg'[x].status = "closed",
         \A y \in Legs \ {x} : Clean(AssetOf[y[1]])' => SameLeg(y),
         \A s \in Assets \ {AssetOf[x[1]]} : spot'[s] = spot[s] /\ short'[s] = short[s],
         x[2] = "spot" => short' = short, x[2] = "perp" => spot' = spot
  PROVE  BookInv'
  <1> SUFFICES ASSUME NEW s \in Assets, Clean(s)' PROVE BookAt(s)'
    BY DEF BookInv
  <1>1. Clean(s) /\ BookAt(s)
    BY DEF Clean, BookInv
  <1>2. CASE s # AssetOf[x[1]]
    <2>1. \A y \in Legs : AssetOf[y[1]] = s => SameLeg(y)
      BY <1>2
    <2>2. QED
      BY <1>1, <1>2, <2>1, BookAtSame
  <1>3. CASE s = AssetOf[x[1]]
    <2>1. arb[x[1]] \in NonClosed /\ Holds(x)' /\ x[1] \in Requests
      BY <1>3, LegsArePairs
    <2>2. ~AllClosed(s)'
      BY <1>3, <2>1 DEF AllClosed, NonClosed
    <2>3. ASSUME NEW y \in Legs, AssetOf[y[1]] = s, arb[y[1]] \in NonClosed, y # x
          PROVE  Holds(y)'
      <3>1. y[1] = x[1]
        <4>1. TaskOf(x[1]) /\ y[1] \in Requests
          BY <1>1, <1>3, <2>1, LegsArePairs DEF TaskInv
        <4>2. QED
          BY <1>3, <2>1, <2>3, <4>1 DEF TaskOf
      <3>2. \/ x[2] = "spot" /\ y[2] = "perp"
            \/ x[2] = "perp" /\ y[2] = "spot"
        BY <2>3, <3>1, LegsArePairs DEF Legs, Products
      <3>3. SameLeg(y) /\ Holds(y)
        BY <1>1, <2>3 DEF BookAt
      <3>4. Held(y)' = Held(y)
        BY <3>2 DEF Held
      <3>5. DustOf(y) <= DustOf(y)'
        <4>1. \A z \in LegsOf(s, "spot") : leg[z].status = "closed" => leg'[z].status = "closed"
          BY DEF LegsOf, SameLeg
        <4>2. Dust(s) <= Dust(s)'
          BY <4>1, DustGrows
        <4>3. QED
          BY <2>3, <4>2 DEF DustOf
      <3>6. QED
        BY <3>3, <3>4, <3>5, HoldsSame
    <2>4. QED
      BY <2>1, <2>2, <2>3 DEF BookAt
  <1>4. QED
    BY <1>2, <1>3

\* Tasks and closes go on only as they were, and nothing of the arbs or the closed legs changes.
LEMMA TaskSame ==
  ASSUME TaskInv, disturbed \subseteq disturbed', UNCHANGED arb,
         \A r \in Requests : Clean(AssetOf[r])' =>
            /\ opener'[r].step # "none" => opener[r].step # "none"
            /\ \A c \in Closers : Running(c, r)' => Running(c, r)
            /\ \A p \in Products :
                  /\ leg'[<<r, p>>].status = "closed" <=> leg[<<r, p>>].status = "closed"
                  /\ order'[<<r, p>>].status = "retrying" => order[<<r, p>>].status = "retrying"
  PROVE  TaskInv'
  <1> SUFFICES ASSUME NEW r \in Requests, Clean(AssetOf[r])' PROVE TaskOf(r)'
    BY DEF TaskInv
  <1>1. TaskOf(r)
    BY DEF TaskInv, Clean
  <1>2. "spot" \in Products /\ "perp" \in Products
    BY DEF Products
  <1>3. opener'[r].step # "none" => arb'[r] = "opening"
    BY <1>1 DEF TaskOf
  <1>4. ASSUME NEW c \in Closers, Running(c, r)'
        PROVE  /\ arb'[r] = "closing"
               /\ order'[<<r, "spot">>].status # "retrying" /\ order'[<<r, "perp">>].status # "retrying"
               /\ \A d \in Closers : Running(d, r)' => d = c
    BY <1>1, <1>2, <1>4 DEF TaskOf
  <1>5. ASSUME NEW p \in Products, leg'[<<r, p>>].status = "closed"
        PROVE  arb'[r] \in {"closing", "error", "closed"} /\ order'[<<r, p>>].status # "retrying"
    BY <1>1, <1>5 DEF TaskOf
  <1>6. arb'[r] = "closed" => leg'[<<r, "spot">>].status = "closed" /\ leg'[<<r, "perp">>].status = "closed"
    BY <1>1, <1>2 DEF TaskOf
  <1>7. \A q \in Requests : AssetOf[q] = AssetOf[r] /\ arb'[q] \in NonClosed /\ arb'[r] \in NonClosed => q = r
    BY <1>1 DEF TaskOf
  <1>8. QED
    BY <1>3, <1>4, <1>5, <1>6, <1>7 DEF TaskOf

\* Closes that do not move, while the legs they are about stay closed or in error.
LEMMA ProgressSame ==
  ASSUME TaskInv, ProgressInv, disturbed \subseteq disturbed',
         \A c \in Closers, r \in Requests : Clean(AssetOf[r])' /\ Running(c, r)' =>
            /\ closer'[c] = closer[c]
            /\ \A p \in Products :
                  /\ leg'[<<r, p>>].status = "closed" <=> leg[<<r, p>>].status = "closed"
                  /\ leg[<<r, p>>].status = "error" => leg'[<<r, p>>].status = "error"
  PROVE  ProgressInv'
  <1> SUFFICES ASSUME NEW c \in Closers, NEW r \in Requests, Clean(AssetOf[r])', Running(c, r)'
               PROVE  ProgressOf(c, r)'
    BY DEF ProgressInv
  <1>1. closer'[c] = closer[c]
    OBVIOUS
  <1>2. ProgressOf(c, r)
    BY <1>1 DEF ProgressInv, Clean, Running
  <1>3. QED
    BY <1>1, <1>2 DEF ProgressOf, Products
----------------------------------------------------------------------------
(* What stands still beside a job or a close, and the steps one by one. *)

\* A call in flight is a step of its close.
LEMMA CalledSteps ==
  /\ \A p \in Products : CalledStep(p) \in {"spot_called", "perp_called"}
  /\ \A c \in Closers, x \in Legs :
        CalledOn(c, x) => closer[c].step \in {"spot_called", "perp_called"} /\ Running(c, x[1])
  /\ \A c \in Closers, x \in Legs : CalledOn(c, x)' => closer'[c].step \in {"spot_called", "perp_called"}
  BY DEF CalledStep, CalledOn, Running

\* While an order is being handled its arb is not closed, no close of it runs, and nobody else
\* handles it.
LEMMA ActiveLeg ==
  ASSUME Facts, TaskInv, NEW a \in Actors, job[a].step # "none",
         NEW x \in Legs, x = job[a].leg, Clean(AssetOf[x[1]])
  PROVE  /\ arb[x[1]] \in NonClosed
         /\ \A c \in Closers : ~Running(c, x[1])
         /\ leg[x].status \notin {"closed", "success"}
         /\ \A b \in Actors \ {a} : job[b].step # "none" => job[b].leg # x
         /\ a # Worker => arb[a] = "opening"
  <1> DEFINE r == x[1]
  <1>1. x \in Legs /\ r \in Requests /\ (x = <<r, "spot">> \/ x = <<r, "perp">>)
    BY JobOrder, LegsArePairs
  <1>2. TaskOf(r) /\ "spot" \in Products /\ "perp" \in Products
    BY <1>1 DEF TaskInv, Products
  <1>3. order[x].status = IF a = Worker THEN "retrying" ELSE "none"
    BY JobOrder
  <1>4. \A b \in Actors \ {a} : job[b].step # "none" => job[b].leg # x
    <2> SUFFICES ASSUME NEW b \in Actors \ {a}, job[b].step # "none", job[b].leg = x PROVE FALSE
      OBVIOUS
    <2>1. order[x].status = IF b = Worker THEN "retrying" ELSE "none"
      BY JobOrder
    <2>2. a # Worker /\ b # Worker
      BY <1>3, <2>1
    <2>3. x[1] = a /\ x[1] = b
      BY <2>2, JobOrder
    <2>4. QED
      BY <2>3
  <1>5. leg[x].status # "success"
    BY <1>1, <1>3 DEF Facts, IInv, RowInv
  <1>6. CASE a = Worker
    <2>1. order[x].status = "retrying"
      BY <1>3, <1>6
    <2>2. leg[x].status # "closed" /\ \A c \in Closers : ~Running(c, r)
      BY <1>1, <1>2, <2>1 DEF TaskOf
    <2>3. arb[r] # "none"
      BY <1>1, <2>1 DEF Facts, IInv, RowInv
    <2>4. arb[r] # "closed"
      BY <1>1, <1>2, <2>2 DEF TaskOf
    <2>5. arb[r] \in NonClosed
      BY <1>1, <2>3, <2>4 DEF Facts, IInv, Shape
    <2>6. QED
      BY <1>4, <1>5, <1>6, <2>2, <2>5
  <1>7. CASE a # Worker
    <2>1. r = a /\ opener[r].step \in {"spot", "perp"}
      BY <1>7, JobOrder
    <2>2. arb[r] = "opening"
      BY <1>2, <2>1 DEF TaskOf
    <2>3. leg[x].status # "closed" /\ \A c \in Closers : ~Running(c, r)
      BY <1>1, <1>2, <2>2 DEF TaskOf
    <2>4. QED
      BY <1>4, <1>5, <2>1, <2>2, <2>3 DEF NonClosed
  <1>8. QED
    BY <1>6, <1>7

\* While a close runs, its arb is closing, and nobody handles an order of it.
LEMMA RunningArb ==
  ASSUME Facts, TaskInv, NEW c \in Closers, NEW r \in Requests, Clean(AssetOf[r]), Running(c, r)
  PROVE  /\ arb[r] = "closing" /\ opener[r].step = "none"
         /\ \A d \in Closers : Running(d, r) => d = c
         /\ \A p \in Products : /\ \A a \in Actors : ~AckedOn(a, <<r, p>>)
                                /\ ~StagedFill(<<r, p>>)
                                /\ order[<<r, p>>].status # "retrying"
  <1>1. TaskOf(r)
    BY DEF TaskInv
  <1>2. /\ arb[r] = "closing" /\ opener[r].step = "none"
        /\ \A d \in Closers : Running(d, r) => d = c
        /\ \A p \in Products : order[<<r, p>>].status # "retrying"
    BY <1>1 DEF TaskOf, Products
  <1>3. ASSUME NEW p \in Products, NEW a \in Actors, AckedOn(a, <<r, p>>) PROVE FALSE
    <2>1. job[a].step # "none" /\ job[a].leg = <<r, p>> /\ <<r, p>> \in Legs
      BY <1>3 DEF AckedOn, Legs
    <2>2. QED
      BY <2>1, ActiveLeg
  <1>4. ASSUME NEW p \in Products, StagedFill(<<r, p>>) PROVE FALSE
    <2>1. <<r, p>> \in Legs
      BY DEF Legs
    <2>2. QED
      BY <1>2, <1>4, <2>1 DEF StagedFill, Facts, IInv, WorkerInv
  <1>5. QED
    BY <1>2, <1>3, <1>4

\* Steps that write no row and end or start tasks only.
LEMMA StillStep ==
  ASSUME Facts, Facts', Book, disturbed \subseteq disturbed', UNCHANGED <<arb, leg, order>>,
         \A s \in Assets : Clean(s)' => spot'[s] = spot[s] /\ short'[s] = short[s],
         \A r \in Requests : opener'[r].step # "none" => opener[r].step # "none",
         \A c \in Closers : closer'[c] = closer[c] \/ closer'[c].step \in {"none", "checked"},
         \A x \in Legs : Clean(AssetOf[x[1]])' =>
            /\ \A a \in Actors : /\ AckedOn(a, x)' <=> AckedOn(a, x)
                                 /\ AckedOn(a, x) => job'[a].filled = job[a].filled
            /\ StagedFill(x)' <=> StagedFill(x)
            /\ StagedFill(x) => staged'[x].leg.filled = staged[x].leg.filled
            /\ \A c \in Closers : CalledOn(c, x) => closer'[c] = closer[c]
  PROVE  Book'
  <1>1. \A c \in Closers, r \in Requests : Running(c, r)' => Running(c, r) /\ closer'[c] = closer[c]
    BY DEF Running
  <1>2. TaskInv'
    BY <1>1, TaskSame DEF Book
  <1>3. ProgressInv'
    BY <1>1, ProgressSame DEF Book
  <1>4. \A x \in Legs : Clean(AssetOf[x[1]])' => SameLeg(x)
    <2> SUFFICES ASSUME NEW x \in Legs, Clean(AssetOf[x[1]])' PROVE SameLeg(x)
      OBVIOUS
    <2>1. \A c \in Closers : CalledOn(c, x)' <=> CalledOn(c, x)
      BY CalledSteps DEF CalledOn
    <2>2. \A c \in Closers : CalledOn(c, x) => closer'[c].write = closer[c].write
      OBVIOUS
    <2>3. QED
      BY <2>1, <2>2 DEF SameLeg
  <1>5. BookInv'
    BY <1>4, BookSame DEF Book
  <1>6. QED
    BY <1>2, <1>3, <1>5 DEF Book

\* Steps that neither trade nor write rows.
LEMMA BookStill ==
  ASSUME Facts, Facts', Book,
         \/ \E r \in Requests : OpenCheck(r) \/ StartSpot(r) \/ StartHedge(r) \/ ReadVerdict(r)
                                \/ AbortOpen(r)
         \/ ScanRetries \/ ReplayNext \/ AbortPass
         \/ \E c \in Closers : CloseCheck(c)
         \/ Crash \/ UNCHANGED vars
  PROVE  Book'
  <1> USE DEF book, worker, closing, outside, venue, faults
  <1>0. /\ job \in [Actors -> JobType] /\ opener \in [Requests -> OpenerType]
        /\ DOMAIN closer = Closers
        /\ Worker \in Actors /\ \A r \in Requests : r \in Actors
    BY DEF Facts, IInv, Shape, CloserInv, Actors
  <1>1. ASSUME UNCHANGED <<arb, leg, order, opener, staged, closer, spot, short, disturbed>>,
               NEW a \in Actors, job[a].step = "none", NEW j, j.step = "calling",
               job' = [job EXCEPT ![a] = j]
        PROVE  Book'
    <2>1. \A x \in Legs, b \in Actors : /\ AckedOn(b, x)' <=> AckedOn(b, x)
                                        /\ AckedOn(b, x) => job'[b].filled = job[b].filled
      BY <1>0, <1>1 DEF AckedOn
    <2>2. QED
      BY <1>1, <2>1, StillStep DEF StagedFill
  <1>2. CASE \E r \in Requests : StartSpot(r) \/ StartHedge(r)
    <2>1. PICK r \in Requests : StartSpot(r) \/ StartHedge(r)
      BY <1>2
    <2>2. job[r].step = "none" /\ UNCHANGED <<arb, leg, order, opener, staged, closer, spot, short, disturbed>>
      <3>1. job[r] = NoJob /\ UNCHANGED <<arb, leg, order, opener, staged, closer, spot, short, disturbed>>
        BY <2>1 DEF StartSpot, StartHedge
      <3>2. QED
        BY <3>1 DEF NoJob
    <2>3. \E x, q : job' = [job EXCEPT ![r] = [NoJob EXCEPT !.step = "calling", !.leg = x, !.target = q]]
      BY <2>1 DEF StartSpot, StartHedge
    <2>4. \E j : j.step = "calling" /\ job' = [job EXCEPT ![r] = j]
      <3>1. PICK x, q : job' = [job EXCEPT ![r] = [NoJob EXCEPT !.step = "calling", !.leg = x, !.target = q]]
        BY <2>3
      <3>2. job' = [job EXCEPT ![r] = [step |-> "calling", leg |-> x, target |-> q, filled |-> 0]]
        BY <3>1, ReplayJob
      <3>3. QED
        BY <3>2
    <2>5. QED
      BY <1>0, <1>1, <2>2, <2>4
  <1>3. CASE ReplayNext
    <2>1. job[Worker].step = "none" /\ UNCHANGED <<arb, leg, order, opener, staged, closer, spot, short, disturbed>>
      <3>1. job[Worker] = NoJob /\ UNCHANGED <<arb, leg, order, opener, staged, closer, spot, short, disturbed>>
        BY <1>3 DEF ReplayNext
      <3>2. QED
        BY <3>1 DEF NoJob
    <2>2. \E x, q : job' = [job EXCEPT ![Worker] = [NoJob EXCEPT !.step = "calling", !.leg = x, !.target = q]]
      BY <1>3 DEF ReplayNext
    <2>3. \E j : j.step = "calling" /\ job' = [job EXCEPT ![Worker] = j]
      <3>1. PICK x, q : job' = [job EXCEPT ![Worker] = [NoJob EXCEPT !.step = "calling", !.leg = x, !.target = q]]
        BY <2>2
      <3>2. job' = [job EXCEPT ![Worker] = [step |-> "calling", leg |-> x, target |-> q, filled |-> 0]]
        BY <3>1, ReplayJob
      <3>3. QED
        BY <3>2
    <2>4. QED
      BY <1>0, <1>1, <2>1, <2>3
  <1>4. ASSUME UNCHANGED <<arb, leg, order, job, staged, closer, spot, short, disturbed>>,
               \A r \in Requests : opener'[r].step # "none" => opener[r].step # "none"
        PROVE  Book'
    BY <1>4, StillStep DEF AckedOn, StagedFill
  <1>5. CASE \/ \E r \in Requests : OpenCheck(r) \/ ReadVerdict(r) \/ AbortOpen(r)
             \/ ScanRetries \/ UNCHANGED vars
    <2>1. UNCHANGED <<arb, leg, order, job, staged, closer, spot, short, disturbed>>
      BY <1>5 DEF OpenCheck, ReadVerdict, AbortOpen, Abort, ScanRetries, vars
    <2>2. \A r \in Requests : opener'[r].step # "none" => opener[r].step # "none"
      BY <1>0, <1>5 DEF OpenCheck, ReadVerdict, AbortOpen, ScanRetries, vars, NoOpener, OpenerType
    <2>3. QED
      BY <1>4, <2>1, <2>2
  <1>6. CASE AbortPass
    <2>1. /\ UNCHANGED <<arb, leg, order, opener, closer, spot, short>> /\ staged' = NothingStaged
          /\ disturbed' = disturbed \cup StagedFills
          /\ job[Worker].step # "acked" /\ job' = [job EXCEPT ![Worker] = NoJob]
      BY <1>6 DEF AbortPass, Abort
    <2>2. \A x \in Legs, b \in Actors : /\ AckedOn(b, x)' <=> AckedOn(b, x)
                                        /\ AckedOn(b, x) => job'[b].filled = job[b].filled
      BY <1>0, <2>1 DEF AckedOn, NoJob
    <2>3. \A x \in Legs : Clean(AssetOf[x[1]])' => ~StagedFill(x)
      BY <2>1 DEF Clean, StagedFills, StagedFill
    <2>4. \A x \in Legs : ~StagedFill(x)'
      BY <2>1 DEF StagedFill, NothingStaged, NoOrder
    <2>5. QED
      BY <2>1, <2>2, <2>3, <2>4, StillStep
  <1>7. CASE \E c \in Closers : CloseCheck(c)
    <2>1. PICK c \in Closers : CloseCheck(c)
      BY <1>7
    <2>2. PICK r \in Requests : closer' = [closer EXCEPT ![c].step = "checked", ![c].arb = r]
      BY <2>1 DEF CloseCheck
    <2>3. /\ UNCHANGED <<arb, leg, order, opener, job, staged, spot, short, disturbed>>
          /\ closer[c] = NoCloser
      BY <2>1 DEF CloseCheck
    <2>4. closer' = [closer EXCEPT ![c] = [[NoCloser EXCEPT !.step = "checked"] EXCEPT !.arb = r]]
      BY <1>0, <2>2, <2>3
    <2>5. [[NoCloser EXCEPT !.step = "checked"] EXCEPT !.arb = r].step = "checked"
      BY DEF NoCloser
    <2> DEFINE k == [[NoCloser EXCEPT !.step = "checked"] EXCEPT !.arb = r]
    <2>6. \A d \in Closers : closer'[d] = closer[d] \/ closer'[d].step = "checked"
      <3>1. k.step = "checked" /\ closer' = [closer EXCEPT ![c] = k]
        BY <2>4, <2>5
      <3> HIDE DEF k
      <3>2. QED
        BY <1>0, <3>1
    <2>7. \A d \in Closers, x \in Legs : CalledOn(d, x) => closer'[d] = closer[d]
      <3>1. \A d \in Closers : d # c => closer'[d] = closer[d]
        BY <1>0, <2>4
      <3>2. closer[c].step = "none"
        BY <2>3 DEF NoCloser
      <3>3. QED
        BY <3>1, <3>2, CalledSteps
    <2> HIDE DEF k
    <2>8. QED
      BY <2>3, <2>6, <2>7, StillStep DEF AckedOn, StagedFill
  <1>8. CASE Crash
    <2>1. /\ UNCHANGED <<arb, leg, order, spot, short>> /\ staged' = NothingStaged
          /\ disturbed' = disturbed \cup Uncommitted
          /\ opener' = [r \in Requests |-> NoOpener]
          /\ job' = [a \in Actors |-> NoJob]
          /\ closer' = [c \in Closers |-> NoCloser]
      BY <1>8 DEF Crash
    <2>2. \A x \in Legs, b \in Actors : AckedOn(b, x) => ~Clean(AssetOf[x[1]])'
      BY <2>1 DEF AckedOn, Clean, Uncommitted
    <2>3. \A x \in Legs : StagedFill(x) => ~Clean(AssetOf[x[1]])'
      BY <2>1 DEF Clean, StagedFills, StagedFill, Uncommitted
    <2>4. \A x \in Legs, c \in Closers : CalledOn(c, x) => ~Clean(AssetOf[x[1]])'
      <3>1. \A x \in Legs : x[2] \in Products
        BY DEF Legs
      <3>2. \A x \in Legs, c \in Closers : CalledOn(c, x) => CallOf(c)
        BY <3>1 DEF CalledOn, CallOf
      <3>3. \A x \in Legs, c \in Closers : CalledOn(c, x) => AssetOf[x[1]] \in Uncommitted
        BY <3>2 DEF CalledOn, Uncommitted
      <3>4. QED
        BY <2>1, <3>3 DEF Clean
    <2>5. /\ \A x \in Legs : ~StagedFill(x)' /\ \A b \in Actors : ~AckedOn(b, x)'
          /\ \A r \in Requests : opener'[r].step = "none"
          /\ \A c \in Closers : closer'[c].step = "none"
      BY <2>1 DEF StagedFill, NothingStaged, NoOrder, AckedOn, NoJob, NoOpener, NoCloser
    <2>6. disturbed \subseteq disturbed'
      BY <2>1
    <2>7. QED
      BY <2>1, <2>2, <2>3, <2>4, <2>5, <2>6, StillStep
  <1>9. QED
    BY <1>2, <1>3, <1>5, <1>6, <1>7, <1>8
----------------------------------------------------------------------------
(* The steps of an order. *)

\* The other legs, when one leg's rows or its call move.
LEMMA OtherLeg ==
  ASSUME NEW y \in Legs, NEW x \in Legs, y # x, leg'[y] = leg[y], staged'[y] = staged[y],
         UNCHANGED closer,
         \A b \in Actors : \/ job'[b] = job[b]
                            \/ /\ job[b].step # "none" => job[b].leg = x
                               /\ job'[b].step # "none" => job'[b].leg = x
  PROVE  SameLeg(y)
  BY DEF SameLeg, AckedOn, StagedFill, CalledOn

\* Nothing is closed by a job, so there is no more dust.
LEMMA DustOfSame ==
  ASSUME NEW x \in Legs, \A y \in Legs : leg'[y].status = "closed" <=> leg[y].status = "closed"
  PROVE  DustOf(x)' = DustOf(x)
  BY DustSame DEF DustOf, LegsOf

\* What is known of a leg whose order is being handled.
LEMMA HandledLeg ==
  ASSUME Facts, Book, NEW a \in Actors, job[a].step # "none",
         NEW x \in Legs, x = job[a].leg, Clean(AssetOf[x[1]])
  PROVE  /\ Carried(x) = 0
         /\ job[a].step # "acked" => Held(x) <= DustOf(x)
         /\ job[a].step = "acked" => /\ job[a].filled - FeeOf(x) <= Held(x)
                                     /\ Held(x) <= job[a].filled + DustOf(x)
         /\ \A b \in Actors \ {a} : ~AckedOn(b, x)
         /\ ~StagedFill(x)
         /\ \A c \in Closers : ~CalledOn(c, x)
  <1>1. x \in Legs /\ leg[x].filled = 0 /\ staged[x].order.status = "none"
    BY JobOrder
  <1>2. /\ arb[x[1]] \in NonClosed /\ \A c \in Closers : ~Running(c, x[1])
        /\ leg[x].status \notin {"closed", "success"}
        /\ \A b \in Actors \ {a} : job[b].step # "none" => job[b].leg # x
    BY ActiveLeg DEF Book
  <1>3. Holds(x)
    <2>1. AssetOf[x[1]] \in Assets
      BY <1>1, LegsArePairs DEF Assets
    <2>2. BookAt(AssetOf[x[1]])
      BY <2>1 DEF Book, BookInv
    <2>3. QED
      BY <1>1, <1>2, <2>2 DEF BookAt
  <1>4. Carried(x) = 0 /\ ~StagedFill(x)
    BY <1>1 DEF Carried, StagedFill
  <1>5. \A b \in Actors \ {a} : ~AckedOn(b, x)
    BY <1>2 DEF AckedOn
  <1>6. \A c \in Closers : ~CalledOn(c, x)
    BY <1>1, <1>2, CalledSteps
  <1>7. job[a].step = "acked" => AckedOn(a, x)
    BY DEF AckedOn
  <1>8. job[a].step # "acked" => Held(x) <= DustOf(x)
    <2>1. job[a].step # "acked" => \A b \in Actors : ~AckedOn(b, x)
      BY <1>5 DEF AckedOn
    <2>2. job[a].step # "acked" => Held(x) <= Carried(x) + DustOf(x)
      BY <1>3, <1>4, <2>1 DEF Holds
    <2>3. DustOf(x) \in Nat
      BY <1>1, HeldNat
    <2>4. QED
      BY <1>4, <2>2, <2>3
  <1>9. job[a].step = "acked" => /\ job[a].filled - FeeOf(x) <= Held(x)
                                 /\ Held(x) <= job[a].filled + DustOf(x)
    BY <1>3, <1>7 DEF Holds
  <1>10. QED
    BY <1>4, <1>5, <1>6, <1>8, <1>9

\* The venue answers.
LEMMA BookCall ==
  ASSUME Facts, Facts', Book, NEW a \in Actors, Call(a)
  PROVE  Book'
  <1> USE DEF book, worker, closing, outside, venue, faults
  <1>0. PICK x \in Legs : x = job[a].leg
    BY JobOrder DEF Call
  <1> DEFINE s0 == AssetOf[x[1]]
  <1>1. /\ job[a].step = "calling" /\ x \in Legs
        /\ UNCHANGED <<arb, leg, order, opener, staged, closer>>
    BY <1>0 DEF Call
  <1>2. /\ job'[a].leg = x /\ \A b \in Actors \ {a} : job'[b] = job[b]
    BY <1>0, CallShape DEF Facts, IInv
  <1>3. CASE /\ job' = [job EXCEPT ![a].step = "failed"]
             /\ \/ UNCHANGED <<venue, disturbed>>
                \/ Trade(x, job[a].target) /\ disturbed' = disturbed \cup {s0}
    <2>1. job'[a].step = "failed"
      BY <1>3 DEF Facts, IInv, Shape, JobType
    <2>2. \A y \in Legs, b \in Actors : /\ AckedOn(b, y)' <=> AckedOn(b, y)
                                        /\ AckedOn(b, y) => job'[b].filled = job[b].filled
      BY <1>0, <1>1, <1>2, <2>1 DEF AckedOn
    <2>3. \A s \in Assets : Clean(s)' => spot'[s] = spot[s] /\ short'[s] = short[s]
      <3>1. CASE UNCHANGED <<venue, disturbed>>
        BY <3>1
      <3>2. CASE Trade(x, job[a].target) /\ disturbed' = disturbed \cup {s0}
        <4>1. x[2] = "spot" => Fee <= job[a].target
          BY <1>0, <1>1, SpotTarget, FeeAssumption
        <4>2. job[a].target \in Nat
          BY DEF Facts, CountInv
        <4>3. \A s \in Assets \ {s0} : spot'[s] = spot[s] /\ short'[s] = short[s]
          <5> QED
            BY <1>0, <1>1, <3>2, <4>1, <4>2, TradeHeld
        <4>4. QED
          BY <3>2, <4>3 DEF Clean
      <3>3. QED
        BY <1>3, <3>1, <3>2
    <2>4. disturbed \subseteq disturbed'
      BY <1>3
    <2>5. QED
      BY <1>0, <1>1, <2>2, <2>3, <2>4, StillStep DEF StagedFill
  <1>4. CASE \E q \in Fills : \E n \in Recorded(x, q) :
                /\ Trade(x, q) /\ UNCHANGED disturbed
                /\ job' = [job EXCEPT ![a].step = "acked", ![a].filled = n]
    <2>0. PICK q \in Fills : \E n \in Recorded(x, q) :
               /\ Trade(x, q) /\ UNCHANGED disturbed
               /\ job' = [job EXCEPT ![a].step = "acked", ![a].filled = n]
      BY <1>4
    <2>1. PICK n \in Recorded(x, q) :
               /\ Trade(x, q) /\ UNCHANGED disturbed
               /\ job' = [job EXCEPT ![a].step = "acked", ![a].filled = n]
      BY <2>0
    <2>2. job'[a].step = "acked" /\ job'[a].filled = n
      BY <2>1 DEF Facts, IInv, Shape, JobType
    <2>3. /\ q \in Nat /\ Fee <= q /\ Fee \in Nat /\ n \in Nat
          /\ q - FeeOf(x) <= n /\ n <= q /\ n - FeeOf(x) <= q - FeeOf(x)
      <3>1. q \in Nat /\ Fee <= q /\ Fee \in Nat
        BY QtyAssumption, FeeAssumption, GridAssumption
      <3>2. CASE x[2] = "spot"
        BY <3>1, <3>2 DEF Recorded, FeeOf
      <3>3. CASE x[2] # "spot"
        BY <3>1, <3>3 DEF Recorded, FeeOf
      <3>4. QED
        BY <3>1, <3>2, <3>3
    <2>4. /\ \A s \in Assets \ {s0} : spot'[s] = spot[s] /\ short'[s] = short[s]
          /\ x[2] = "spot" => short' = short
          /\ x[2] = "perp" => spot' = spot
          /\ Held(x)' = Held(x) + q - FeeOf(x)
      <3>1. /\ \A s \in Assets \ {s0} : spot'[s] = spot[s] /\ short'[s] = short[s]
            /\ x[2] = "spot" => short' = short /\ spot'[s0] = spot[s0] + q - Fee
            /\ x[2] = "perp" => spot' = spot /\ short'[s0] = short[s0] + q
        <4> QED
          BY <1>0, <1>1, <2>1, <2>3, TradeHeld
      <3>2. short[s0] + q = short[s0] + q - 0
        <4>1. s0 \in Assets
          BY <1>0, <1>1, LegsArePairs DEF Assets
        <4>2. short[s0] \in Nat
          BY <4>1 DEF Facts, CountInv
        <4> HIDE DEF s0
        <4>3. QED
          BY <2>3, <4>2
      <3>3. x[2] \in {"spot", "perp"}
        BY <1>0, <1>1 DEF Legs, Products
      <3>4. Held(x)' = Held(x) + q - FeeOf(x)
        BY <3>1, <3>2, <3>3 DEF Held, FeeOf
      <3>5. QED
        BY <3>1, <3>4
    <2>5. \A y \in Legs \ {x} : SameLeg(y)
      BY <1>0, <1>1, <1>2, OtherLeg
    <2>6. ASSUME Clean(s0)' PROVE arb[x[1]] \in NonClosed /\ Holds(x)'
      <3>1. /\ Carried(x) = 0 /\ Held(x) <= DustOf(x) /\ ~StagedFill(x)
            /\ \A b \in Actors \ {a} : ~AckedOn(b, x)
            /\ \A c \in Closers : ~CalledOn(c, x)
        BY <1>0, <1>1, <2>1, <2>6, HandledLeg DEF Clean
      <3>2. /\ arb[x[1]] \in NonClosed /\ leg[x].status # "success"
        BY <1>0, <1>1, <2>1, <2>6, ActiveLeg DEF Clean, Book
      <3>3. /\ DustOf(x)' = DustOf(x) /\ FeeOf(x)' = FeeOf(x)
            /\ Held(x) \in Nat /\ DustOf(x) \in Nat /\ FeeOf(x) \in Nat
        BY <1>0, <1>1, DustOfSame, HeldNat
      <3>4. /\ ~StagedFill(x)' /\ leg'[x].status # "success" /\ \A c \in Closers : ~CalledOn(c, x)'
            /\ AckedOn(a, x)' /\ \A b \in Actors \ {a} : ~AckedOn(b, x)'
        BY <1>0, <1>1, <1>2, <2>2, <3>1, <3>2 DEF StagedFill, CalledOn, AckedOn
      <3>5. n - FeeOf(x)' <= Held(x)' /\ Held(x)' <= n + DustOf(x)'
        BY <2>3, <2>4, <3>1, <3>3
      <3>6. Holds(x)'
        BY <2>2, <3>4, <3>5 DEF Holds
      <3>7. QED
        BY <3>2, <3>6
    <2>7. BookInv'
      <3> QED
        BY <1>0, <1>1, <2>1, <2>4, <2>5, <2>6, BookOne DEF Book
    <2>8. TaskInv' /\ ProgressInv'
      BY <1>0, <1>1, <2>1, TaskSame, ProgressSame DEF Book, Running
    <2>9. QED
      BY <2>7, <2>8 DEF Book
  <1>5. CASE /\ job' = [job EXCEPT ![a].step = "acked", ![a].filled = job[a].target]
             /\ \/ \E q \in Fills : Trade(x, q)
                \/ UNCHANGED venue
             /\ disturbed' = disturbed \cup {s0}
    <2>1. /\ \A s \in Assets \ {s0} : spot'[s] = spot[s] /\ short'[s] = short[s]
          /\ x[2] = "spot" => short' = short
          /\ x[2] = "perp" => spot' = spot
      <3>1. CASE UNCHANGED venue
        BY <3>1
      <3>2. CASE \E q \in Fills : Trade(x, q)
        <4>1. PICK q \in Fills : Trade(x, q)
          BY <3>2
        <4>2. q \in Nat /\ Fee <= q
          BY QtyAssumption, FeeAssumption
        <4>3. QED
          BY <1>0, <1>1, <4>1, <4>2, TradeHeld
      <3>3. QED
        BY <1>5, <3>1, <3>2
    <2>2. \A y \in Legs \ {x} : SameLeg(y)
      BY <1>0, <1>1, <1>2, OtherLeg
    <2>3. ~Clean(s0)' /\ disturbed \subseteq disturbed'
      BY <1>5 DEF Clean
    <2>4. BookInv'
      <3> HIDE DEF s0
      <3>1. s0 = AssetOf[x[1]]
        BY DEF s0
      <3>2. QED
        BY <1>0, <1>1, <2>1, <2>2, <2>3, <3>1, BookOne DEF Book
    <2>5. TaskInv' /\ ProgressInv'
      BY <1>0, <1>1, <2>3, TaskSame, ProgressSame DEF Book, Running
    <2>6. QED
      BY <2>4, <2>5 DEF Book
  <1>6. QED
    BY <1>0, <1>3, <1>4, <1>5 DEF Call, LoseAnswer

\* The worker keeps an outcome in its session.
LEMMA BookStage ==
  ASSUME Facts, Facts', Book, StageLeg
  PROVE  Book'
  <1> USE DEF book, worker, closing, outside, venue, faults
  <1>0. PICK x \in Legs : x = job[Worker].leg
    BY JobOrder DEF StageLeg, Actors
  <1> DEFINE s0 == AssetOf[x[1]]
  <1>1. /\ Worker \in Actors /\ job[Worker].step \in {"acked", "failed"} /\ x \in Legs
        /\ UNCHANGED <<arb, leg, order, opener, closer, spot, short, disturbed>>
        /\ job' = [job EXCEPT ![Worker] = NoJob]
        /\ staged' = [staged EXCEPT ![x] = [leg |-> LegAfter(Worker), order |-> OrderAfter(Worker)]]
    BY <1>0, JobOrder DEF StageLeg, Actors
  <1>2. /\ job'[Worker].step = "none" /\ \A b \in Actors \ {Worker} : job'[b] = job[b]
        /\ staged'[x].leg = LegAfter(Worker) /\ staged'[x].order = OrderAfter(Worker)
        /\ \A y \in Legs \ {x} : staged'[y] = staged[y]
    BY <1>0, <1>1 DEF Facts, IInv, Shape, NoJob
  <1>3. /\ job[Worker].step = "acked" => StagedFill(x)' /\ staged'[x].leg.filled = job[Worker].filled
        /\ job[Worker].step = "failed" => ~StagedFill(x)'
    BY <1>0, <1>1, <1>2, AfterCount DEF StagedFill
  <1>4. \A y \in Legs \ {x} : SameLeg(y)
    BY <1>0, <1>1, <1>2, OtherLeg
  <1>5. ASSUME Clean(s0)' PROVE arb[x[1]] \in NonClosed /\ Holds(x)'
    <2>1. /\ Carried(x) = 0
          /\ job[Worker].step = "failed" => Held(x) <= DustOf(x)
          /\ job[Worker].step = "acked" => /\ job[Worker].filled - FeeOf(x) <= Held(x)
                                           /\ Held(x) <= job[Worker].filled + DustOf(x)
          /\ \A b \in Actors \ {Worker} : ~AckedOn(b, x)
          /\ \A c \in Closers : ~CalledOn(c, x)
      BY <1>0, <1>1, <1>5, HandledLeg DEF Clean
    <2>2. arb[x[1]] \in NonClosed /\ leg[x].status # "success"
      BY <1>0, <1>1, <1>5, ActiveLeg DEF Clean, Book
    <2>3. /\ DustOf(x)' = DustOf(x) /\ FeeOf(x)' = FeeOf(x) /\ Held(x)' = Held(x)
          /\ Held(x) \in Nat /\ DustOf(x) \in Nat /\ FeeOf(x) \in Nat
      BY <1>0, <1>1, DustOfSame, HeldNat DEF Held
    <2>4. /\ leg'[x].status # "success" /\ \A c \in Closers : ~CalledOn(c, x)'
          /\ \A b \in Actors : ~AckedOn(b, x)' /\ Carried(x)' = 0
      BY <1>0, <1>1, <1>2, <2>1, <2>2 DEF CalledOn, AckedOn, Carried
    <2>5. ~StagedFill(x)' => Held(x)' <= Carried(x)' + DustOf(x)'
      BY <1>0, <1>1, <1>3, <2>1, <2>3, <2>4
    <2>6. StagedFill(x)' => /\ staged'[x].leg.filled - FeeOf(x)' <= Held(x)'
                            /\ Held(x)' <= staged'[x].leg.filled + DustOf(x)'
      BY <1>0, <1>1, <1>3, <2>1, <2>3
    <2>7. Holds(x)'
      BY <2>4, <2>5, <2>6 DEF Holds
    <2>8. QED
      BY <2>2, <2>7
  <1>6. BookInv'
    <2> QED
      BY <1>0, <1>1, <1>4, <1>5, BookOne DEF Book
  <1>7. TaskInv' /\ ProgressInv'
    BY <1>0, <1>1, TaskSame, ProgressSame DEF Book, Running
  <1>8. QED
    BY <1>6, <1>7 DEF Book

\* The session of a leg of an open ends.
LEMMA BookCommit ==
  ASSUME Facts, Facts', Book, NEW r \in Requests, CommitLeg(r)
  PROVE  Book'
  <1> USE DEF book, worker, closing, outside, venue, faults
  <1>0. PICK x \in Legs : x = job[r].leg
    BY JobOrder DEF CommitLeg, Actors
  <1> DEFINE s0 == AssetOf[x[1]]
  <1>1. /\ r \in Actors /\ r # Worker /\ job[r].step \in {"acked", "failed"} /\ x \in Legs /\ x[1] = r
        /\ UNCHANGED <<arb, staged, closer, spot, short, disturbed>>
        /\ job' = [job EXCEPT ![r] = NoJob]
        /\ leg' = [leg EXCEPT ![x] = LegAfter(r)] /\ order' = [order EXCEPT ![x] = OrderAfter(r)]
    BY <1>0, JobOrder, WorkerAssumption DEF CommitLeg, Actors
  <1>2. /\ job'[r].step = "none" /\ \A b \in Actors \ {r} : job'[b] = job[b]
        /\ leg'[x] = LegAfter(r) /\ \A y \in Legs \ {x} : leg'[y] = leg[y] /\ order'[y] = order[y]
    BY <1>0, <1>1 DEF Facts, IInv, Shape, NoJob
  <1>3. /\ job[r].step = "acked" => leg'[x].filled = job[r].filled
        /\ job[r].step = "failed" => leg'[x].filled = 0 /\ leg'[x].status # "success"
        /\ leg'[x].status # "closed"
    BY <1>0, <1>1, <1>2, AfterCount
  <1>4. \A y \in Legs \ {x} : SameLeg(y)
    BY <1>0, <1>1, <1>2, OtherLeg
  <1>5. ASSUME Clean(s0)' PROVE arb[x[1]] \in NonClosed /\ Holds(x)' /\ leg[x].status # "closed"
    <2>1. /\ Carried(x) = 0 /\ ~StagedFill(x)
          /\ job[r].step = "failed" => Held(x) <= DustOf(x)
          /\ job[r].step = "acked" => /\ job[r].filled - FeeOf(x) <= Held(x)
                                      /\ Held(x) <= job[r].filled + DustOf(x)
          /\ \A b \in Actors \ {r} : ~AckedOn(b, x)
          /\ \A c \in Closers : ~CalledOn(c, x)
      BY <1>0, <1>1, <1>5, HandledLeg DEF Clean
    <2>2. arb[x[1]] \in NonClosed /\ leg[x].status # "closed"
      BY <1>0, <1>1, <1>5, ActiveLeg DEF Clean, Book
    <2>3. /\ DustOf(x)' = DustOf(x) /\ FeeOf(x)' = FeeOf(x) /\ Held(x)' = Held(x)
          /\ Held(x) \in Nat /\ DustOf(x) \in Nat /\ FeeOf(x) \in Nat
      <3>1. \A y \in Legs : leg'[y].status = "closed" <=> leg[y].status = "closed"
        BY <1>2, <1>3, <2>2
      <3>2. QED
        BY <1>0, <1>1, <3>1, DustOfSame, HeldNat DEF Held
    <2>4. /\ \A c \in Closers : ~CalledOn(c, x)'
          /\ \A b \in Actors : ~AckedOn(b, x)'
          /\ ~StagedFill(x)' /\ Carried(x)' = leg'[x].filled
      BY <1>0, <1>1, <1>2, <1>3, <2>1, <2>2 DEF CalledOn, AckedOn, Carried, StagedFill
    <2>5. Held(x)' <= Carried(x)' + DustOf(x)'
      BY <1>0, <1>1, <1>3, <2>1, <2>3, <2>4
    <2>6. leg'[x].status = "success" => leg'[x].filled - FeeOf(x)' <= Held(x)'
      BY <1>0, <1>1, <1>3, <2>1, <2>3
    <2>7. Holds(x)'
      BY <2>4, <2>5, <2>6 DEF Holds
    <2>8. QED
      BY <2>2, <2>7
  <1>6. BookInv'
    <2> QED
      BY <1>0, <1>1, <1>4, <1>5, BookOne DEF Book
  <1>7. opener[r].step \in {"spot", "perp"} /\ \A q \in Requests \ {r} : opener'[q] = opener[q]
    BY <1>0, <1>1, JobOrder DEF CommitLeg, Facts, IInv, Shape
  <1>8. ASSUME NEW q \in Requests, q # r
        PROVE  \A p \in Products : leg'[<<q, p>>] = leg[<<q, p>>] /\ order'[<<q, p>>] = order[<<q, p>>]
    BY <1>0, <1>1, <1>2, <1>8 DEF Legs
  <1>9. ASSUME Clean(AssetOf[r])
        PROVE  arb[r] = "opening" /\ \A c \in Closers : ~Running(c, r)
    BY <1>0, <1>1, <1>9, ActiveLeg DEF Book
  <1>10. \A c \in Closers, q \in Requests : Running(c, q)' <=> Running(c, q)
    BY <1>0, <1>1 DEF Running
  <1>11. TaskInv'
    <2> SUFFICES ASSUME NEW q \in Requests, Clean(AssetOf[q])' PROVE TaskOf(q)'
      BY DEF TaskInv
    <2>1. TaskOf(q)
      BY <1>0, <1>1 DEF Book, TaskInv, Clean
    <2>2. CASE q # r
      <3>1. \A p \in Products : leg'[<<q, p>>] = leg[<<q, p>>] /\ order'[<<q, p>>] = order[<<q, p>>]
        BY <1>8, <2>2
      <3>2. opener'[q] = opener[q] /\ "spot" \in Products /\ "perp" \in Products
        BY <1>7, <2>2 DEF Products
      <3>3. QED
        BY <1>0, <1>1, <1>10, <2>1, <3>1, <3>2 DEF TaskOf
    <2>3. CASE q = r
      <3>1. arb[r] = "opening" /\ \A c \in Closers : ~Running(c, r)'
        BY <1>0, <1>1, <1>9, <1>10, <2>3 DEF Clean
      <3>2. \A p \in Products : leg[<<r, p>>].status # "closed"
        BY <2>1, <2>3, <3>1 DEF TaskOf
      <3>3. \A p \in Products : leg'[<<r, p>>].status # "closed"
        BY <1>2, <1>3, <3>2 DEF Legs
      <3>4. QED
        BY <1>0, <1>1, <2>1, <2>3, <3>1, <3>3 DEF TaskOf
    <2>4. QED
      BY <2>2, <2>3
  <1>12. ProgressInv'
    <2>1. \A c \in Closers, q \in Requests : Clean(AssetOf[q])' /\ Running(c, q)' => q # r
      BY <1>0, <1>1, <1>9, <1>10 DEF Clean
    <2>2. QED
      BY <1>0, <1>1, <1>8, <2>1, ProgressSame DEF Book
  <1>13. QED
    BY <1>6, <1>11, <1>12 DEF Book

\* The pass ends: its rows are committed.
LEMMA BookEndPass ==
  ASSUME Facts, Facts', Book, EndPass
  PROVE  Book'
  <1> USE DEF book, worker, closing, outside, venue, faults
  <1>1. /\ batch = {} /\ job[Worker].step = "none"
        /\ UNCHANGED <<arb, opener, job, closer, spot, short, disturbed>>
        /\ \A x \in Legs : leg'[x] = IF IsStaged(x) THEN staged[x].leg ELSE leg[x]
        /\ \A x \in Legs : order'[x] = IF IsStaged(x) THEN staged[x].order ELSE order[x]
        /\ staged' = NothingStaged
    <2>1. job[Worker] = NoJob
      BY DEF EndPass
    <2>2. job[Worker].step = "none"
      BY <2>1 DEF NoJob
    <2>3. QED
      BY <2>2 DEF EndPass
  <1>2. \A x \in Legs : IsStaged(x) => /\ staged[x].order.status # "none"
                                       /\ order[x].status = "retrying"
                                       /\ staged[x].leg.status = staged[x].order.status
                                       /\ staged[x].order.status \in {"success", "retrying", "dead"}
    <2>1. \A x \in Legs : IsStaged(x) => staged[x].order.status # "none"
      BY DEF Facts, IInv, Shape, IsStaged, NothingStaged
    <2>2. \A x \in Legs : staged[x].order.status \in {"none", "success", "retrying", "dead"}
      BY DEF Facts, IInv, Shape, OrderType
    <2>3. QED
      BY <2>1, <2>2 DEF Facts, IInv, WorkerInv
  <1>3. \A x \in Legs : ~IsStaged(x) => ~StagedFill(x)
    BY DEF IsStaged, StagedFill, NoOrder
  <1>4. \A x \in Legs : ~StagedFill(x)'
    BY <1>1 DEF StagedFill, NothingStaged, NoOrder
  <1>5. ASSUME NEW x \in Legs, Clean(AssetOf[x[1]])
        PROVE  /\ leg'[x].status = "closed" <=> leg[x].status = "closed"
               /\ IsStaged(x) => /\ leg[x].status # "closed" /\ leg'[x].status # "closed"
                                 /\ \A c \in Closers : ~Running(c, x[1])
               /\ order'[x].status = "retrying" => order[x].status = "retrying"
    <2>1. TaskOf(x[1]) /\ (x = <<x[1], "spot">> \/ x = <<x[1], "perp">>)
      BY <1>5, LegsArePairs DEF Book, TaskInv
    <2>2. CASE IsStaged(x)
      <3>1. order[x].status = "retrying" /\ leg'[x].status # "closed"
        BY <1>1, <1>2, <2>2
      <3>2. leg[x].status # "closed" /\ \A c \in Closers : ~Running(c, x[1])
        BY <2>1, <3>1 DEF TaskOf, Products
      <3>3. QED
        BY <3>1, <3>2
    <2>3. CASE ~IsStaged(x)
      BY <1>1, <2>3
    <2>4. QED
      BY <2>2, <2>3
  <1>6. \A r \in Requests, p \in Products : <<r, p>> \in Legs /\ <<r, p>>[1] = r
    BY DEF Legs
  <1>7. TaskInv'
    <2>1. ASSUME NEW r \in Requests, Clean(AssetOf[r])', NEW p \in Products
          PROVE  /\ leg'[<<r, p>>].status = "closed" <=> leg[<<r, p>>].status = "closed"
                 /\ order'[<<r, p>>].status = "retrying" => order[<<r, p>>].status = "retrying"
      <3>1. <<r, p>> \in Legs /\ Clean(AssetOf[<<r, p>>[1]])
        BY <1>1, <1>6, <2>1 DEF Clean
      <3>2. QED
        BY <1>5, <3>1
    <2>2. QED
      BY <1>1, <2>1, TaskSame DEF Book, Running
  <1>8. ProgressInv'
    <2>1. ASSUME NEW r \in Requests, Clean(AssetOf[r])', NEW c \in Closers, Running(c, r)',
                 NEW p \in Products
          PROVE  leg'[<<r, p>>] = leg[<<r, p>>]
      <3> DEFINE x == <<r, p>>
      <3>1. x \in Legs /\ Clean(AssetOf[x[1]]) /\ Running(c, x[1])
        BY <1>1, <1>6, <2>1 DEF Clean, Running
      <3> HIDE DEF x
      <3>2. ~IsStaged(x)
        BY <1>5, <3>1
      <3>3. leg'[x] = leg[x]
        BY <1>1, <3>1, <3>2
      <3>4. QED
        BY <3>3 DEF x
    <2>2. QED
      BY <1>1, <2>1, ProgressSame DEF Book
  <1>9. ASSUME NEW x \in Legs, Clean(AssetOf[x[1]]), arb[x[1]] \in NonClosed, Holds(x),
               DustOf(x)' = DustOf(x)
        PROVE  Holds(x)'
    <2>1. /\ Held(x)' = Held(x) /\ FeeOf(x)' = FeeOf(x)
          /\ Held(x) \in Nat /\ DustOf(x) \in Nat /\ FeeOf(x) \in Nat
      BY <1>1, HeldNat DEF Held
    <2>2. CASE ~IsStaged(x)
      <3>1. SameLeg(x)
        BY <1>1, <1>3, <1>4, <2>2 DEF SameLeg, AckedOn, CalledOn
      <3>2. DustOf(x) <= DustOf(x)'
        BY <1>9, <2>1
      <3>3. QED
        BY <1>9, <2>1, <3>1, <3>2, HoldsSame
    <2>3. CASE IsStaged(x)
      <3>1. /\ order[x].status = "retrying" /\ leg[x].filled = 0
            /\ leg[x].status # "closed" /\ leg'[x].status # "closed"
            /\ leg'[x] = staged[x].leg /\ leg'[x].status = staged[x].order.status
            /\ ~StagedFill(x) => leg'[x].filled = 0
        BY <1>1, <1>2, <1>5, <1>9, <2>3 DEF Facts, FillInv, StagedFill
      <3>2. \A a \in Actors : ~AckedOn(a, x)
        BY <1>1, <3>1, JobOrder DEF AckedOn
      <3>3. \A c \in Closers : ~CalledOn(c, x)
        BY <1>5, <1>9, <2>3, CalledSteps
      <3>4. /\ \A a \in Actors : ~AckedOn(a, x)'
            /\ \A c \in Closers : ~CalledOn(c, x)'
            /\ ~StagedFill(x)'
            /\ Carried(x)' = leg'[x].filled
            /\ Carried(x) = 0
        BY <1>1, <1>4, <3>1, <3>2, <3>3 DEF AckedOn, CalledOn, Carried
      <3>5. /\ StagedFill(x) => /\ leg'[x].filled - FeeOf(x) <= Held(x)
                                /\ Held(x) <= leg'[x].filled + DustOf(x)
            /\ ~StagedFill(x) => Held(x) <= Carried(x) + DustOf(x)
        BY <1>9, <3>1, <3>2 DEF Holds
      <3>6. leg'[x].status = "success" => StagedFill(x)
        BY <3>1 DEF StagedFill
      <3>7. Held(x)' <= Carried(x)' + DustOf(x)'
        BY <1>9, <2>1, <3>1, <3>4, <3>5
      <3>8. leg'[x].status = "success" => leg'[x].filled - FeeOf(x)' <= Held(x)'
        BY <2>1, <3>5, <3>6
      <3>9. QED
        BY <3>4, <3>7, <3>8 DEF Holds
    <2>4. QED
      BY <2>2, <2>3
  <1>10. BookInv'
    <2> SUFFICES ASSUME NEW s \in Assets, Clean(s)' PROVE BookAt(s)'
      BY DEF BookInv
    <2>1. Clean(s) /\ BookAt(s)
      BY <1>1 DEF Clean, Book, BookInv
    <2>2. Dust(s)' = Dust(s)
      BY <1>5, <2>1, DustSame DEF LegsOf
    <2>3. AllClosed(s)' => Flat(s)'
      BY <1>1, <2>1, <2>2 DEF AllClosed, BookAt, Flat
    <2>4. ASSUME NEW x \in Legs, AssetOf[x[1]] = s, arb'[x[1]] \in NonClosed PROVE Holds(x)'
      <3>1. Holds(x) /\ arb[x[1]] \in NonClosed
        BY <1>1, <2>1, <2>4 DEF BookAt
      <3>2. DustOf(x)' = DustOf(x)
        BY <2>2, <2>4 DEF DustOf
      <3>3. QED
        BY <1>9, <2>1, <2>4, <3>1, <3>2
    <2>5. QED
      BY <2>3, <2>4 DEF BookAt
  <1>11. QED
    BY <1>7, <1>8, <1>10 DEF Book

\* Leg 2 is not placed.
LEMMA BookSkip ==
  ASSUME Facts, Facts', Book, NEW r \in Requests, SkipHedge(r)
  PROVE  Book'
  <1> USE DEF book, worker, closing, outside, venue, faults
  <1> DEFINE x == <<r, "perp">>
  <1>1. /\ opener[r].step = "perp" /\ x \in Legs
        /\ UNCHANGED <<arb, order, job, staged, closer, spot, short, disturbed>>
        /\ leg' = [leg EXCEPT ![x].status = "error"]
        /\ opener' = [opener EXCEPT ![r].step = "finalize"]
    BY LegsArePairs DEF SkipHedge
  <1>2. /\ \A y \in Legs : leg'[y].filled = leg[y].filled
        /\ \A y \in Legs \ {x} : leg'[y] = leg[y]
        /\ leg'[x].status = "error"
    <2> HIDE DEF x
    <2> QED
      BY <1>1, StatusRow DEF Facts, IInv, Shape
  <1>3. \A q \in Requests : opener'[q].step # "none" => opener[q].step # "none"
    BY <1>1 DEF Facts, IInv, Shape, OpenerType
  <1>4. ASSUME Clean(AssetOf[r])
        PROVE  arb[r] = "opening" /\ leg[x].status # "closed" /\ \A c \in Closers : ~Running(c, r)
    BY <1>1, <1>4 DEF Book, TaskInv, TaskOf, Products
  <1>5. \A y \in Legs : Clean(AssetOf[y[1]]) =>
           /\ leg'[y].status = "closed" <=> leg[y].status = "closed"
           /\ leg'[y].status = "success" => leg[y].status = "success"
    BY <1>1, <1>2, <1>4
  <1>6. \A y \in Legs : Clean(AssetOf[y[1]])' => SameLeg(y)
    BY <1>1, <1>2, <1>5 DEF SameLeg, AckedOn, StagedFill, CalledOn, Clean
  <1>7. BookInv'
    BY <1>1, <1>6, BookSame DEF Book
  <1>8. \A q \in Requests, p \in Products : <<q, p>> \in Legs /\ <<q, p>>[1] = q
    BY DEF Legs
  <1>9. \A q \in Requests, p \in Products : Clean(AssetOf[q]) =>
           (leg'[<<q, p>>].status = "closed" <=> leg[<<q, p>>].status = "closed")
    <2> SUFFICES ASSUME NEW q \in Requests, NEW p \in Products, Clean(AssetOf[q])
                 PROVE  leg'[<<q, p>>].status = "closed" <=> leg[<<q, p>>].status = "closed"
      OBVIOUS
    <2>1. <<q, p>> \in Legs /\ Clean(AssetOf[<<q, p>>[1]])
      BY <1>8
    <2>2. QED
      BY <1>5, <2>1
  <1>10. TaskInv'
    BY <1>1, <1>3, <1>9, TaskSame DEF Book, Running, Clean
  <1>11. ProgressInv'
    <2>1. \A c \in Closers, q \in Requests : Clean(AssetOf[q])' /\ Running(c, q)' => q # r
      BY <1>1, <1>4 DEF Clean, Running
    <2>2. \A q \in Requests, p \in Products : q # r => leg'[<<q, p>>] = leg[<<q, p>>]
      BY <1>2, <1>8
    <2>3. QED
      BY <1>1, <2>1, <2>2, ProgressSame DEF Book
  <1>12. QED
    BY <1>7, <1>10, <1>11 DEF Book

\* The verdict of an open.
LEMMA BookVerdict ==
  ASSUME Facts, Facts', Book, NEW r \in Requests, WriteVerdict(r)
  PROVE  Book'
  <1> USE DEF book, worker, closing, outside, venue, faults
  <1>1. /\ opener[r].step \in {"to_open", "to_error"}
        /\ UNCHANGED <<leg, order, job, staged, closer, spot, short, disturbed>>
        /\ opener' = [opener EXCEPT ![r] = NoOpener]
        /\ arb' = [arb EXCEPT ![r] = IF opener[r].step = "to_open" THEN "open" ELSE "error"]
    BY DEF WriteVerdict
  <1>2. /\ arb'[r] \in {"open", "error"} /\ \A q \in Requests \ {r} : arb'[q] = arb[q]
        /\ opener'[r].step = "none" /\ \A q \in Requests \ {r} : opener'[q] = opener[q]
    BY <1>1 DEF Facts, IInv, Shape, NoOpener
  <1>3. Clean(AssetOf[r]) => TaskOf(r) /\ arb[r] = "opening"
    BY <1>1 DEF Book, TaskInv, TaskOf
  <1>4. \A c \in Closers, q \in Requests : Running(c, q)' <=> Running(c, q)
    BY <1>1 DEF Running
  <1>5. \A q \in Requests : Clean(AssetOf[q])' => (arb'[q] \in NonClosed <=> arb[q] \in NonClosed)
    BY <1>1, <1>2, <1>3 DEF Clean, NonClosed
  <1>6. TaskInv'
    <2> SUFFICES ASSUME NEW q \in Requests, Clean(AssetOf[q])' PROVE TaskOf(q)'
      BY DEF TaskInv
    <2>1. TaskOf(q) /\ Clean(AssetOf[q])
      BY <1>1 DEF Book, TaskInv, Clean
    <2>2. \A z \in Requests : AssetOf[z] = AssetOf[q] /\ arb'[z] \in NonClosed /\ arb'[q] \in NonClosed => z = q
      BY <1>5, <2>1 DEF TaskOf
    <2>3. CASE q # r
      BY <1>1, <1>2, <1>4, <2>1, <2>2, <2>3 DEF TaskOf
    <2>4. CASE q = r
      <3>1. arb[r] = "opening"
        BY <1>3, <2>1, <2>4
      <3>2. /\ \A c \in Closers : ~Running(c, r)'
            /\ \A p \in Products : leg'[<<r, p>>].status # "closed"
        BY <1>1, <1>4, <2>1, <2>4, <3>1 DEF TaskOf
      <3>3. QED
        BY <1>2, <2>2, <2>4, <3>2 DEF TaskOf
    <2>5. QED
      BY <2>3, <2>4
  <1>7. ProgressInv'
    BY <1>1, ProgressSame DEF Book
  <1>8. \A x \in Legs : SameLeg(x)
    BY <1>1 DEF SameLeg, AckedOn, StagedFill, CalledOn
  <1>9. BookInv'
    BY <1>1, <1>5, <1>8, BookSame DEF Book
  <1>10. QED
    BY <1>6, <1>7, <1>9 DEF Book

\* The rows of an open: a second arb of an asset disturbs it.
LEMMA BookPersist ==
  ASSUME Facts, Facts', Book, NEW r \in Requests, OpenPersist(r)
  PROVE  Book'
  <1> USE DEF book, worker, closing, outside, venue, faults
  <1> DEFINE s0 == AssetOf[r]
  <1>1. UNCHANGED <<order, job, staged, closer, spot, short>>
    BY DEF OpenPersist
  <1>2. CASE UNCHANGED <<arb, leg, opener, disturbed>>
    BY <1>1, <1>2, StillStep DEF AckedOn, StagedFill
  <1>3. CASE /\ Repeats(r) = {} /\ arb' = [arb EXCEPT ![r] = "opening"] /\ leg' = NewLegs(r)
             /\ opener' = [opener EXCEPT ![r].step = "spot"]
             /\ disturbed' = IF Holding(s0) = {} THEN disturbed ELSE disturbed \cup {s0}
    <2>1. arb[r] = "none" /\ disturbed \subseteq disturbed'
      BY <1>3 DEF Repeats
    <2>2. /\ arb'[r] = "opening" /\ \A q \in Requests \ {r} : arb'[q] = arb[q]
          /\ \A q \in Requests \ {r} : opener'[q] = opener[q]
          /\ \A x \in Legs : /\ x[1] = r => leg'[x].status = "pending" /\ leg'[x].filled = 0
                             /\ x[1] # r => leg'[x] = leg[x]
      BY <1>3 DEF NewLegs, Facts, IInv, Shape
    <2>3. \A c \in Closers : ~Running(c, r)
      BY <2>1 DEF Running, Facts, IInv, CloserInv
    <2>4. \A x \in Legs : x[1] = r => leg[x] = NoLeg /\ order[x].status = "none"
      <3>1. /\ leg[<<r, "spot">>] = NoLeg /\ leg[<<r, "perp">>] = NoLeg
            /\ order[<<r, "spot">>].status = "none" /\ order[<<r, "perp">>].status = "none"
        BY <2>1 DEF Facts, FillInv, IInv, RowInv
      <3>2. \A x \in Legs : x[1] = r => x = <<r, "spot">> \/ x = <<r, "perp">>
        BY LegsArePairs
      <3>3. QED
        BY <3>1, <3>2
    <2>5. Clean(s0)' => Clean(s0) /\ \A q \in Requests : AssetOf[q] = s0 => arb[q] \notin NonClosed
      BY <1>3 DEF Clean, Holding
    <2>6. \A c \in Closers, q \in Requests : Running(c, q)' <=> Running(c, q)
      BY <1>1 DEF Running
    <2>7. \A x \in Legs : x[1] # r => SameLeg(x)
      BY <1>1, <2>2 DEF SameLeg, AckedOn, StagedFill, CalledOn
    <2>8. \A q \in Requests, p \in Products : /\ <<q, p>> \in Legs
                                              /\ q # r => leg'[<<q, p>>] = leg[<<q, p>>]
                                              /\ q = r => leg'[<<q, p>>].status = "pending"
      BY <2>2 DEF Legs
    <2>9. TaskInv'
      <3> SUFFICES ASSUME NEW q \in Requests, Clean(AssetOf[q])' PROVE TaskOf(q)'
        BY DEF TaskInv
      <3>1. TaskOf(q)
        BY <2>1 DEF Book, TaskInv, Clean
      <3>2. ASSUME NEW z \in Requests, AssetOf[z] = AssetOf[q], arb'[z] \in NonClosed,
                   arb'[q] \in NonClosed
            PROVE  z = q
        <4>1. CASE z # r /\ q # r
          BY <2>2, <3>1, <3>2, <4>1 DEF TaskOf
        <4>2. CASE z = r /\ q # r
          BY <2>2, <2>5, <3>2, <4>2
        <4>3. CASE z # r /\ q = r
          BY <2>2, <2>5, <3>2, <4>3
        <4>4. QED
          BY <4>1, <4>2, <4>3
      <3>3. CASE q # r
        <4>1. "spot" \in Products /\ "perp" \in Products
          BY DEF Products
        <4>2. QED
          BY <1>1, <2>2, <2>6, <2>8, <3>1, <3>2, <3>3, <4>1 DEF TaskOf
      <3>4. CASE q = r
        BY <2>2, <2>3, <2>6, <2>8, <3>2, <3>4 DEF TaskOf
      <3>5. QED
        BY <3>3, <3>4
    <2>10. ProgressInv'
      <3>1. \A c \in Closers, q \in Requests : Running(c, q)' => q # r
        BY <2>3, <2>6
      <3>2. QED
        BY <1>1, <2>1, <2>8, <3>1, ProgressSame DEF Book
    <2>11. BookInv'
      <3> SUFFICES ASSUME NEW s \in Assets, Clean(s)' PROVE BookAt(s)'
        BY DEF BookInv
      <3>1. Clean(s) /\ BookAt(s)
        BY <2>1 DEF Clean, Book, BookInv
      <3>2. CASE s # s0
        <4>1. \A q \in Requests : AssetOf[q] = s => (arb'[q] \in NonClosed <=> arb[q] \in NonClosed)
          BY <2>2, <3>2
        <4>2. \A x \in Legs : AssetOf[x[1]] = s => SameLeg(x)
          BY <2>7, <3>2
        <4>3. QED
          BY <1>1, <3>1, <4>1, <4>2, BookAtSame
      <3>3. CASE s = s0
        <4>1. \A q \in Requests : AssetOf[q] = s => arb[q] \notin NonClosed
          BY <2>5, <3>3
        <4>2. Flat(s)
          <5>1. AllClosed(s)
            BY <4>1 DEF AllClosed, Facts, IInv, Shape
          <5>2. QED
            BY <3>1, <5>1 DEF BookAt
        <4>3. ~AllClosed(s)'
          BY <2>2, <3>3 DEF AllClosed
        <4>4. ASSUME NEW x \in Legs, AssetOf[x[1]] = s, arb'[x[1]] \in NonClosed PROVE Holds(x)'
          <5>1. x[1] = r
            BY <2>2, <4>1, <4>4, LegsArePairs
          <5>2. /\ leg'[x].status = "pending" /\ Carried(x)' = 0
            BY <2>2, <5>1 DEF Carried
          <5>3. order[x].status = "none"
            BY <2>4, <5>1
          <5>4. \A a \in Actors : ~AckedOn(a, x)'
            <6> SUFFICES ASSUME NEW a \in Actors, job[a].step = "acked", job[a].leg = x PROVE FALSE
              BY <1>1 DEF AckedOn
            <6>1. a # Worker
              BY <5>3, JobOrder
            <6>2. a = r /\ opener[r].step \in {"spot", "perp"}
              BY <5>1, <6>1, JobOrder
            <6>3. QED
              BY <2>1, <6>2 DEF Facts, IInv, RowInv
          <5>5. ~StagedFill(x)'
            BY <1>1, <5>3 DEF StagedFill, Facts, IInv, WorkerInv
          <5>6. \A c \in Closers : ~CalledOn(c, x)'
            BY <1>1, <2>3, <5>1, CalledSteps DEF CalledOn
          <5>7. Held(x)' <= Carried(x)' + DustOf(x)'
            <6>1. Dust(s)' = Dust(s)
              <7>1. \A y \in LegsOf(s, "spot") : leg'[y].status = "closed" <=> leg[y].status = "closed"
                BY <2>2, <2>4 DEF LegsOf, NoLeg
              <7>2. QED
                BY <7>1, DustSame
            <6>2. Held(x)' = Held(x) /\ DustOf(x)' = DustOf(x)
              BY <1>1, <4>4, <6>1 DEF Held, DustOf
            <6>3. Held(x) <= DustOf(x)
              BY <4>2, <4>4 DEF Flat, Held, DustOf, Legs, Products
            <6>4. Held(x) \in Nat /\ DustOf(x) \in Nat
              BY HeldNat
            <6>5. QED
              BY <5>2, <6>2, <6>3, <6>4
          <5>8. QED
            BY <5>2, <5>4, <5>5, <5>6, <5>7 DEF Holds
        <4>5. QED
          BY <4>3, <4>4 DEF BookAt
      <3>4. QED
        BY <3>2, <3>3
    <2>12. QED
      BY <2>9, <2>10, <2>11 DEF Book
  <1>4. QED
    BY <1>2, <1>3 DEF OpenPersist
----------------------------------------------------------------------------
(* The steps of a close. *)

\* A close that moves on; that has nothing left to write; that met an error.
LEMMA StepMoves ==
  ASSUME CloserInv, NEW c \in Closers, NEW s, closer' = [closer EXCEPT ![c].step = s]
  PROVE  /\ closer'[c].step = s /\ closer'[c].write = closer[c].write
         /\ closer'[c].errors = closer[c].errors /\ closer'[c].arb = closer[c].arb
         /\ \A d \in Closers \ {c} : closer'[d] = closer[d]
  <1>1. DOMAIN closer = Closers /\ DOMAIN closer[c] = {"step", "arb", "write", "errors"}
    BY DEF CloserInv, NoCloser
  <1>2. QED
    BY <1>1

\* The same, of a close that writes at its next commit.
LEMMA WriteMoves ==
  ASSUME CloserInv, NEW c \in Closers, NEW s, NEW w,
         closer' = [closer EXCEPT ![c].step = s, ![c].write = w]
  PROVE  /\ closer'[c].step = s /\ closer'[c].write = w
         /\ closer'[c].errors = closer[c].errors /\ closer'[c].arb = closer[c].arb
         /\ \A d \in Closers \ {c} : closer'[d] = closer[d]
  <1> DEFINE k1 == [closer[c] EXCEPT !.step = s]
             k2 == [k1 EXCEPT !.write = w]
  <1>1. DOMAIN closer = Closers /\ DOMAIN closer[c] = {"step", "arb", "write", "errors"}
    BY DEF CloserInv, NoCloser
  <1>2. /\ DOMAIN k1 = {"step", "arb", "write", "errors"} /\ k1.step = s
        /\ k1.arb = closer[c].arb /\ k1.errors = closer[c].errors
    BY <1>1
  <1>3. closer' = [closer EXCEPT ![c] = k2]
    BY <1>1
  <1> HIDE DEF k1
  <1>4. k2.step = s /\ k2.write = w /\ k2.arb = closer[c].arb /\ k2.errors = closer[c].errors
    BY <1>2
  <1> HIDE DEF k2
  <1>5. QED
    BY <1>1, <1>3, <1>4

Moves(c, s, w, e) == closer' = [closer EXCEPT ![c].step = s, ![c].write = w, ![c].errors = e]

\* The same, of a close that remembers an error, or none.
LEMMA ErrorsMoves ==
  ASSUME CloserInv, NEW c \in Closers, NEW s, NEW w, NEW e, Moves(c, s, w, e)
  PROVE  /\ closer'[c].step = s /\ closer'[c].write = w
         /\ closer'[c].errors = e /\ closer'[c].arb = closer[c].arb
         /\ \A d \in Closers \ {c} : closer'[d] = closer[d]
  <1> DEFINE k1 == [closer[c] EXCEPT !.step = s]
             k2 == [k1 EXCEPT !.write = w]
             k3 == [k2 EXCEPT !.errors = e]
  <1>1. DOMAIN closer = Closers /\ DOMAIN closer[c] = {"step", "arb", "write", "errors"}
    BY DEF CloserInv, NoCloser
  <1>2. DOMAIN k1 = {"step", "arb", "write", "errors"} /\ k1.step = s /\ k1.arb = closer[c].arb
    BY <1>1
  <1>3. closer' = [closer EXCEPT ![c] = k3]
    BY <1>1 DEF Moves
  <1> HIDE DEF k1
  <1>4. /\ DOMAIN k2 = {"step", "arb", "write", "errors"}
        /\ k2.step = s /\ k2.write = w /\ k2.arb = closer[c].arb
    BY <1>2
  <1> HIDE DEF k2
  <1>5. k3.step = s /\ k3.write = w /\ k3.arb = closer[c].arb /\ k3.errors = e
    BY <1>4
  <1> HIDE DEF k3
  <1>6. QED
    BY <1>1, <1>3, <1>5

\* What a call leaves in the close.
LEMMA CalledMoves ==
  ASSUME CloserInv, NEW c \in Closers, NEW p \in Products, NEW ok \in BOOLEAN, closer' = Called(c, p, ok)
  PROVE  LET old == leg[<<closer[c].arb, p>>].status  new == IF ok THEN "closed" ELSE "error" IN
         /\ closer'[c].step = CalledStep(p) /\ closer'[c].arb = closer[c].arb
         /\ closer'[c].write = IF new = old THEN "keep" ELSE new
         /\ closer'[c].errors <=> (closer[c].errors \/ ~ok)
         /\ \A d \in Closers \ {c} : closer'[d] = closer[d]
  <1> DEFINE old == leg[<<closer[c].arb, p>>].status
             new == IF ok THEN "closed" ELSE "error"
             w == IF new = old THEN "keep" ELSE new
             e == closer[c].errors \/ ~ok
  <1>1. closer' = [closer EXCEPT ![c].step = CalledStep(p), ![c].write = w, ![c].errors = e]
    BY DEF Called
  <1> HIDE DEF w, e
  <1>2. PICK f : f = e /\ Moves(c, CalledStep(p), w, f)
    BY <1>1, Zenon DEF Moves
  <1>3. /\ closer'[c].step = CalledStep(p) /\ closer'[c].write = w /\ closer'[c].errors = f
        /\ closer'[c].arb = closer[c].arb
        /\ \A d \in Closers \ {c} : closer'[d] = closer[d]
    BY <1>2, ErrorsMoves
  <1>4. QED
    BY <1>2, <1>3 DEF w, e

\* A close that moves on still runs, and others run as they did.
LEMMA StillRuns ==
  ASSUME NEW c \in Closers, closer[c].step \notin {"none", "checked"},
         closer'[c].arb = closer[c].arb, \A d \in Closers \ {c} : closer'[d] = closer[d]
  PROVE  \A d \in Closers, r \in Requests : Running(d, r)' => Running(d, r)
  BY DEF Running

\* The request is taken: an arb with unfinished business is disturbed.
LEMMA BookAccept ==
  ASSUME Facts, Facts', Book, NEW c \in Closers, CloseAccept(c)
  PROVE  Book'
  <1> USE DEF book, worker, closing, outside, venue, faults
  <1>0. PICK r \in Requests : r = closer[c].arb /\ arb[r] # "none"
    BY DEF CloseAccept, Facts, IInv, CloserInv
  <1>1. /\ closer[c].step = "checked"
        /\ UNCHANGED <<leg, order, opener, job, staged, spot, short>>
        /\ arb' = [arb EXCEPT ![r] = "closing"]
        /\ disturbed' = IF Unsettled(r) \/ arb[r] = "closed"
                        THEN disturbed \cup {AssetOf[r]} ELSE disturbed
        /\ closer' = [closer EXCEPT ![c].step = "spot"]
    BY <1>0 DEF CloseAccept
  <1>2. /\ arb'[r] = "closing" /\ \A q \in Requests \ {r} : arb'[q] = arb[q]
        /\ disturbed \subseteq disturbed'
    BY <1>1 DEF Facts, IInv, Shape
  <1>3. /\ closer'[c].step = "spot" /\ closer'[c].arb = r
        /\ \A d \in Closers \ {c} : closer'[d] = closer[d]
    BY <1>0, <1>1, StepMoves DEF Facts, IInv
  <1>4. Clean(AssetOf[r])' => Clean(AssetOf[r]) /\ ~Unsettled(r) /\ arb[r] # "closed"
    BY <1>1 DEF Clean
  <1>5. Clean(AssetOf[r])' => /\ opener[r].step = "none" /\ arb[r] \in NonClosed
                              /\ \A p \in Products : order[<<r, p>>].status # "retrying"
                              /\ \A d \in Closers : ~Running(d, r)
    <2>1. arb[r] # "closed" => arb[r] \in NonClosed
      BY <1>0 DEF Facts, IInv, Shape
    <2>2. opener[r] = NoOpener => opener[r].step = "none"
      BY DEF NoOpener
    <2>3. QED
      BY <1>4, <2>1, <2>2 DEF Unsettled, Running
  <1>6. \A d \in Closers, q \in Requests : Running(d, q)' <=> Running(d, q) \/ (d = c /\ q = r)
    BY <1>0, <1>1, <1>3 DEF Running
  <1>7. TaskInv'
    <2> SUFFICES ASSUME NEW q \in Requests, Clean(AssetOf[q])' PROVE TaskOf(q)'
      BY DEF TaskInv
    <2>1. TaskOf(q)
      BY <1>2 DEF Book, TaskInv, Clean
    <2>2. \A z \in Requests : AssetOf[z] = AssetOf[q] /\ arb'[z] \in NonClosed /\ arb'[q] \in NonClosed => z = q
      BY <1>2, <1>5, <2>1 DEF TaskOf
    <2>3. CASE q # r
      BY <1>1, <1>2, <1>6, <2>1, <2>2, <2>3 DEF TaskOf
    <2>4. CASE q = r
      <3>1. "spot" \in Products /\ "perp" \in Products
        BY DEF Products
      <3>2. QED
        BY <1>1, <1>2, <1>5, <1>6, <2>1, <2>2, <2>4, <3>1 DEF TaskOf
    <2>5. QED
      BY <2>3, <2>4
  <1>8. ProgressInv'
    <2> SUFFICES ASSUME NEW d \in Closers, NEW q \in Requests, Clean(AssetOf[q])', Running(d, q)'
                 PROVE  ProgressOf(d, q)'
      BY DEF ProgressInv
    <2>1. CASE d = c
      BY <1>3, <2>1 DEF ProgressOf, CalledStep
    <2>2. CASE d # c
      <3>1. ProgressOf(d, q)
        BY <1>2, <1>6, <2>2 DEF Book, ProgressInv, Clean
      <3>2. QED
        BY <1>1, <1>3, <2>2, <3>1 DEF ProgressOf
    <2>3. QED
      BY <2>1, <2>2
  <1>9. \A x \in Legs : SameLeg(x)
    <2>1. \A d \in Closers, x \in Legs : d # c => (CalledOn(d, x)' <=> CalledOn(d, x))
      BY <1>3 DEF CalledOn
    <2>2. \A x \in Legs : ~CalledOn(c, x) /\ ~CalledOn(c, x)'
      BY <1>1, <1>3, CalledSteps
    <2>3. QED
      BY <1>1, <1>3, <2>1, <2>2 DEF SameLeg, AckedOn, StagedFill
  <1>10. BookInv'
    <2>1. \A q \in Requests : Clean(AssetOf[q])' => (arb'[q] \in NonClosed <=> arb[q] \in NonClosed)
      BY <1>2, <1>5 DEF NonClosed
    <2>2. QED
      BY <1>1, <1>2, <1>9, <2>1, BookSame DEF Book
  <1>11. QED
    BY <1>7, <1>8, <1>10 DEF Book

\* A leg that is flat already, and an exception before a call.
LEMMA BookPass ==
  ASSUME Facts, Facts', Book, NEW c \in Closers, NEW p \in Products,
         \/ SkipClosedLeg(c, p)
         \/ /\ AbortClose(c)
            /\ closer' = [closer EXCEPT ![c].step = AfterLeg(p), ![c].write = "keep", ![c].errors = TRUE]
            /\ closer[c].step \in {p, CalledStep(p)}
            /\ disturbed' = IF closer[c].step = p THEN disturbed
                            ELSE disturbed \cup {AssetOf[closer[c].arb]}
  PROVE  Book'
  <1> USE DEF book, worker, closing, outside, venue, faults
  <1>0. PICK r \in Requests : r = closer[c].arb
    BY DEF SkipClosedLeg, Products, CalledStep, Facts, IInv, CloserInv
  <1>1. /\ UNCHANGED <<arb, leg, order, opener, job, staged, spot, short>>
        /\ closer[c].step \in {p, CalledStep(p)} /\ p \in {"spot", "perp"}
        /\ disturbed \subseteq disturbed'
    BY DEF SkipClosedLeg, AbortClose, Abort, Products
  <1>2. /\ closer'[c].step = AfterLeg(p) /\ closer'[c].arb = r
        /\ \A d \in Closers \ {c} : closer'[d] = closer[d]
        /\ ~closer'[c].errors => ~closer[c].errors /\ leg[<<r, p>>].status = "closed" /\ closer[c].step = p
    <2>1. CASE SkipClosedLeg(c, p)
      BY <1>0, <2>1, StepMoves DEF SkipClosedLeg, Facts, IInv
    <2>2. CASE closer' = [closer EXCEPT ![c].step = AfterLeg(p), ![c].write = "keep", ![c].errors = TRUE]
      <3>1. PICK e : e = TRUE /\ Moves(c, AfterLeg(p), "keep", e)
        BY <2>2, Zenon DEF Moves
      <3>2. closer'[c].step = AfterLeg(p) /\ closer'[c].errors = e /\ closer'[c].arb = closer[c].arb
            /\ \A d \in Closers \ {c} : closer'[d] = closer[d]
        <4>1. CloserInv
          BY DEF Facts, IInv
        <4>2. QED
          BY <3>1, <4>1, ErrorsMoves
      <3>3. QED
        BY <1>0, <3>1, <3>2
    <2>3. QED
      BY <2>1, <2>2
  <1>3. /\ Running(c, r) /\ \A d \in Closers, q \in Requests : Running(d, q)' => Running(d, q)
        /\ \A q \in Requests : Running(c, q) => q = r
    <2>1. closer[c].step \notin {"none", "checked"}
      BY <1>1 DEF CalledStep
    <2>2. QED
      BY <1>0, <1>2, <2>1, StillRuns DEF Running
  <1>4. TaskInv'
    BY <1>1, <1>3, TaskSame DEF Book
  <1>5. ProgressInv'
    <2> SUFFICES ASSUME NEW d \in Closers, NEW q \in Requests, Clean(AssetOf[q])', Running(d, q)'
                 PROVE  ProgressOf(d, q)'
      BY DEF ProgressInv
    <2>1. ProgressOf(d, q)
      BY <1>1, <1>3 DEF Book, ProgressInv, Clean
    <2>2. CASE d # c
      BY <1>1, <1>2, <2>1, <2>2 DEF ProgressOf
    <2>3. CASE d = c
      <3>1. q = r
        BY <1>3, <2>3
      <3>2. CASE p = "spot"
        BY <1>1, <1>2, <2>3, <3>1, <3>2 DEF ProgressOf, AfterLeg, CalledStep
      <3>3. CASE p = "perp"
        BY <1>1, <1>2, <2>1, <2>3, <3>1, <3>3 DEF ProgressOf, AfterLeg, CalledStep
      <3>4. QED
        BY <1>1, <3>2, <3>3
    <2>4. QED
      BY <2>2, <2>3
  <1>6. \A x \in Legs : Clean(AssetOf[x[1]])' => SameLeg(x)
    <2> SUFFICES ASSUME NEW x \in Legs, Clean(AssetOf[x[1]])' PROVE SameLeg(x)
      OBVIOUS
    <2>1. \A d \in Closers : d # c => (CalledOn(d, x)' <=> CalledOn(d, x))
      BY <1>2 DEF CalledOn
    <2>2. ~CalledOn(c, x)'
      BY <1>2, CalledSteps DEF AfterLeg
    <2>3. ~CalledOn(c, x)
      <3> SUFFICES ASSUME CalledOn(c, x) PROVE FALSE
        OBVIOUS
      <3>1. closer[c].step \in {"spot_called", "perp_called"} /\ x[1] = r
        BY <1>0, CalledSteps DEF CalledOn
      <3>2. closer[c].step # p
        BY <1>1, <3>1
      <3>3. disturbed' = disturbed \cup {AssetOf[r]}
        BY <1>0, <3>2 DEF SkipClosedLeg
      <3>4. QED
        BY <3>1, <3>3 DEF Clean
    <2>4. QED
      BY <1>1, <1>2, <2>1, <2>2, <2>3 DEF SameLeg, AckedOn, StagedFill
  <1>7. BookInv'
    BY <1>1, <1>6, BookSame DEF Book
  <1>8. QED
    BY <1>4, <1>5, <1>7 DEF Book

\* A close whose task an exception ended stays where it was.
LEMMA BookGone ==
  ASSUME Facts, Facts', Book, NEW c \in Closers, AbortClose(c), closer[c].step = "finish",
         closer' = [closer EXCEPT ![c] = NoCloser], UNCHANGED disturbed
  PROVE  Book'
  <1> USE DEF book, worker, closing, outside, venue, faults
  <1>1. UNCHANGED <<arb, leg, order, opener, job, staged, spot, short>>
    BY DEF AbortClose
  <1>2. closer'[c].step = "none" /\ \A d \in Closers \ {c} : closer'[d] = closer[d]
    BY DEF NoCloser, Facts, IInv, CloserInv
  <1>3. \A x \in Legs : ~CalledOn(c, x)
    BY CalledSteps
  <1>4. QED
    BY <1>1, <1>2, <1>3, StillStep DEF AckedOn, StagedFill

\* A call of a close: whatever the answer, the venue holds no more of the leg, and when the leg is
\* said to be closed, dust.
LEMMA BookClosing ==
  ASSUME Facts, Facts', Book, NEW c \in Closers, NEW r \in Requests, r = closer[c].arb,
         NEW p \in Products, closer[c].step = p, leg[<<r, p>>].status # "closed",
         NEW ok \in BOOLEAN, closer' = Called(c, p, ok),
         UNCHANGED <<arb, leg, order, opener, job, staged>>, disturbed \subseteq disturbed',
         \A s \in Assets \ {AssetOf[r]} : spot'[s] = spot[s] /\ short'[s] = short[s],
         p = "spot" => short' = short, p = "perp" => spot' = spot,
         Clean(AssetOf[r])' => /\ Held(<<r, p>>)' <= Held(<<r, p>>)
                               /\ ok => Held(<<r, p>>)' <= DustOf(<<r, p>>) + Grain(<<r, p>>)
  PROVE  Book'
  <1>0. PICK x \in Legs : x = <<r, p>> /\ x[1] = r /\ x[2] = p
    BY DEF Legs
  <1>1. LET old == leg[x].status  new == IF ok THEN "closed" ELSE "error" IN
        /\ closer'[c].step = CalledStep(p) /\ closer'[c].arb = r
        /\ closer'[c].write = IF new = old THEN "keep" ELSE new
        /\ closer'[c].errors <=> (closer[c].errors \/ ~ok)
        /\ \A d \in Closers \ {c} : closer'[d] = closer[d]
    <2>1. CloserInv
      BY DEF Facts, IInv
    <2>2. QED
      BY <1>0, <2>1, CalledMoves
  <1>2. /\ closer'[c].write = "closed" => ok
        /\ closer'[c].write # "closed" => closer'[c].errors
        /\ closer'[c].write = "keep" => leg[x].status = "error"
        /\ ~closer'[c].errors => ~closer[c].errors
    BY <1>0, <1>1
  <1>3. /\ Running(c, r) /\ \A d \in Closers, q \in Requests : Running(d, q)' => Running(d, q)
        /\ \A q \in Requests : Running(c, q) => q = r
    <2>1. closer[c].step \notin {"none", "checked"}
      BY DEF Products
    <2>2. QED
      BY <1>1, <2>1, StillRuns DEF Running
  <1>4. TaskInv'
    BY <1>3, TaskSame DEF Book
  <1>5. ProgressInv'
    <2> SUFFICES ASSUME NEW d \in Closers, NEW q \in Requests, Clean(AssetOf[q])', Running(d, q)'
                 PROVE  ProgressOf(d, q)'
      BY DEF ProgressInv
    <2>1. ProgressOf(d, q)
      BY <1>3 DEF Book, ProgressInv, Clean
    <2>2. CASE d # c
      BY <1>1, <2>1, <2>2 DEF ProgressOf
    <2>3. CASE d = c
      <3>1. q = r
        BY <1>3, <2>3
      <3>2. CASE p = "spot"
        BY <1>0, <1>1, <1>2, <2>3, <3>1, <3>2 DEF ProgressOf, CalledStep, Products
      <3>3. CASE p = "perp"
        BY <1>0, <1>1, <1>2, <2>1, <2>3, <3>1, <3>3 DEF ProgressOf, CalledStep, Products
      <3>4. QED
        BY <3>2, <3>3 DEF Products
    <2>4. QED
      BY <2>2, <2>3
  <1>6. ASSUME Clean(AssetOf[r])' PROVE Holds(x)' /\ arb[r] \in NonClosed
    <2>1. /\ arb[r] \in NonClosed /\ \A d \in Closers : Running(d, r) => d = c
          /\ \A a \in Actors : ~AckedOn(a, x) /\ ~StagedFill(x)
      BY <1>0, <1>3, <1>6, RunningArb DEF Book, Clean, NonClosed, Actors
    <2>2. Holds(x)
      BY <1>0, <1>6, <2>1 DEF Book, BookInv, BookAt, Clean, Assets
    <2>3. ~StagedFill(x) /\ \A a \in Actors : ~AckedOn(a, x)
      BY <2>1 DEF Actors
    <2>4. /\ \A a \in Actors : ~AckedOn(a, x)'
          /\ ~StagedFill(x)' /\ Carried(x)' = Carried(x) /\ DustOf(x)' = DustOf(x)
      BY <2>3 DEF AckedOn, StagedFill, Carried, DustOf, Dust
    <2>5. CalledOn(c, x)' /\ \A d \in Closers : CalledOn(d, x)' => d = c
      <3>1. \A d \in Closers : CalledOn(d, x)' => closer'[d].step \in {"spot_called", "perp_called"}
        BY CalledSteps
      <3>2. ASSUME NEW d \in Closers, CalledOn(d, x)', d # c PROVE FALSE
        <4>1. CalledOn(d, x)
          BY <1>1, <3>2 DEF CalledOn
        <4>2. Running(d, r)
          BY <1>0, <4>1, CalledSteps
        <4>3. QED
          BY <2>1, <3>2, <4>2
      <3>3. QED
        BY <1>0, <1>1, <3>2 DEF CalledOn
    <2>6. /\ Held(x) \in Nat /\ Held(x)' \in Nat /\ DustOf(x) \in Nat /\ Grain(x) \in Nat
          /\ Carried(x) \in Nat /\ Grain(x)' = Grain(x)
      BY HeldNat
    <2>7. Held(x)' <= Held(x) /\ (ok => Held(x)' <= DustOf(x) + Grain(x))
      BY <1>0, <1>6
    <2>8. Held(x) <= Carried(x) + DustOf(x)
      BY <2>2, <2>3 DEF Holds
    <2>9. Held(x)' <= Carried(x)' + DustOf(x)'
      BY <2>4, <2>6, <2>7, <2>8
    <2>10. \A d \in Closers : CalledOn(d, x)' /\ closer'[d].write = "closed" =>
              Held(x)' <= DustOf(x)' + Grain(x)'
      BY <1>2, <2>4, <2>5, <2>6, <2>7
    <2>11. QED
      BY <2>1, <2>4, <2>5, <2>9, <2>10 DEF Holds
  <1>7. \A y \in Legs \ {x} : SameLeg(y)
    <2> SUFFICES ASSUME NEW y \in Legs \ {x} PROVE SameLeg(y)
      OBVIOUS
    <2>1. \A d \in Closers : d # c => (CalledOn(d, y)' <=> CalledOn(d, y))
      BY <1>1 DEF CalledOn
    <2>2. ~CalledOn(c, y)
      BY CalledSteps DEF Products
    <2>3. ~CalledOn(c, y)'
      BY <1>0, <1>1 DEF CalledOn, CalledStep, Legs, Products
    <2>4. QED
      BY <1>1, <2>1, <2>2, <2>3 DEF SameLeg, AckedOn, StagedFill
  <1>8. BookInv'
    BY <1>0, <1>6, <1>7, BookOne DEF Book
  <1>9. QED
    BY <1>4, <1>5, <1>8 DEF Book

\* The sell of a close.
LEMMA BookSell ==
  ASSUME Facts, Facts', Book, NEW c \in Closers, CloseSpot(c)
  PROVE  Book'
  <1> USE DEF book, worker, closing, outside, venue, faults
  <1>0. PICK r \in Requests : r = closer[c].arb
    BY DEF CloseSpot, Facts, IInv, CloserInv
  <1>1. PICK s \in Assets : s = AssetOf[r]
    BY DEF Assets
  <1>2. PICK x \in Legs : x = <<r, "spot">>
    BY DEF Legs, Products
  <1> DEFINE free == IF leg[x].filled < spot[s] THEN leg[x].filled ELSE spot[s]
             qty == SnapDown(free, SpotStep)
  <1>3. /\ closer[c].step = "spot" /\ leg[x].status # "closed"
        /\ UNCHANGED <<arb, leg, order, opener, job, staged, short>> /\ disturbed \subseteq disturbed'
        /\ \/ closer' = Called(c, "spot", TRUE) /\ spot' = [spot EXCEPT ![s] = @ - qty]
           \/ /\ closer' = Called(c, "spot", TRUE) /\ s \in disturbed'
              /\ \E sold : spot' = [spot EXCEPT ![s] = @ - sold]
           \/ /\ closer' = Called(c, "spot", FALSE)
              /\ spot' = spot \/ spot' = [spot EXCEPT ![s] = @ - qty]
    BY <1>0, <1>1, <1>2 DEF CloseSpot
  <1>4. spot \in [Assets -> Nat] /\ spot[s] \in Nat /\ leg[x].filled \in Nat
    BY DEF Facts, CountInv
  <1>5. free \in Nat /\ free <= spot[s] /\ (free = leg[x].filled \/ free = spot[s])
    <2>1. ASSUME NEW m \in Nat, NEW n \in Nat
          PROVE  LET f == IF m < n THEN m ELSE n IN f \in Nat /\ f <= n /\ (f = m \/ f = n)
      OBVIOUS
    <2>2. QED
      BY <1>4, <2>1
  <1>6. qty \in Nat /\ qty <= free /\ free < qty + SpotStep
    <2> HIDE DEF free
    <2> QED
      BY <1>5, SnapDownNear
  <1> HIDE DEF free, qty
  <1>7. \A z \in Assets \ {s} : spot'[z] = spot[z] /\ short'[z] = short[z]
    BY <1>3, <1>4
  <1>8. Held(x) = spot[s] /\ Held(x)' = spot'[s] /\ Grain(x) = SpotStep - 1
    BY <1>1, <1>2 DEF Held, Grain
  <1>9. Clean(s) => spot[s] <= leg[x].filled + DustOf(x)
    <2> SUFFICES ASSUME Clean(s) PROVE spot[s] <= leg[x].filled + DustOf(x)
      OBVIOUS
    <2>1. Running(c, r)
      BY <1>0, <1>3 DEF Running
    <2>2. arb[r] \in NonClosed /\ ~StagedFill(x) /\ \A a \in Actors : ~AckedOn(a, x)
      BY <1>1, <1>2, <2>1, RunningArb DEF Book, NonClosed, Products
    <2>3. Holds(x)
      BY <1>1, <1>2, <2>2 DEF Book, BookInv, BookAt
    <2>4. QED
      BY <1>3, <1>8, <2>2, <2>3 DEF Holds, Carried
  <1>10. DustOf(x) \in Nat /\ SpotStep \in Nat
    BY HeldNat, GridAssumption
  <1>11. Clean(s)' => Clean(s) /\ s \notin disturbed'
    BY <1>3 DEF Clean
  <1>12. spot' = [spot EXCEPT ![s] = @ - qty] => spot'[s] = spot[s] - qty
    BY <1>4
  <1>13. "spot" \in Products /\ "spot" # "perp" /\ TRUE \in BOOLEAN /\ FALSE \in BOOLEAN
    BY DEF Products
  <1>14. CASE closer' = Called(c, "spot", TRUE)
    <2>1. Clean(s)' => Held(x)' <= Held(x) /\ Held(x)' <= DustOf(x) + Grain(x)
      <3> SUFFICES ASSUME Clean(s)' PROVE Held(x)' <= Held(x) /\ Held(x)' <= DustOf(x) + Grain(x)
        OBVIOUS
      <3>1. \/ closer' = Called(c, "spot", TRUE) /\ spot'[s] = spot[s] - qty
            \/ closer' = Called(c, "spot", FALSE)
        BY <1>3, <1>11, <1>12
      <3>2. closer' # Called(c, "spot", FALSE)
        <4>1. CloserInv
          BY DEF Facts, IInv
        <4>2. closer'[c].write = IF "closed" = leg[x].status THEN "keep" ELSE "closed"
          BY <1>0, <1>2, <1>13, <1>14, <4>1, CalledMoves
        <4>3. closer' = Called(c, "spot", FALSE) =>
                 closer'[c].write = IF "error" = leg[x].status THEN "keep" ELSE "error"
          BY <1>0, <1>2, <1>13, <4>1, CalledMoves
        <4>4. QED
          BY <1>3, <4>2, <4>3
      <3>3. spot'[s] = spot[s] - qty /\ spot[s] <= leg[x].filled + DustOf(x)
        BY <1>9, <1>11, <3>1, <3>2
      <3>4. QED
        BY <1>4, <1>5, <1>6, <1>8, <1>10, <3>3
    <2>2. QED
      BY <1>0, <1>1, <1>2, <1>3, <1>7, <1>13, <1>14, <2>1, BookClosing
  <1>15. CASE closer' = Called(c, "spot", FALSE)
    <2>1. Clean(s)' => Held(x)' <= Held(x)
      <3>1. Clean(s)' => spot'[s] = spot[s] \/ spot'[s] = spot[s] - qty
        BY <1>3, <1>11, <1>12
      <3>2. QED
        BY <1>4, <1>6, <1>8, <3>1
    <2>2. QED
      BY <1>0, <1>1, <1>2, <1>3, <1>7, <1>13, <1>15, <2>1, BookClosing
  <1>16. QED
    BY <1>3, <1>14, <1>15

\* The buy of a close.
LEMMA BookCover ==
  ASSUME Facts, Facts', Book, NEW c \in Closers, ClosePerp(c)
  PROVE  Book'
  <1> USE DEF book, worker, closing, outside, venue, faults
  <1>0. PICK r \in Requests : r = closer[c].arb
    BY DEF ClosePerp, Facts, IInv, CloserInv
  <1>1. PICK s \in Assets : s = AssetOf[r]
    BY DEF Assets
  <1>2. PICK x \in Legs : x = <<r, "perp">>
    BY DEF Legs, Products
  <1>3. /\ closer[c].step = "perp" /\ leg[x].status # "closed"
        /\ UNCHANGED <<arb, leg, order, opener, job, staged, spot>> /\ disturbed \subseteq disturbed'
        /\ \/ /\ closer' = Called(c, "perp", TRUE)
              /\ \/ short' = [short EXCEPT ![s] = 0]
                 \/ s \in disturbed' /\ \E f : short' = [short EXCEPT ![s] = @ - f]
           \/ /\ closer' = Called(c, "perp", FALSE)
              /\ short' = short \/ short' = [short EXCEPT ![s] = 0]
    BY <1>0, <1>1, <1>2 DEF ClosePerp
  <1>4. short \in [Assets -> Nat] /\ short[s] \in Nat
    BY DEF Facts, CountInv
  <1>5. \A z \in Assets \ {s} : spot'[z] = spot[z] /\ short'[z] = short[z]
    BY <1>3, <1>4
  <1>6. Held(x) = short[s] /\ Held(x)' = short'[s] /\ DustOf(x) = 0 /\ Grain(x) = 0
    BY <1>1, <1>2 DEF Held, Grain, DustOf
  <1>7. short' = [short EXCEPT ![s] = 0] => short'[s] = 0
    BY <1>4
  <1>8. Clean(s)' => s \notin disturbed'
    BY DEF Clean
  <1>9. "perp" \in Products /\ TRUE \in BOOLEAN /\ FALSE \in BOOLEAN
    BY DEF Products
  <1>10. CASE /\ closer' = Called(c, "perp", TRUE)
              /\ \/ short' = [short EXCEPT ![s] = 0]
                 \/ s \in disturbed' /\ \E f : short' = [short EXCEPT ![s] = @ - f]
    <2>1. Clean(s)' => Held(x)' <= Held(x) /\ Held(x)' <= DustOf(x) + Grain(x)
      BY <1>4, <1>6, <1>7, <1>8, <1>10
    <2>2. QED
      BY <1>0, <1>1, <1>2, <1>3, <1>5, <1>9, <1>10, <2>1, BookClosing
  <1>11. CASE /\ closer' = Called(c, "perp", FALSE)
              /\ short' = short \/ short' = [short EXCEPT ![s] = 0]
    <2>1. Clean(s)' => Held(x)' <= Held(x)
      BY <1>4, <1>6, <1>7, <1>11
    <2>2. QED
      BY <1>0, <1>1, <1>2, <1>3, <1>5, <1>9, <1>11, <2>1, BookClosing
  <1>12. QED
    BY <1>3, <1>10, <1>11

\* The commit of a leg's close: what is closed left less than a step of the grid.
LEMMA BookCommitClosed ==
  ASSUME Facts, Facts', Book, NEW c \in Closers, NEW p \in Products, CommitClosedLeg(c, p)
  PROVE  Book'
  <1> USE DEF book, worker, closing, outside, venue, faults
  <1>0. PICK r \in Requests : r = closer[c].arb
    BY DEF CommitClosedLeg, CalledStep, Facts, IInv, CloserInv
  <1>1. PICK x \in Legs : x = <<r, p>> /\ x[1] = r /\ x[2] = p
    <2>1. <<r, p>> \in Legs
      BY DEF Legs
    <2>2. QED
      BY <2>1
  <1>2. /\ closer[c].step = CalledStep(p)
        /\ UNCHANGED <<arb, order, opener, job, staged, spot, short, disturbed>>
        /\ leg' = IF closer[c].write = "keep" THEN leg
                  ELSE [leg EXCEPT ![x].status = closer[c].write]
        /\ closer' = [closer EXCEPT ![c].step = AfterLeg(p), ![c].write = "keep"]
    BY <1>0, <1>1 DEF CommitClosedLeg
  <1>3. /\ closer'[c].step = AfterLeg(p) /\ closer'[c].errors = closer[c].errors
        /\ closer'[c].arb = r
        /\ \A d \in Closers \ {c} : closer'[d] = closer[d]
    BY <1>0, <1>2, WriteMoves DEF Facts, IInv
  <1>4. /\ leg'[x].filled = leg[x].filled
        /\ leg'[x].status = IF closer[c].write = "keep" THEN leg[x].status ELSE closer[c].write
        /\ \A y \in Legs \ {x} : leg'[y] = leg[y]
    <2>1. leg \in [Legs -> RowType]
      BY DEF Facts, IInv, Shape
    <2>2. CASE closer[c].write = "keep"
      BY <1>2, <2>2
    <2>3. CASE closer[c].write # "keep"
      BY <1>2, <2>1, <2>3, StatusRow
    <2>4. QED
      BY <2>2, <2>3
  <1>5. /\ Running(c, r) /\ \A d \in Closers, q \in Requests : Running(d, q)' => Running(d, q)
        /\ \A q \in Requests : Running(c, q) => q = r
    <2>1. closer[c].step \notin {"none", "checked"}
      BY <1>2 DEF CalledStep
    <2>2. QED
      BY <1>0, <1>3, <2>1, StillRuns DEF Running
  <1>6. closer[c].write \in {"keep", "closed", "error"}
    BY DEF Facts, IInv, CloserInv
  <1>7. ASSUME Clean(AssetOf[r])
        PROVE  /\ arb[r] = "closing" /\ \A d \in Closers : Running(d, r) => d = c
               /\ ~StagedFill(x) /\ order[x].status # "retrying"
               /\ \A a \in Actors : ~AckedOn(a, x)
               /\ leg[x].status # "closed" /\ leg'[x].status # "success"
               /\ closer[c].write # "closed" => closer[c].errors
               /\ Holds(x)
    <2>1. /\ arb[r] = "closing" /\ \A d \in Closers : Running(d, r) => d = c
          /\ ~StagedFill(x) /\ order[x].status # "retrying"
          /\ \A a \in Actors : ~AckedOn(a, x)
      BY <1>1, <1>5, <1>7, RunningArb DEF Book
    <2>2. ProgressOf(c, r)
      BY <1>5, <1>7 DEF Book, ProgressInv
    <2>3. /\ leg[x].status # "closed"
          /\ closer[c].write # "closed" => closer[c].errors
          /\ closer[c].write = "keep" => leg[x].status = "error"
      BY <1>1, <1>2, <2>2 DEF ProgressOf
    <2>4. Holds(x)
      BY <1>1, <1>7, <2>1 DEF Book, BookInv, BookAt, Assets, NonClosed
    <2>5. QED
      BY <1>4, <1>6, <2>1, <2>3, <2>4
  <1>8. \A q \in Requests, z \in Products : /\ <<q, z>> \in Legs
                                            /\ <<q, z>> # x => leg'[<<q, z>>] = leg[<<q, z>>]
                                            /\ q # r => <<q, z>> # x
    BY <1>1, <1>4 DEF Legs
  <1>9. TaskInv'
    <2> SUFFICES ASSUME NEW q \in Requests, Clean(AssetOf[q])' PROVE TaskOf(q)'
      BY DEF TaskInv
    <2>1. TaskOf(q) /\ Clean(AssetOf[q])
      BY <1>2 DEF Book, TaskInv, Clean
    <2>2. ASSUME NEW z \in Products, leg'[<<q, z>>].status = "closed"
          PROVE  arb'[q] \in {"closing", "error", "closed"} /\ order'[<<q, z>>].status # "retrying"
      <3>1. CASE <<q, z>> = x
        BY <1>1, <1>2, <1>7, <2>1, <3>1
      <3>2. CASE <<q, z>> # x
        BY <1>2, <1>8, <2>1, <2>2, <3>2 DEF TaskOf
      <3>3. QED
        BY <3>1, <3>2
    <2>3. arb'[q] = "closed" => leg'[<<q, "spot">>].status = "closed" /\ leg'[<<q, "perp">>].status = "closed"
      <3>1. arb'[q] = "closed" => q # r
        BY <1>2, <1>7, <2>1
      <3>2. QED
        BY <1>2, <1>8, <2>1, <3>1 DEF TaskOf, Products
    <2>4. QED
      BY <1>2, <1>5, <2>1, <2>2, <2>3 DEF TaskOf
  <1>10. ProgressInv'
    <2> SUFFICES ASSUME NEW d \in Closers, NEW q \in Requests, Clean(AssetOf[q])', Running(d, q)'
                 PROVE  ProgressOf(d, q)'
      BY DEF ProgressInv
    <2>1. ProgressOf(d, q) /\ Clean(AssetOf[q]) /\ Running(d, q)
      BY <1>2, <1>5 DEF Book, ProgressInv, Clean
    <2>2. CASE d # c
      <3>1. q # r
        BY <1>7, <2>1, <2>2
      <3>2. \A z \in Products : leg'[<<q, z>>] = leg[<<q, z>>]
        BY <1>8, <3>1
      <3>3. QED
        BY <1>3, <2>1, <2>2, <3>2 DEF ProgressOf, Products
    <2>3. CASE d = c
      <3>1. q = r
        BY <1>5, <2>1, <2>3
      <3>2. ~closer'[c].errors => leg'[x].status = "closed"
        BY <1>3, <1>4, <1>7, <2>1, <3>1
      <3>3. CASE p = "spot"
        BY <1>1, <1>3, <2>3, <3>1, <3>2, <3>3 DEF ProgressOf, AfterLeg, CalledStep
      <3>4. CASE p = "perp"
        <4>1. leg'[<<r, "spot">>] = leg[<<r, "spot">>]
          BY <1>1, <1>8, <3>4 DEF Products
        <4>2. ~closer'[c].errors => leg'[<<r, "spot">>].status = "closed"
          BY <1>2, <1>3, <2>1, <2>3, <3>1, <3>4, <4>1 DEF ProgressOf, CalledStep
        <4>3. QED
          BY <1>1, <1>3, <2>3, <3>1, <3>2, <3>4, <4>2 DEF ProgressOf, AfterLeg, CalledStep
      <3>5. QED
        BY <3>3, <3>4 DEF Products
    <2>4. QED
      BY <2>2, <2>3
  <1>11. ASSUME NEW y \in Legs \ {x} PROVE SameLeg(y)
    <2>1. \A d \in Closers : d # c => (CalledOn(d, y)' <=> CalledOn(d, y))
      BY <1>3 DEF CalledOn
    <2>2. ~CalledOn(c, y)
      BY <1>0, <1>1, <1>2 DEF CalledOn, CalledStep, Legs, Products
    <2>3. ~CalledOn(c, y)'
      BY <1>3, CalledSteps DEF AfterLeg
    <2>4. QED
      BY <1>2, <1>3, <1>4, <2>1, <2>2, <2>3 DEF SameLeg, AckedOn, StagedFill
  <1>12. ASSUME Clean(AssetOf[r])' PROVE Holds(x)' /\ arb[r] \in NonClosed
    <2>1. /\ Clean(AssetOf[r]) /\ arb[r] \in NonClosed
          /\ Held(x)' = Held(x)
      BY <1>2, <1>7, <1>12 DEF Clean, NonClosed, Held
    <2>2. /\ Held(x) \in Nat /\ DustOf(x) \in Nat /\ DustOf(x)' \in Nat /\ Grain(x) \in Nat
          /\ Carried(x) \in Nat
      BY HeldNat
    <2>3. /\ \A a \in Actors : ~AckedOn(a, x)'
          /\ ~StagedFill(x)' /\ leg'[x].status # "success"
      BY <1>2, <1>7, <2>1 DEF AckedOn, StagedFill
    <2>4. ASSUME NEW d \in Closers, CalledOn(d, x)' PROVE FALSE
      <3>1. d # c
        BY <1>3, <2>4, CalledSteps DEF AfterLeg
      <3>2. CalledOn(d, x)
        BY <1>3, <2>4, <3>1 DEF CalledOn
      <3>3. QED
        BY <1>1, <1>7, <2>1, <3>1, <3>2, CalledSteps
    <2>5. CASE closer[c].write = "closed"
      <3>1. leg'[x].status = "closed" /\ leg[x].status # "closed" /\ Carried(x)' = 0
        BY <1>4, <1>7, <2>1, <2>5 DEF Carried
      <3>2. CalledOn(c, x)
        BY <1>0, <1>1, <1>2 DEF CalledOn
      <3>3. Held(x) <= DustOf(x) + Grain(x)
        BY <1>7, <2>1, <2>5, <3>2 DEF Holds
      <3>4. DustOf(x)' = DustOf(x) + Grain(x)
        <4>1. CASE x[2] = "spot"
          <5> DEFINE s == AssetOf[r]
          <5>1. x \in LegsOf(s, "spot") /\ \A y \in LegsOf(s, "spot") \ {x} : leg'[y] = leg[y]
            BY <1>1, <1>4, <4>1 DEF LegsOf
          <5>2. Dust(s)' = Dust(s) + SpotStep - 1 /\ Dust(s) \in Nat
            BY <3>1, <5>1, DustAdds, DustNat
          <5> HIDE DEF s
          <5>3. DustOf(x) = Dust(s) /\ DustOf(x)' = Dust(s)' /\ Grain(x) = SpotStep - 1
            BY <1>1, <4>1 DEF DustOf, Grain, s
          <5>4. QED
            BY <5>2, <5>3, GridAssumption
        <4>2. CASE x[2] # "spot"
          BY <4>2 DEF DustOf, Grain
        <4>3. QED
          BY <4>1, <4>2
      <3>5. Held(x)' <= Carried(x)' + DustOf(x)'
        BY <2>1, <2>2, <3>1, <3>3, <3>4
      <3>6. QED
        BY <2>1, <2>3, <2>4, <3>5 DEF Holds
    <2>6. CASE closer[c].write # "closed"
      <3>1. leg'[x].status # "closed" /\ leg[x].status # "closed" /\ Carried(x)' = Carried(x)
        BY <1>4, <1>6, <1>7, <2>1, <2>6 DEF Carried
      <3>2. DustOf(x)' = DustOf(x)
        <4> DEFINE s == AssetOf[x[1]]
        <4>1. \A y \in LegsOf(s, "spot") : leg'[y].status = "closed" <=> leg[y].status = "closed"
          BY <1>4, <3>1 DEF LegsOf
        <4>2. Dust(s)' = Dust(s)
          BY <4>1, DustSame
        <4>3. QED
          BY <4>2 DEF DustOf
      <3>3. Held(x) <= Carried(x) + DustOf(x)
        BY <1>7, <2>1 DEF Holds
      <3>4. Held(x)' <= Carried(x)' + DustOf(x)'
        BY <2>1, <3>1, <3>2, <3>3
      <3>5. QED
        BY <2>1, <2>3, <2>4, <3>4 DEF Holds
    <2>7. QED
      BY <2>5, <2>6
  <1>13. leg[x].status = "closed" /\ Clean(AssetOf[r])' => leg'[x].status = "closed"
    BY <1>2, <1>7 DEF Clean
  <1>14. BookInv'
    BY <1>1, <1>2, <1>11, <1>12, <1>13, BookOne DEF Book
  <1>15. QED
    BY <1>9, <1>10, <1>14 DEF Book

\* The end of a close: an arb whose legs are both closed left nothing.
LEMMA BookFinish ==
  ASSUME Facts, Facts', Book, NEW c \in Closers, FinishClose(c)
  PROVE  Book'
  <1> USE DEF book, worker, closing, outside, venue, faults
  <1>0. PICK r \in Requests : r = closer[c].arb
    BY DEF FinishClose, Facts, IInv, CloserInv
  <1>1. /\ closer[c].step = "finish"
        /\ UNCHANGED <<leg, order, opener, job, staged, spot, short, disturbed>>
        /\ arb' = [arb EXCEPT ![r] = IF closer[c].errors THEN "error" ELSE "closed"]
        /\ closer' = [closer EXCEPT ![c] = NoCloser]
    BY <1>0 DEF FinishClose
  <1>2. /\ arb'[r] = IF closer[c].errors THEN "error" ELSE "closed"
        /\ \A q \in Requests \ {r} : arb'[q] = arb[q]
        /\ closer'[c].step = "none" /\ \A d \in Closers \ {c} : closer'[d] = closer[d]
    BY <1>1 DEF Facts, IInv, Shape, CloserInv, NoCloser
  <1>3. /\ Running(c, r) /\ \A d \in Closers, q \in Requests : Running(d, q)' => Running(d, q) /\ d # c
    BY <1>0, <1>1, <1>2 DEF Running
  <1>4. Clean(AssetOf[r]) => /\ arb[r] = "closing" /\ opener[r].step = "none"
                             /\ \A d \in Closers : ~Running(d, r)'
                             /\ TaskOf(r)
                             /\ ~closer[c].errors => /\ leg[<<r, "spot">>].status = "closed"
                                                     /\ leg[<<r, "perp">>].status = "closed"
    <2> SUFFICES ASSUME Clean(AssetOf[r])
                 PROVE  /\ arb[r] = "closing" /\ opener[r].step = "none"
                        /\ \A d \in Closers : ~Running(d, r)'
                        /\ TaskOf(r)
                        /\ ~closer[c].errors => /\ leg[<<r, "spot">>].status = "closed"
                                                /\ leg[<<r, "perp">>].status = "closed"
      OBVIOUS
    <2>1. ProgressOf(c, r) /\ TaskOf(r)
      BY <1>3 DEF Book, ProgressInv, TaskInv
    <2>2. arb[r] = "closing" /\ opener[r].step = "none" /\ \A d \in Closers : Running(d, r) => d = c
      BY <1>3, RunningArb DEF Book
    <2>3. QED
      BY <1>1, <1>3, <2>1, <2>2 DEF ProgressOf
  <1>5. \A x \in Legs : SameLeg(x)
    <2>1. \A d \in Closers, x \in Legs : d # c => (CalledOn(d, x)' <=> CalledOn(d, x))
      BY <1>2 DEF CalledOn
    <2>2. \A x \in Legs : ~CalledOn(c, x) /\ ~CalledOn(c, x)'
      BY <1>1, <1>2, CalledSteps
    <2>3. QED
      BY <1>1, <1>2, <2>1, <2>2 DEF SameLeg, AckedOn, StagedFill
  <1>6. TaskInv'
    <2> SUFFICES ASSUME NEW q \in Requests, Clean(AssetOf[q])' PROVE TaskOf(q)'
      BY DEF TaskInv
    <2>1. TaskOf(q) /\ Clean(AssetOf[q])
      BY <1>1 DEF Book, TaskInv, Clean
    <2>2. \A z \in Requests : AssetOf[z] = AssetOf[q] /\ arb'[z] \in NonClosed /\ arb'[q] \in NonClosed => z = q
      BY <1>2, <1>4, <2>1 DEF TaskOf, NonClosed
    <2>3. CASE q # r
      BY <1>1, <1>2, <1>3, <2>1, <2>2, <2>3 DEF TaskOf
    <2>4. CASE q = r
      <3>1. arb'[r] \in {"error", "closed"} /\ (arb'[r] = "closed" => ~closer[c].errors)
        BY <1>2
      <3>2. \A p \in Products : leg'[<<r, p>>].status = "closed" => order'[<<r, p>>].status # "retrying"
        BY <1>1, <2>1, <2>4 DEF TaskOf
      <3>3. QED
        BY <1>1, <1>4, <2>1, <2>2, <2>4, <3>1, <3>2 DEF TaskOf
    <2>5. QED
      BY <2>3, <2>4
  <1>7. ProgressInv'
    BY <1>1, <1>2, <1>3, ProgressSame DEF Book
  <1>8. BookInv'
    <2> SUFFICES ASSUME NEW s \in Assets, Clean(s)' PROVE BookAt(s)'
      BY DEF BookInv
    <2>1. Clean(s) /\ BookAt(s)
      BY <1>1 DEF Clean, Book, BookInv
    <2>2. CASE s # AssetOf[r] \/ closer[c].errors
      <3>1. \A q \in Requests : AssetOf[q] = s => (arb'[q] \in NonClosed <=> arb[q] \in NonClosed)
        BY <1>2, <1>4, <2>1, <2>2 DEF NonClosed
      <3>2. QED
        BY <1>1, <1>5, <2>1, <3>1, BookAtSame
    <2>3. CASE s = AssetOf[r] /\ ~closer[c].errors
      <3>1. arb[r] = "closing" /\ TaskOf(r) /\ arb'[r] = "closed"
            /\ leg[<<r, "spot">>].status = "closed" /\ leg[<<r, "perp">>].status = "closed"
        BY <1>2, <1>4, <2>1, <2>3
      <3>2. \A q \in Requests : AssetOf[q] = s => arb'[q] \notin NonClosed
        BY <1>2, <2>3, <3>1 DEF TaskOf, NonClosed
      <3>3. ASSUME NEW p \in Products, leg[<<r, p>>].status = "closed"
            PROVE  Held(<<r, p>>) <= DustOf(<<r, p>>)
        <4>1. PICK x \in Legs : x = <<r, p>> /\ x[1] = r
          <5>1. <<r, p>> \in Legs
            BY DEF Legs
          <5>2. QED
            BY <5>1
        <4>2. Holds(x)
          BY <2>1, <2>3, <3>1, <4>1 DEF BookAt, NonClosed
        <4>3. ~StagedFill(x) /\ \A a \in Actors : ~AckedOn(a, x)
          BY <1>3, <2>1, <2>3, <4>1, RunningArb DEF Book
        <4>4. Carried(x) = 0
          BY <3>3, <4>1 DEF Carried
        <4>5. Held(x) <= Carried(x) + DustOf(x) /\ DustOf(x) \in Nat
          BY <4>2, <4>3, HeldNat DEF Holds
        <4>6. QED
          BY <4>1, <4>4, <4>5
      <3>4. Flat(s)'
        <4>1. spot[s] <= Dust(s)
          BY <2>3, <3>1, <3>3 DEF Products, Held, DustOf
        <4>2. short[s] <= 0
          BY <2>3, <3>1, <3>3 DEF Products, Held, DustOf
        <4>3. short[s] \in Nat
          BY DEF Facts, CountInv
        <4>4. Dust(s)' = Dust(s)
          BY <1>1 DEF Dust, LegsOf
        <4>5. QED
          BY <1>1, <4>1, <4>2, <4>3, <4>4 DEF Flat
      <3>5. QED
        BY <3>2, <3>4, LegsArePairs DEF BookAt
    <2>4. QED
      BY <2>2, <2>3
  <1>9. QED
    BY <1>6, <1>7, <1>8 DEF Book
----------------------------------------------------------------------------
(* The invariant. *)

\* It holds at the start, when there is nothing,
LEMMA FactsInit == Init => Facts
  <1> SUFFICES ASSUME Init PROVE Facts
    OBVIOUS
  <1>1. IInv
    BY InitInv
  <1>2. CountInv
    BY AttemptAssumption DEF Init, CountInv, NoLeg, NoOrder, NothingStaged, NoJob
  <1>3. PassInv
    <2>1. Worker \in Actors
      BY DEF Actors
    <2>2. QED
      BY <2>1 DEF Init, PassInv, NothingStaged, NoOrder, NoJob
  <1>4. FillInv
    BY LegsArePairs DEF Init, FillInv, NoLeg, NoOrder, NothingStaged, NoOpener, Legs, Products
  <1>5. QED
    BY <1>1, <1>2, <1>3, <1>4 DEF Facts

\* nothing is open, and nothing is held.
LEMMA BookInit == Init => Book
  <1> SUFFICES ASSUME Init PROVE Book
    OBVIOUS
  <1>0. Facts
    BY FactsInit
  <1>1. \A c \in Closers, r \in Requests : ~Running(c, r)
    BY DEF Init, Running, NoCloser
  <1>2. \A x \in Legs : leg[x].status = "none"
    BY DEF Init, NoLeg
  <1>3. \A r \in Requests : arb[r] = "none" /\ opener[r].step = "none"
    BY DEF Init, NoOpener
  <1>4. \A r \in Requests, p \in Products : <<r, p>> \in Legs
    BY DEF Legs
  <1>5. TaskInv
    BY <1>1, <1>2, <1>3, <1>4 DEF TaskInv, TaskOf, NonClosed
  <1>6. ProgressInv
    BY <1>1 DEF ProgressInv
  <1>7. ASSUME NEW s \in Assets PROVE BookAt(s)
    <2>1. spot[s] = 0 /\ short[s] = 0
      BY DEF Init
    <2>2. Flat(s)
      BY <2>1, DustNat DEF Flat
    <2>3. QED
      BY <1>3, <2>2, LegsArePairs DEF BookAt, NonClosed
  <1>8. QED
    BY <1>5, <1>6, <1>7 DEF Book, BookInv

\* and every step keeps it.
LEMMA BookStep ==
  ASSUME Facts, Book, [Next]_vars
  PROVE  Facts' /\ Book'
  <1>0. Facts'
    BY FactsStep
  <1>1. ASSUME NEW r \in Requests, OpenCheck(r) \/ OpenPersist(r) \/ RunOpen(r) \/ AbortOpen(r)
        PROVE  Book'
    BY <1>0, <1>1, BookStill, BookPersist, BookSkip, BookCommit, BookVerdict DEF RunOpen
  <1>2. ASSUME NEW a \in Actors, Call(a) PROVE Book'
    BY <1>0, <1>2, BookCall
  <1>3. CASE ScanRetries \/ ReplayNext \/ StageLeg \/ EndPass \/ AbortPass
    BY <1>0, <1>3, BookStill, BookStage, BookEndPass
  <1>4. ASSUME NEW c \in Closers, CloseCheck(c) \/ RunClose(c) PROVE Book'
    <2>1. CASE CloseCheck(c)
      BY <1>0, <2>1, BookStill
    <2>2. CASE RunClose(c)
      BY <1>0, <2>2, BookAccept, BookSell, BookCover, BookFinish, BookPass, BookCommitClosed DEF RunClose
    <2>3. QED
      BY <1>4, <2>1, <2>2
  <1>5. ASSUME NEW c \in Closers, AbortClose(c) PROVE Book'
    <2>1. CASE \E p \in Products :
                  /\ closer[c].step \in {p, CalledStep(p)}
                  /\ closer' = [closer EXCEPT ![c].step = AfterLeg(p), ![c].write = "keep",
                                              ![c].errors = TRUE]
                  /\ disturbed' = IF closer[c].step = p THEN disturbed
                                  ELSE disturbed \cup {AssetOf[closer[c].arb]}
      BY <1>0, <1>5, <2>1, BookPass
    <2>2. CASE closer[c].step = "finish" /\ closer' = [closer EXCEPT ![c] = NoCloser] /\ UNCHANGED disturbed
      BY <1>0, <1>5, <2>2, BookGone
    <2>3. QED
      BY <1>5, <2>1, <2>2 DEF AbortClose
  <1>6. CASE Crash \/ UNCHANGED vars
    BY <1>0, <1>6, BookStill
  <1>7. QED
    BY <1>0, <1>1, <1>2, <1>3, <1>4, <1>5, <1>6 DEF Next
----------------------------------------------------------------------------
(* What a reader of the book and of the venue sees. *)

\* FilledBy is the sum of what the rows say.
LEMMA FilledIsSum ==
  ASSUME NEW S, S \subseteq Legs
  PROVE  FilledBy(S) = Sum([x \in Legs |-> leg[x].filled], S)
  <1> DEFINE g == [x \in Legs |-> leg[x].filled]
             P(h) == h = [s \in SUBSET S |-> IF s = {} THEN 0 ELSE leg[Pick(s)].filled + h[s \ {Pick(s)}]]
  <1>1. IsFiniteSet(S)
    BY ClosedFinite, FS_Subset
  <1>2. \A s \in SUBSET S : s # {} => g[Pick(s)] = leg[Pick(s)].filled
    BY PickInSet
  <1>3. \A h : [s \in SUBSET S |-> IF s = {} THEN 0 ELSE leg[Pick(s)].filled + h[s \ {Pick(s)}]]
               = [s \in SUBSET S |-> IF s = {} THEN 0 ELSE g[Pick(s)] + h[s \ {Pick(s)}]]
    <2> HIDE DEF g
    <2> QED
      BY <1>2
  <1>4. \A h : P(h) <=> Sums(g, S, h)
    BY <1>3 DEF Sums
  <1>5. FilledBy(S) = (CHOOSE h : P(h))[S]
    BY Zenon DEF FilledBy, MapThenSumSet, MapThenFoldSet, Pick
  <1> HIDE DEF P, g
  <1>6. P(CHOOSE h : P(h))
    BY <1>1, <1>4, SumsExists
  <1>7. Sums(g, S, CHOOSE h : P(h))
    BY <1>4, <1>6
  <1>8. Sum(g, S) = (CHOOSE h : P(h))[S]
    BY <1>1, <1>7, SumFrom
  <1>9. QED
    BY <1>5, <1>8 DEF g

\* Legs of which one at most is not closed or empty.
LEMMA OneSummand ==
  ASSUME Facts, NEW S, S \subseteq Legs, NEW x \in S,
         \A y \in S : y # x => leg[y].status # "success" /\ Carried(y) = 0
  PROVE  LET filled == {y \in S : leg[y].status = "success"}
             carried == {y \in S : leg[y].status # "closed"}
         IN  /\ FilledBy(carried) = Carried(x)
             /\ FilledBy(filled) = IF leg[x].status = "success" THEN leg[x].filled ELSE 0
             /\ Cardinality(filled) = IF leg[x].status = "success" THEN 1 ELSE 0
  <1> DEFINE filled == {y \in S : leg[y].status = "success"}
             carried == {y \in S : leg[y].status # "closed"}
             g == [y \in Legs |-> leg[y].filled]
  <1>1. FilledBy(carried) = Sum(g, carried) /\ FilledBy(filled) = Sum(g, filled)
    BY FilledIsSum
  <1>2. IsFiniteSet(carried) /\ carried \subseteq Legs
    <2>1. carried \subseteq Legs
      OBVIOUS
    <2> HIDE DEF carried
    <2>2. QED
      BY <2>1, ClosedFinite, FS_Subset
  <1>3. \A y \in Legs : g[y] = leg[y].filled /\ leg[y].filled \in Nat
    BY DEF Facts, CountInv
  <1>4. \A y \in carried : y # x => g[y] = 0
    BY <1>3 DEF Carried
  <1>5. Sum(g, carried) = Carried(x)
    <2>1. CASE x \in carried
      <3>1. g[x] = Carried(x) /\ g[x] \in Int
        BY <1>3, <2>1 DEF Carried
      <3> HIDE DEF carried, g
      <3>2. QED
        BY <1>2, <1>4, <2>1, <3>1, SumSingle
    <2>2. CASE x \notin carried
      <3>1. Carried(x) = 0 /\ \A y \in carried : g[y] = 0
        BY <1>4, <2>2 DEF Carried
      <3> HIDE DEF carried, g
      <3>2. QED
        BY <1>2, <3>1, SumZero
    <2>3. QED
      BY <2>1, <2>2
  <1>6. Sum(g, {}) = 0 /\ Cardinality({}) = 0 /\ IsFiniteSet({x}) /\ Cardinality({x}) = 1
    BY SumEmpty, FS_EmptySet, FS_Singleton
  <1>7. /\ Sum(g, filled) = IF leg[x].status = "success" THEN leg[x].filled ELSE 0
        /\ Cardinality(filled) = IF leg[x].status = "success" THEN 1 ELSE 0
    <2>1. CASE leg[x].status = "success"
      <3>1. filled = {x}
        BY <2>1
      <3>2. Sum(g, {x}) = g[x]
        <4>1. g[x] \in Int
          BY <1>3
        <4> HIDE DEF g
        <4>2. QED
          BY <1>6, <4>1, SumSingle
      <3>3. g[x] = leg[x].filled
        BY <1>3
      <3> HIDE DEF filled, g
      <3>4. QED
        BY <1>6, <2>1, <3>1, <3>2, <3>3
    <2>2. CASE leg[x].status # "success"
      <3>1. filled = {}
        BY <2>2
      <3> HIDE DEF filled, g
      <3>2. QED
        BY <1>6, <2>2, <3>1
    <2>3. QED
      BY <2>1, <2>2
  <1>8. QED
    BY <1>1, <1>5, <1>7

\* A leg of an arb that is closed, or does not exist, counts for nothing.
LEMMA DoneLeg ==
  ASSUME Facts, Book, NEW x \in Legs, Clean(AssetOf[x[1]]), arb[x[1]] \notin NonClosed
  PROVE  leg[x].status # "success" /\ Carried(x) = 0
  <1>1. x[1] \in Requests /\ (x = <<x[1], "spot">> \/ x = <<x[1], "perp">>)
    BY LegsArePairs
  <1>2. CASE arb[x[1]] = "none"
    <2>1. leg[x] = NoLeg
      BY <1>1, <1>2 DEF Facts, FillInv
    <2>2. QED
      BY <2>1 DEF NoLeg, Carried
  <1>3. CASE arb[x[1]] = "closed"
    <2>1. leg[x].status = "closed"
      BY <1>1, <1>3 DEF Book, TaskInv, TaskOf
    <2>2. QED
      BY <2>1 DEF Carried
  <1>4. QED
    BY <1>1, <1>2, <1>3 DEF Facts, IInv, Shape

\* While nothing is under way, the venue holds of a leg what its row says.
LEMMA QuietHolds ==
  ASSUME Facts, Book, NEW x \in Legs, Clean(AssetOf[x[1]]), Quiet(AssetOf[x[1]]),
         arb[x[1]] \in NonClosed
  PROVE  /\ Held(x) <= Carried(x) + DustOf(x)
         /\ leg[x].status = "success" => leg[x].filled - FeeOf(x) <= Held(x)
  <1>1. Holds(x)
    BY LegsArePairs DEF Book, BookInv, BookAt, Assets
  <1>2. \A a \in Actors : ~AckedOn(a, x)
    BY DEF AckedOn, Quiet, NoJob
  <1>3. ~StagedFill(x)
    BY DEF StagedFill, Quiet, IsStaged, NoOrder
  <1>4. \A c \in Closers : ~CalledOn(c, x)
    <2>1. x[2] \in Products
      BY DEF Legs
    <2>2. \A c \in Closers : CalledOn(c, x) => CallOf(c) /\ AssetOf[closer[c].arb] = AssetOf[x[1]]
      BY <2>1 DEF CalledOn, CallOf
    <2>3. QED
      BY <2>2 DEF Quiet
  <1>5. QED
    BY <1>1, <1>2, <1>3, <1>4 DEF Holds

\* The invariant says what BookMatchesVenue says: the sums are over one leg each.
LEMMA BookSays ==
  ASSUME Facts, Book
  PROVE  BookMatchesVenue
  <1> SUFFICES ASSUME NEW s \in Assets \ disturbed, Quiet(s)
               PROVE  LET filled(p) == {x \in LegsOf(s, p) : leg[x].status = "success"}
                          carried(p) == {x \in LegsOf(s, p) : leg[x].status # "closed"}
                      IN  /\ short[s] \in FilledBy(filled("perp"))..FilledBy(carried("perp"))
                          /\ spot[s] >= FilledBy(filled("spot")) - Fee * Cardinality(filled("spot"))
                          /\ spot[s] <= FilledBy(carried("spot")) + Dust(s)
    BY DEF BookMatchesVenue
  <1> DEFINE filled(p) == {x \in LegsOf(s, p) : leg[x].status = "success"}
             carried(p) == {x \in LegsOf(s, p) : leg[x].status # "closed"}
  <1>1. Clean(s) /\ BookAt(s) /\ spot[s] \in Nat /\ short[s] \in Nat /\ Dust(s) \in Nat
    BY DustNat DEF Clean, Book, BookInv, Facts, CountInv
  <1>2. PICK q \in Requests : AssetOf[q] = s
    BY DEF Assets
  <1>3. PICK r \in Requests : AssetOf[r] = s /\
           \A z \in Requests : AssetOf[z] = s /\ z # r => arb[z] \notin NonClosed
    <2>1. CASE \E r \in Requests : AssetOf[r] = s /\ arb[r] \in NonClosed
      <3>1. PICK r \in Requests : AssetOf[r] = s /\ arb[r] \in NonClosed
        BY <2>1
      <3>2. TaskOf(r)
        BY <1>1, <3>1 DEF Book, TaskInv
      <3>3. QED
        BY <3>1, <3>2 DEF TaskOf
    <2>2. CASE \A r \in Requests : AssetOf[r] = s => arb[r] \notin NonClosed
      BY <1>2, <2>2
    <2>3. QED
      BY <2>1, <2>2
  <1>4. ASSUME NEW p \in Products
        PROVE  LET x == <<r, p>> IN
               /\ x \in Legs
               /\ FilledBy(carried(p)) = Carried(x)
               /\ FilledBy(filled(p)) = IF leg[x].status = "success" THEN leg[x].filled ELSE 0
               /\ Cardinality(filled(p)) = IF leg[x].status = "success" THEN 1 ELSE 0
    <2>1. PICK x \in Legs : x = <<r, p>>
      <3>1. <<r, p>> \in Legs
        BY DEF Legs
      <3>2. QED
        BY <3>1
    <2>2. x \in LegsOf(s, p) /\ LegsOf(s, p) \subseteq Legs
      BY <1>3, <2>1 DEF LegsOf
    <2>3. \A y \in LegsOf(s, p) : y # x => leg[y].status # "success" /\ Carried(y) = 0
      <3> SUFFICES ASSUME NEW y \in LegsOf(s, p), y # x
                   PROVE  leg[y].status # "success" /\ Carried(y) = 0
        OBVIOUS
      <3>1. y \in Legs /\ y[1] \in Requests /\ AssetOf[y[1]] = s /\ y[1] # r
        BY <2>1, LegsArePairs DEF LegsOf
      <3>2. QED
        BY <1>1, <1>3, <3>1, DoneLeg
    <2>4. QED
      BY <2>1, <2>2, <2>3, OneSummand
  <1>5. ASSUME NEW p \in Products
        PROVE  LET x == <<r, p>> IN
               /\ Held(x) <= Carried(x) + DustOf(x)
               /\ leg[x].status = "success" => leg[x].filled - FeeOf(x) <= Held(x)
    <2>1. PICK x \in Legs : x = <<r, p>> /\ x[1] = r
      <3>1. <<r, p>> \in Legs
        BY DEF Legs
      <3>2. QED
        BY <3>1
    <2>2. CASE arb[r] \in NonClosed
      BY <1>1, <1>3, <2>1, <2>2, QuietHolds
    <2>3. CASE arb[r] \notin NonClosed
      <3>1. leg[x].status # "success" /\ Carried(x) = 0
        BY <1>1, <1>3, <2>1, <2>3, DoneLeg
      <3>2. AllClosed(s)
        BY <1>3, <2>3 DEF AllClosed, Facts, IInv, Shape
      <3>3. short[s] = 0 /\ spot[s] <= Dust(s)
        BY <1>1, <3>2 DEF BookAt, Flat
      <3>4. Held(x) <= DustOf(x)
        BY <1>3, <2>1, <3>3 DEF Held, DustOf, Legs, Products
      <3>5. Held(x) \in Nat /\ DustOf(x) \in Nat
        BY HeldNat
      <3>6. QED
        BY <2>1, <3>1, <3>4, <3>5
    <2>4. QED
      BY <2>2, <2>3
  <1>6. /\ Held(<<r, "spot">>) = spot[s] /\ Held(<<r, "perp">>) = short[s]
        /\ FeeOf(<<r, "spot">>) = Fee /\ FeeOf(<<r, "perp">>) = 0
        /\ DustOf(<<r, "spot">>) = Dust(s) /\ DustOf(<<r, "perp">>) = 0
    BY <1>3 DEF Held, FeeOf, DustOf
  <1>7. "spot" \in Products /\ "perp" \in Products
    BY DEF Products
  <1>8. \A p \in Products : leg[<<r, p>>].filled \in Nat /\ Carried(<<r, p>>) \in Nat
    BY <1>4, HeldNat DEF Facts, CountInv
  <1> HIDE DEF filled, carried
  <1>9. short[s] \in FilledBy(filled("perp"))..FilledBy(carried("perp"))
    BY <1>1, <1>4, <1>5, <1>6, <1>7, <1>8
  <1>10. spot[s] >= FilledBy(filled("spot")) - Fee * Cardinality(filled("spot"))
    <2>1. CASE leg[<<r, "spot">>].status = "success"
      <3>1. /\ FilledBy(filled("spot")) = leg[<<r, "spot">>].filled
            /\ Cardinality(filled("spot")) = 1
            /\ leg[<<r, "spot">>].filled - Fee <= spot[s]
        BY <1>4, <1>5, <1>6, <1>7, <2>1
      <3>2. QED
        BY <1>1, <1>7, <1>8, <3>1, GridAssumption
    <2>2. CASE leg[<<r, "spot">>].status # "success"
      <3>1. FilledBy(filled("spot")) = 0 /\ Cardinality(filled("spot")) = 0
        BY <1>4, <1>7, <2>2
      <3>2. QED
        BY <1>1, <3>1, GridAssumption
    <2>3. QED
      BY <2>1, <2>2
  <1>11. spot[s] <= FilledBy(carried("spot")) + Dust(s)
    BY <1>1, <1>4, <1>5, <1>6, <1>7, <1>8
  <1>12. QED
    BY <1>9, <1>10, <1>11 DEF filled, carried

\* It says what the types are,
LEMMA FactsTypes == Facts => TypeOK
  <1> SUFFICES ASSUME Facts PROVE TypeOK
    OBVIOUS
  <1>1. \A x \in Legs : leg[x].status \in RowStatus /\ order[x].status \in {"none", "success", "retrying", "dead"}
    BY DEF Facts, IInv, Shape, RowType, OrderType
  <1>2. /\ \A r \in Requests : opener[r].step \in {"none", "spot", "perp", "finalize", "to_open", "to_error"}
        /\ \A a \in Actors : job[a].step \in {"none", "calling", "acked", "failed"}
        /\ batch \subseteq Legs /\ DOMAIN staged = Legs
        /\ arb \in [Requests -> {"none", "closed"} \cup NonClosed]
    BY DEF Facts, IInv, Shape, OpenerType, JobType
  <1>3. QED
    BY <1>1, <1>2 DEF TypeOK, Facts, CountInv, PassInv

\* and what the book and the venue have to do with each other.
THEOREM BookKept == Spec => [](Facts /\ Book)
  <1>1. Init => Facts /\ Book
    BY FactsInit, BookInit
  <1>2. Facts /\ Book /\ [Next]_vars => (Facts /\ Book)'
    BY BookStep
  <1>3. QED
    BY <1>1, <1>2, PTL DEF Spec

\* Types, and no leg order is attempted more than RETRY_MAX_ATTEMPTS times.
THEOREM Types == Spec => []TypeOK
  <1>1. Facts /\ Book => TypeOK
    BY FactsTypes
  <1>2. QED
    BY <1>1, BookKept, PTL

\* Of an asset nothing disturbed, the venue holds what the book says: at least the fills that are
\* recorded, less a fee that could not be read, and no more than those of legs not closed, but
\* for dust below the grid.
THEOREM MatchesVenue == Spec => []BookMatchesVenue
  <1>1. Facts /\ Book => BookMatchesVenue
    BY BookSays
  <1>2. QED
    BY <1>1, BookKept, PTL

\* When all arbs of such an asset are closed, nothing but dust is left at the venue.
THEOREM FlatUnlessDisturbed == Spec => []ClosedIsFlatUnlessDisturbed
  <1>1. Facts /\ Book => ClosedIsFlatUnlessDisturbed
    BY DEF ClosedIsFlatUnlessDisturbed, Book, BookInv, BookAt, Clean
  <1>2. QED
    BY <1>1, BookKept, PTL
============================================================================
