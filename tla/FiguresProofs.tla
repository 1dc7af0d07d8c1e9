--------------------------- MODULE FiguresProofs ---------------------------
(* The figures of the dashboard and of the orders: the ledger row and the    *)
(* venue (Reconcile), the table behind the equity curve (EquityHistory), and *)
(* the sizing of orders (Sizing).                                            *)
EXTENDS Reconcile, EquityHistory, Sizing, SumTheorems, SequenceTheorems, TLAPS

----------------------------------------------------------------------------
(* The ledger row and the venue agree: for any bounds, lots and prices. *)

\* What the sums are made of, and the records that EXCEPT updates.
RowTypes ==
    /\ row = [net |-> row.net, avg |-> row.avg, realized |-> row.realized]
    /\ sync = [step |-> sync.step, qty |-> sync.qty, price |-> sync.price,
               sets |-> sync.sets, clean |-> sync.clean]
    /\ row.net \in Int /\ venue \in Int
    /\ unbooked.signed \in Int
    /\ neighbour \in [configured : BOOLEAN, net : {0, Lot}]
    /\ sync.qty \in Int

\* A sync that nothing disturbed knows the position, and owns the whole of it; its UPDATE
\* leaves out a column only if the row has its value.
SyncInv ==
    sync.step # "idle" /\ sync.clean =>
        /\ unbooked = NotFilled /\ neighbour.net = 0 /\ sync.qty = venue
        /\ sync.step = "loaded" /\ "net" \notin sync.sets => row.net = venue

\* An unbooked fill is the only difference.
SumInv == trusted => row.net + unbooked.signed + neighbour.net = venue

LedgerInv == RowTypes /\ SyncInv /\ SumInv

\* Fills are whole quantities.
LEMMA FillTypes == \A f \in Fills : f.signed \in Int
  <1>1. Lot \in Int
    BY LotAboveEps
  <1>2. QED
    BY <1>1 DEF Fills

\* Without an unbooked fill the sum is unaffected.
LEMMA NotFilledIsNothing == NotFilled.signed = 0
  BY DEF NotFilled

\* The invariant holds initially.
LEMMA LedgerInitInv == ReconcileInit => LedgerInv
  <1> SUFFICES ASSUME ReconcileInit PROVE LedgerInv
    OBVIOUS
  <1>1. row = NoRow /\ unbooked = NotFilled /\ sync = NoSync
    BY DEF ReconcileInit, LedgerInit
  <1>2. neighbour \in [configured : BOOLEAN, net : {0, Lot}] /\ venue = neighbour.net
    BY DEF ReconcileInit
  <1>3. Lot \in Int
    BY LotAboveEps
  <1>4. QED
    BY <1>1, <1>2, <1>3, NotFilledIsNothing DEF LedgerInv, RowTypes, SyncInv, SumInv, NoSync, NoRow

\* A step that leaves both sides of the sum and the sync alone.
LEMMA SameSums ==
  ASSUME LedgerInv, UNCHANGED <<row, venue, unbooked, neighbour, sync, trusted>>
  PROVE  LedgerInv'
  BY DEF LedgerInv, RowTypes, SyncInv, SumInv

\* A disturbed sync promises nothing and keeps what it read.
LEMMA Disturbed ==
  ASSUME RowTypes, Disturb
  PROVE  /\ SyncInv'
         /\ sync'.qty = sync.qty
         /\ sync' = [step |-> sync'.step, qty |-> sync'.qty, price |-> sync'.price,
                     sets |-> sync'.sets, clean |-> sync'.clean]
  BY DEF RowTypes, Disturb, SyncInv

\* Booking moves the fill from the venue's side to the row.
LEMMA BookMoves ==
  ASSUME NEW f, Book(f)
  PROVE  row' = [net |-> row.net + f.signed, avg |-> row'.avg, realized |-> row'.realized]
  BY DEF Book, ApplyFill

\* Every event of the venue, the ledger, the neighbour and the sync keeps the invariant.
LEMMA LedgerStepInv == LedgerInv /\ [ReconcileNext]_allVars => LedgerInv'
  <1> SUFFICES ASSUME LedgerInv, [ReconcileNext]_allVars PROVE LedgerInv'
    OBVIOUS
  <1>i. RowTypes /\ SyncInv /\ SumInv
    BY DEF LedgerInv
  <1>l. Lot \in Int
    BY LotAboveEps
  <1>1. CASE CreateOrder
    BY <1>1, SameSums DEF CreateOrder, CreateUnfilled, outside
  <1>2. ASSUME NEW f \in Fills, VenueFills(f) PROVE LedgerInv'
    <2>1. Disturb /\ UNCHANGED <<row, neighbour, trusted>>
      BY <1>2 DEF VenueFills, ledgerVars
    <2>2. unbooked = NotFilled /\ unbooked' = f /\ venue' = venue + f.signed
      BY <1>2 DEF VenueFills
    <2>3. RowTypes'
      BY <1>i, <2>1, <2>2, Disturbed, FillTypes DEF RowTypes
    <2>4. SumInv'
      BY <1>i, <1>l, <2>1, <2>2, FillTypes, NotFilledIsNothing DEF RowTypes, SumInv
    <2>5. QED
      BY <1>i, <2>1, <2>3, <2>4, Disturbed DEF LedgerInv
  <1>3. CASE BookFill
    <2>1. Disturb /\ UNCHANGED <<venue, neighbour, trusted>> /\ unbooked' = NotFilled
      BY <1>3 DEF BookFill
    <2>2. Book(unbooked)
      BY <1>3 DEF BookFill, CreateFilled, FillLater
    <2>3. row' = [net |-> row.net + unbooked.signed, avg |-> row'.avg,
                  realized |-> row'.realized]
      BY <2>2, BookMoves
    <2>4. RowTypes'
      BY <1>i, <2>1, <2>3, Disturbed, NotFilledIsNothing DEF RowTypes
    <2>5. SumInv'
      BY <1>i, <1>l, <2>1, <2>3, NotFilledIsNothing DEF RowTypes, SumInv
    <2>6. QED
      BY <1>i, <2>1, <2>4, <2>5, Disturbed DEF LedgerInv
  <1>4. CASE FillIsLost
    <2>1. unbooked # NotFilled /\ unbooked' = NotFilled /\ trusted' = FALSE
          /\ UNCHANGED <<row, venue, neighbour, sync>>
      BY <1>4 DEF FillIsLost, ledgerVars
    <2>2. RowTypes' /\ SumInv'
      BY <1>i, <2>1, NotFilledIsNothing DEF RowTypes, SumInv
    <2>3. SyncInv'
      BY <1>i, <2>1 DEF SyncInv
    <2>4. QED
      BY <2>2, <2>3 DEF LedgerInv
  <1>5. ASSUME NEW q \in {-Lot, Lot}, TradeByHand(q) PROVE LedgerInv'
    <2>1. Disturb /\ UNCHANGED <<row, unbooked, neighbour>>
          /\ venue' = venue + q /\ trusted' = FALSE
      BY <1>5 DEF TradeByHand, ledgerVars
    <2>2. RowTypes' /\ SumInv'
      BY <1>i, <1>l, <2>1, Disturbed DEF RowTypes, SumInv
    <2>3. QED
      BY <1>i, <2>1, <2>2, Disturbed DEF LedgerInv
  <1>6. CASE NeighbourTrades
    <2>1. Disturb /\ UNCHANGED <<row, unbooked, trusted>>
          /\ neighbour' = [neighbour EXCEPT !.net = Lot - @]
          /\ venue' = venue + neighbour'.net - neighbour.net
      BY <1>6 DEF NeighbourTrades, ledgerVars
    <2>2. neighbour' \in [configured : BOOLEAN, net : {0, Lot}] /\ neighbour.net \in {0, Lot}
      BY <1>i, <1>l, <2>1 DEF RowTypes
    <2>3. neighbour'.net \in {0, Lot}
      BY <2>2
    <2>4. RowTypes' /\ SumInv'
      BY <1>i, <1>l, <2>1, <2>2, <2>3, Disturbed DEF RowTypes, SumInv
    <2>5. QED
      BY <1>i, <2>1, <2>4, Disturbed DEF LedgerInv
  <1>7. CASE Configure
    <2>1. UNCHANGED <<row, venue, unbooked, sync, trusted>>
          /\ neighbour' = [neighbour EXCEPT !.configured = ~@]
      BY <1>7 DEF Configure, ledgerVars
    <2>2. neighbour' \in [configured : BOOLEAN, net : {0, Lot}] /\ neighbour'.net = neighbour.net
      BY <1>i, <2>1 DEF RowTypes
    <2>3. QED
      BY <1>i, <2>1, <2>2 DEF LedgerInv, RowTypes, SyncInv, SumInv
  <1>8. CASE SyncRead
    <2>1. PICK p \in Prices :
             sync' = [step |-> "read", qty |-> venue, price |-> p, sets |-> {},
                      clean |-> unbooked = NotFilled /\ NeighbourCounts]
      BY <1>8 DEF SyncRead
    <2>2. ~neighbour.configured /\ UNCHANGED <<row, venue, unbooked, neighbour, trusted>>
      BY <1>8 DEF SyncRead, ledgerVars
    <2>3. sync'.clean => unbooked = NotFilled /\ neighbour.net = 0
      BY <2>1, <2>2 DEF NeighbourCounts
    <2>4. QED
      BY <1>i, <2>1, <2>2, <2>3 DEF LedgerInv, RowTypes, SyncInv, SumInv
  <1>9. CASE SyncLoad
    <2>1. /\ sync.step = "read" /\ sync'.step = "loaded"
          /\ sync'.qty = sync.qty /\ sync'.clean = sync.clean
          /\ "net" \notin sync'.sets => sync.qty = row.net
          /\ sync' = [step |-> sync'.step, qty |-> sync'.qty, price |-> sync'.price,
                      sets |-> sync'.sets, clean |-> sync'.clean]
      BY <1>9, <1>i DEF SyncLoad, RowTypes
    <2>2. UNCHANGED <<row, venue, unbooked, neighbour, trusted>>
      BY <1>9 DEF SyncLoad, ledgerVars
    <2>3. QED
      BY <1>i, <2>1, <2>2 DEF LedgerInv, RowTypes, SyncInv, SumInv
  <1>10. CASE SyncWrite
    <2>1. /\ sync.step = "loaded" /\ sync' = NoSync /\ trusted' = sync.clean
          /\ row' = Synced(row) /\ UNCHANGED <<venue, unbooked, neighbour>>
      BY <1>10 DEF SyncWrite
    <2>2. /\ row'.net = IF "net" \in sync.sets THEN sync.qty ELSE row.net
          /\ row' = [net |-> row'.net, avg |-> row'.avg, realized |-> row'.realized]
      BY <1>i, <2>1 DEF Synced, RowTypes
    <2>3. RowTypes' /\ SyncInv'
      BY <1>i, <2>1, <2>2 DEF RowTypes, SyncInv, NoSync
    <2>4. SumInv'
      BY <1>i, <2>1, <2>2, NotFilledIsNothing DEF RowTypes, SyncInv, SumInv
    <2>5. QED
      BY <2>3, <2>4 DEF LedgerInv
  <1>11. CASE SyncFails
    <2>1. sync' = NoSync /\ UNCHANGED <<row, venue, unbooked, neighbour, trusted>>
      BY <1>11 DEF SyncFails, ledgerVars
    <2>2. QED
      BY <1>i, <2>1 DEF LedgerInv, RowTypes, SyncInv, SumInv, NoSync
  <1>12. CASE Backfill
    <2>1. Disturb /\ UNCHANGED <<venue, unbooked, neighbour, trusted>>
          /\ row' = [row EXCEPT !.avg = Replay.avg]
      BY <1>12 DEF Backfill
    <2>2. row'.net = row.net
          /\ row' = [net |-> row'.net, avg |-> row'.avg, realized |-> row'.realized]
      BY <1>i, <2>1 DEF RowTypes
    <2>3. RowTypes' /\ SumInv'
      BY <1>i, <2>1, <2>2, Disturbed DEF RowTypes, SumInv
    <2>4. QED
      BY <1>i, <2>1, <2>3, Disturbed DEF LedgerInv
  <1>13. CASE UNCHANGED allVars
    BY <1>13, SameSums DEF allVars, ledgerVars, outside
  <1>14. QED
    BY <1>1, <1>2, <1>3, <1>4, <1>5, <1>6, <1>7, <1>8, <1>9, <1>10, <1>11, <1>12, <1>13
       DEF ReconcileNext

\* The strengthened invariant holds in every reachable state: an unbooked fill is the only
\* difference between the rows and a trusted venue, and an undisturbed sync holds its position.
THEOREM LedgerInvariant == ReconcileSpec => []LedgerInv
  BY LedgerInitInv, LedgerStepInv, PTL DEF ReconcileSpec

\* The rows add up to what the venue holds, until a fill is lost or somebody trades by hand,
\* and again from the next sync that nothing disturbed.
THEOREM LedgerStaysVenue == ReconcileSpec => []LedgerIsVenue
  <1>1. LedgerInv => LedgerIsVenue
    <2> SUFFICES ASSUME LedgerInv, trusted, unbooked = NotFilled
                 PROVE  row.net + neighbour.net = venue
      BY DEF LedgerIsVenue
    <2>1. unbooked.signed = 0 /\ row.net \in Int /\ neighbour.net \in Int
      BY NotFilledIsNothing, LotAboveEps DEF LedgerInv, RowTypes
    <2>2. QED
      BY <2>1 DEF LedgerInv, SumInv
  <1>2. QED
    BY LedgerInvariant, <1>1, PTL
----------------------------------------------------------------------------
(* Fractions. *)

\* A set of natural numbers has a smallest one.
LEMMA Smallest == ASSUME NEW S \in SUBSET Nat, S # {} PROVE \E m \in S : \A k \in S : m <= k
  <1>1. PICK m \in S : \A k \in S : ~ (<<k, m>> \in OpToRel(<, Nat))
    BY WFMin, NatLessThanWellFounded
  <1>2. \A k \in S : ~ k < m
    BY <1>1 DEF OpToRel
  <1>3. QED
    BY <1>2

\* A positive factor can be cancelled.
LEMMA Cancel == ASSUME NEW a \in Int, NEW b \in Int, NEW c \in Nat \ {0}, a * c = b * c PROVE a = b
  BY SMT

\* What it means that a remainder is zero.
LEMMA Divides ==
  ASSUME NEW a \in Int, NEW d \in Nat \ {0}
  PROVE  /\ a % d = 0 <=> \E q \in Int : a = q * d
         /\ a % d = 0 => a \div d \in Int /\ (a \div d) * d = a
  <1>0. a \div d \in Int /\ a % d \in 0..(d - 1)
    BY SMT
  <1>a. a = d * (a \div d) + (a % d)
    BY SMT
  <1>1. a = d * (a \div d) + (a % d) /\ a \div d \in Int /\ a % d \in 0..(d - 1)
    BY <1>0, <1>a
  <1>2. ASSUME NEW q \in Int, a = q * d PROVE a % d = 0
    <2>1. (q - a \div d) * d = a % d
      BY <1>1, <1>2
    <2>2. q - a \div d \in Int
      BY <1>1
    <2>3. CASE q - a \div d <= -1
      BY <2>1, <2>2, <2>3, <1>1
    <2>4. CASE q - a \div d >= 1
      BY <2>1, <2>2, <2>4, <1>1
    <2>5. QED
      BY <2>1, <2>2, <2>3, <2>4
  <1>3. ASSUME a % d = 0 PROVE (a \div d) * d = a
    BY <1>1, <1>3
  <1>4. QED
    BY <1>1, <1>2, <1>3

Positives == Nat \ {0}
Rat == [n : Int, d : Positives]

\* The denominators a fraction can be written with, and the smallest.
Fits(n, d, e) == e \in Positives /\ (n * e) % d = 0
Least(n, d, e) == Fits(n, d, e) /\ \A k \in Positives : Fits(n, d, k) => e <= k

\* There is one.
LEMMA LeastExists ==
  ASSUME NEW n \in Int, NEW d \in Positives
  PROVE  \E e \in 1..d : Least(n, d, e)
  <1> DEFINE S == {e \in Nat : Fits(n, d, e)}
  <1>1. d \in S
    <2>1. n * d \in Int /\ d \in Nat \ {0}
      BY DEF Positives
    <2>2. QED
      BY <2>1, Divides DEF Fits, Positives
  <1>2. PICK e \in S : \A k \in S : e <= k
    BY <1>1, Smallest
  <1>3. e \in 1..d /\ Least(n, d, e)
    BY <1>1, <1>2 DEF Least, Fits, Positives
  <1>4. QED
    BY <1>3

\* Frac takes it.
LEMMA FracIs ==
  ASSUME NEW n \in Int, NEW d \in Positives
  PROVE  /\ Frac(n, d) \in Rat
         /\ Least(n, d, Frac(n, d).d)
         /\ Frac(n, d).n * d = n * Frac(n, d).d
  <1> DEFINE Is(e) == (n * e) % d = 0 /\ \A k \in 1..(e - 1) : (n * k) % d # 0
             E == CHOOSE e \in 1..d : Is(e)
  <1>1. PICK l \in 1..d : Least(n, d, l)
    BY LeastExists
  <1>2. Is(l)
    BY <1>1 DEF Least, Fits, Positives
  <1>3. E \in 1..d /\ Is(E)
    <2> HIDE DEF Is
    <2> QED
      BY <1>2
  <1>4. Frac(n, d) = [n |-> (n * E) \div d, d |-> E]
    BY DEF Frac
  <1>5. E \in Positives /\ n * E \in Int /\ d \in Nat \ {0}
    <2> HIDE DEF E
    <2> QED
      BY <1>3 DEF Positives
  <1>6. (n * E) \div d \in Int /\ ((n * E) \div d) * d = n * E
    <2> HIDE DEF E
    <2> QED
      BY <1>3, <1>5, Divides
  <1>7. Least(n, d, E)
    <2> HIDE DEF E
    <2>1. ASSUME NEW k \in Positives, Fits(n, d, k), k < E PROVE FALSE
      BY <1>3, <1>5, <2>1 DEF Fits, Positives
    <2>2. QED
      BY <1>3, <1>5, <2>1 DEF Least, Fits, Positives
  <1>8. QED
    <2> HIDE DEF E
    <2> QED
      BY <1>4, <1>5, <1>6, <1>7 DEF Rat

\* Equal fractions are written alike.
LEMMA FracSame ==
  ASSUME NEW a \in Int, NEW b \in Positives, NEW c \in Int, NEW d \in Positives, a * d = c * b
  PROVE  Frac(a, b) = Frac(c, d)
  <1> DEFINE x == Frac(a, b)
             y == Frac(c, d)
  <1>1. \A p, r \in Int : \A q, s, k \in Positives : p * s = r * q /\ Fits(p, q, k) => Fits(r, s, k)
    <2> SUFFICES ASSUME NEW p \in Int, NEW r \in Int, NEW q \in Positives, NEW s \in Positives, NEW k \in Positives,
                        p * s = r * q, Fits(p, q, k)
                 PROVE  Fits(r, s, k)
      OBVIOUS
    <2>1. q \in Nat \ {0} /\ s \in Nat \ {0} /\ k \in Nat \ {0} /\ p * k \in Int /\ r * k \in Int
      BY DEF Positives
    <2>2. PICK m \in Int : p * k = m * q
      BY <2>1, Divides DEF Fits
    <2>3. (r * k) * q = (m * s) * q
      <3>1. (r * k) * q = (r * q) * k
        BY <2>1
      <3>2. (r * q) * k = (p * s) * k
        OBVIOUS
      <3>3. (p * s) * k = (p * k) * s
        BY <2>1
      <3>4. (p * k) * s = (m * q) * s
        BY <2>2
      <3>5. (m * q) * s = (m * s) * q
        BY <2>1
      <3>6. QED
        BY <3>1, <3>2, <3>3, <3>4, <3>5
    <2>4. r * k = m * s
      <3>1. m * s \in Int
        BY <2>1
      <3>2. QED
        BY <2>1, <2>3, <3>1, Cancel
    <2>5. QED
      BY <2>1, <2>4, Divides DEF Fits
  <1>2. x \in Rat /\ Least(a, b, x.d) /\ x.n * b = a * x.d
    BY FracIs
  <1>3. y \in Rat /\ Least(c, d, y.d) /\ y.n * d = c * y.d
    BY FracIs
  <1> HIDE DEF x, y
  <1>4. x.d \in Positives /\ y.d \in Positives /\ x.n \in Int /\ y.n \in Int
    BY <1>2, <1>3 DEF Rat
  <1>5. x.d = y.d
    <2>1. Fits(c, d, x.d) /\ Fits(a, b, y.d)
      BY <1>1, <1>2, <1>3, <1>4 DEF Least
    <2>2. QED
      BY <1>2, <1>3, <1>4, <2>1 DEF Least, Positives
  <1>6. x.n = y.n
    <2>1. b \in Nat \ {0} /\ d \in Nat \ {0} /\ x.d \in Nat \ {0} /\ b * d \in Nat \ {0}
      BY <1>4 DEF Positives
    <2>2. x.n * (b * d) = y.n * (b * d)
      <3>1. x.n * (b * d) = (x.n * b) * d
        BY <1>4, <2>1
      <3>2. (x.n * b) * d = (a * x.d) * d
        BY <1>2
      <3>3. (a * x.d) * d = (a * d) * x.d
        BY <2>1
      <3>4. (a * d) * x.d = (c * b) * x.d
        OBVIOUS
      <3>5. (c * b) * x.d = (c * x.d) * b
        BY <2>1
      <3>6. (c * x.d) * b = (y.n * d) * b
        BY <1>3, <1>5
      <3>7. (y.n * d) * b = y.n * (b * d)
        BY <1>4, <2>1
      <3>8. QED
        BY <3>1, <3>2, <3>3, <3>4, <3>5, <3>6, <3>7
    <2>3. QED
      BY <1>4, <2>1, <2>2, Cancel
  <1>7. x = [n |-> x.n, d |-> x.d] /\ y = [n |-> y.n, d |-> y.d]
    BY <1>2, <1>3 DEF Rat
  <1>8. QED
    BY <1>5, <1>6, <1>7 DEF x, y

\* Fractions as Frac writes them.
Reduced == {x \in Rat : x = Frac(x.n, x.d)}

\* Whatever Frac writes is reduced.
LEMMA FracReduced ==
  ASSUME NEW n \in Int, NEW d \in Positives
  PROVE  Frac(n, d) \in Reduced
  <1> DEFINE x == Frac(n, d)
  <1>1. x \in Rat /\ x.n * d = n * x.d
    BY FracIs
  <1> HIDE DEF x
  <1>2. Frac(x.n, x.d) = Frac(n, d)
    BY <1>1, FracSame DEF Rat
  <1>3. QED
    BY <1>1, <1>2 DEF x, Reduced

\* A reduced fraction is an integer over a positive one.
LEMMA ReducedIs ==
  ASSUME NEW x \in Reduced
  PROVE  x \in Rat /\ x.n \in Int /\ x.d \in Positives /\ x = Frac(x.n, x.d)
  BY DEF Reduced, Rat

\* Numerator and denominator can be taken times the same.
LEMMA FracTimes ==
  ASSUME NEW a \in Int, NEW b \in Positives, NEW k \in Positives
  PROVE  Frac(a * k, b * k) = Frac(a, b) /\ a * k \in Int /\ b * k \in Positives
  <1>1. a * k \in Int /\ b * k \in Positives
    BY DEF Positives
  <1>2. (a * k) * b = a * (b * k)
    BY DEF Positives
  <1>3. QED
    BY <1>1, <1>2, FracSame

\* Products of sums, term by term.
LEMMA CrossTerms ==
  ASSUME NEW p \in Int, NEW q \in Int, NEW r \in Int, NEW s \in Int, NEW b \in Int, NEW d \in Int
  PROVE  /\ (p * s + r * q) * (b * d) = (p * b) * (s * d) + (r * d) * (q * b)
         /\ (r * q - p * s) * (b * d) = (r * d) * (q * b) - (p * b) * (s * d)
  <1>1. /\ (p * s) * (b * d) = (p * b) * (s * d)
        /\ (r * q) * (b * d) = (r * d) * (q * b)
    OBVIOUS
  <1>2. p * s \in Int /\ r * q \in Int /\ b * d \in Int
    OBVIOUS
  <1>3. \A u, v, w \in Int : (u + v) * w = u * w + v * w /\ (v - u) * w = v * w - u * w
    OBVIOUS
  <1>4. QED
    BY <1>1, <1>2, <1>3

\* Frac(n, d) has a numerator and a denominator.
LEMMA FracParts ==
  ASSUME NEW n \in Int, NEW d \in Positives
  PROVE  \E p \in Int, q \in Positives : Frac(n, d) = [n |-> p, d |-> q] /\ p * d = n * q
  <1> DEFINE x == Frac(n, d)
  <1>1. x \in Rat /\ x.n * d = n * x.d
    BY FracIs
  <1> HIDE DEF x
  <1>2. x.n \in Int /\ x.d \in Positives /\ x = [n |-> x.n, d |-> x.d]
    BY <1>1 DEF Rat
  <1>3. QED
    BY <1>1, <1>2 DEF x

\* Sums of fractions.
LEMMA PlusFrac ==
  ASSUME NEW a \in Int, NEW b \in Positives, NEW c \in Int, NEW d \in Positives
  PROVE  Plus(Frac(a, b), Frac(c, d)) = Frac(a * d + c * b, b * d)
  <1>1. PICK p \in Int, q \in Positives : Frac(a, b) = [n |-> p, d |-> q] /\ p * b = a * q
    BY FracParts
  <1>2. PICK r \in Int, t \in Positives : Frac(c, d) = [n |-> r, d |-> t] /\ r * d = c * t
    BY FracParts
  <1>3. Plus(Frac(a, b), Frac(c, d)) = Frac(p * t + r * q, q * t)
    BY <1>1, <1>2 DEF Plus
  <1>4. b \in Int /\ d \in Int /\ q \in Int /\ t \in Int
    BY DEF Positives
  <1>5. p * t + r * q \in Int /\ q * t \in Positives /\ a * d + c * b \in Int /\ b * d \in Positives
    BY DEF Positives
  <1>6. (p * t + r * q) * (b * d) = (p * b) * (t * d) + (r * d) * (q * b)
    BY <1>4, CrossTerms
  <1>7. (a * d + c * b) * (q * t) = (a * q) * (t * d) + (c * t) * (q * b)
    <2>1. (a * d + c * b) * (q * t) = (a * q) * (d * t) + (c * t) * (b * q)
      BY <1>4, CrossTerms
    <2>2. d * t = t * d /\ b * q = q * b
      BY <1>4
    <2>3. QED
      BY <2>1, <2>2
  <1>8. (p * t + r * q) * (b * d) = (a * d + c * b) * (q * t)
    BY <1>1, <1>2, <1>6, <1>7
  <1>9. QED
    BY <1>3, <1>5, <1>8, FracSame

\* Sums over one denominator.
LEMMA PlusOver ==
  ASSUME NEW a \in Int, NEW c \in Int, NEW d \in Positives
  PROVE  Plus(Frac(a, d), Frac(c, d)) = Frac(a + c, d)
  <1>1. Plus(Frac(a, d), Frac(c, d)) = Frac(a * d + c * d, d * d)
    BY PlusFrac
  <1>2. a * d + c * d = (a + c) * d /\ a + c \in Int
    BY DEF Positives
  <1>3. Frac((a + c) * d, d * d) = Frac(a + c, d)
    BY <1>2, FracTimes
  <1>4. QED
    BY <1>1, <1>2, <1>3

\* Multiples of a fraction.
LEMMA TimesFrac ==
  ASSUME NEW a \in Int, NEW b \in Positives, NEW k \in Int
  PROVE  Times(Frac(a, b), k) = Frac(a * k, b)
  <1> DEFINE x == Frac(a, b)
  <1>1. x.n \in Int /\ x.d \in Positives /\ x.n * b = a * x.d
    BY FracIs DEF Rat
  <1>2. Times(x, k) = Frac(x.n * k, x.d)
    BY DEF Times
  <1> HIDE DEF x
  <1>3. (x.n * k) * b = (a * k) * x.d
    <2>1. (x.n * k) * b = (x.n * b) * k
      BY <1>1 DEF Positives
    <2>2. (x.n * b) * k = (a * x.d) * k
      BY <1>1
    <2>3. (a * x.d) * k = (a * k) * x.d
      BY <1>1 DEF Positives
    <2>4. QED
      BY <2>1, <2>2, <2>3
  <1>4. x.n * k \in Int /\ a * k \in Int
    BY <1>1
  <1>5. Frac(x.n * k, x.d) = Frac(a * k, b)
    BY <1>1, <1>3, <1>4, FracSame
  <1>6. QED
    BY <1>2, <1>5 DEF x

\* Parts of a fraction.
LEMMA OverFrac ==
  ASSUME NEW a \in Int, NEW b \in Positives, NEW k \in Positives
  PROVE  Over(Frac(a, b), k) = Frac(a, b * k)
  <1> DEFINE x == Frac(a, b)
  <1>1. x.n \in Int /\ x.d \in Positives /\ x.n * b = a * x.d
    BY FracIs DEF Rat
  <1>2. Over(x, k) = Frac(x.n, x.d * k)
    BY DEF Over
  <1> HIDE DEF x
  <1>3. x.n * (b * k) = a * (x.d * k)
    <2>1. x.n * (b * k) = (x.n * b) * k
      BY <1>1 DEF Positives
    <2>2. (x.n * b) * k = (a * x.d) * k
      BY <1>1
    <2>3. (a * x.d) * k = a * (x.d * k)
      BY <1>1 DEF Positives
    <2>4. QED
      BY <2>1, <2>2, <2>3
  <1>4. x.d * k \in Positives /\ b * k \in Positives
    BY <1>1 DEF Positives
  <1>5. Frac(x.n, x.d * k) = Frac(a, b * k)
    BY <1>1, <1>3, <1>4, FracSame
  <1>6. QED
    BY <1>2, <1>5 DEF x

\* A product of an integer and a positive number has the sign of the integer.
LEMMA SignOfProduct ==
  ASSUME NEW a \in Int, NEW k \in Positives
  PROVE  a * k >= 0 <=> a >= 0
  <1>1. k \in Int /\ k >= 1
    BY DEF Positives
  <1>2. CASE a >= 0
    BY <1>1, <1>2
  <1>3. CASE a <= -1
    <2>1. (-a) * k >= 1
      BY <1>1, <1>3
    <2>2. (-a) * k = -(a * k)
      BY <1>1
    <2>3. QED
      BY <1>1, <1>3, <2>1, <2>2
  <1>4. QED
    BY <1>2, <1>3

\* Which of two fractions is larger does not depend on how they are written.
LEMMA AtMostFrac ==
  ASSUME NEW a \in Int, NEW b \in Positives, NEW c \in Int, NEW d \in Positives
  PROVE  AtMost(Frac(a, b), Frac(c, d)) <=> a * d <= c * b
  <1>1. PICK p \in Int, q \in Positives : Frac(a, b) = [n |-> p, d |-> q] /\ p * b = a * q
    BY FracParts
  <1>2. PICK r \in Int, t \in Positives : Frac(c, d) = [n |-> r, d |-> t] /\ r * d = c * t
    BY FracParts
  <1>3. AtMost(Frac(a, b), Frac(c, d)) <=> p * t <= r * q
    BY <1>1, <1>2 DEF AtMost
  <1>4. b \in Int /\ d \in Int /\ q \in Int /\ t \in Int
    BY DEF Positives
  <1>5. r * q - p * t \in Int /\ q * t \in Positives /\ c * b - a * d \in Int /\ b * d \in Positives
    BY DEF Positives
  <1>6. (r * q - p * t) * (b * d) = (r * d) * (q * b) - (p * b) * (t * d)
    BY <1>4, CrossTerms
  <1>7. (c * b - a * d) * (q * t) = (c * t) * (q * b) - (a * q) * (t * d)
    <2>1. (c * b - a * d) * (q * t) = (c * t) * (b * q) - (a * q) * (d * t)
      BY <1>4, CrossTerms
    <2>2. d * t = t * d /\ b * q = q * b
      BY <1>4
    <2>3. QED
      BY <2>1, <2>2
  <1>8. (r * q - p * t) * (b * d) = (c * b - a * d) * (q * t)
    BY <1>1, <1>2, <1>6, <1>7
  <1>9. r * q - p * t >= 0 <=> c * b - a * d >= 0
    <2>1. (r * q - p * t) * (b * d) >= 0 <=> r * q - p * t >= 0
      BY <1>5, SignOfProduct
    <2>2. (c * b - a * d) * (q * t) >= 0 <=> c * b - a * d >= 0
      BY <1>5, SignOfProduct
    <2>3. QED
      BY <1>8, <2>1, <2>2
  <1>10. p * t \in Int /\ r * q \in Int /\ a * d \in Int /\ c * b \in Int
    BY <1>4
  <1>11. QED
    BY <1>3, <1>9, <1>10
----------------------------------------------------------------------------
(* One fill. *)

\* Quantities are multiples of the venue's step.
Multiples == {k * Lot : k \in Int}

\* Two of them never differ by one unit, the _POSITION_EPS of a reversal.
LEMMA MultipleFacts ==
  /\ Multiples \subseteq Int /\ 0 \in Multiples
  /\ \A x, y \in Multiples : x + y \in Multiples /\ -x \in Multiples /\ x # y + 1
  <1>1. Lot \in Int /\ Lot > 1
    BY LotAboveEps
  <1>2. Multiples \subseteq Int
    BY <1>1 DEF Multiples
  <1>3. 0 \in Multiples
    <2>1. 0 = 0 * Lot
      BY <1>1
    <2>2. QED
      BY <2>1 DEF Multiples
  <1>4. ASSUME NEW x \in Multiples, NEW y \in Multiples
        PROVE  x + y \in Multiples /\ -x \in Multiples /\ x # y + 1
    <2>1. PICK j \in Int : x = j * Lot
      BY DEF Multiples
    <2>2. PICK k \in Int : y = k * Lot
      BY DEF Multiples
    <2>3. x + y = (j + k) * Lot /\ -x = (-j) * Lot /\ x - y = (j - k) * Lot
      BY <1>1, <2>1, <2>2
    <2>4. x + y \in Multiples /\ -x \in Multiples
      BY <2>3 DEF Multiples
    <2>5. (j - k) * Lot # 1
      <3>1. CASE j - k <= 0
        BY <1>1, <3>1, SignOfProduct DEF Positives
      <3>2. CASE j - k >= 1
        <4>1. (j - k - 1) * Lot >= 0
          BY <1>1, <3>2, SignOfProduct DEF Positives
        <4>2. (j - k - 1) * Lot = (j - k) * Lot - Lot
          BY <1>1
        <4>3. (j - k) * Lot \in Int
          BY <1>1
        <4>4. QED
          BY <1>1, <4>1, <4>2, <4>3
      <3>3. QED
        BY <3>1, <3>2
    <2>6. x \in Int /\ y \in Int
      BY <1>2
    <2>7. QED
      BY <2>3, <2>4, <2>5, <2>6
  <1>5. QED
    BY <1>2, <1>3, <1>4

\* Fills are whole lots, at a positive price.
LEMMA FillFacts ==
  ASSUME NEW f \in Fills
  PROVE  /\ f = [signed |-> f.signed, price |-> f.price]
         /\ f.signed \in Multiples /\ f.signed \in Int /\ f.signed # 0
         /\ f.price \in Prices /\ f.price \in Positives /\ f.price \in Int
         /\ f # NotFilled
  <1>1. Lot \in Int /\ Lot > 1
    BY LotAboveEps
  <1>2. f \in [signed : {s * k * Lot : s \in {-1, 1}, k \in 1..MaxLots}, price : Prices]
    BY DEF Fills
  <1>3. f = [signed |-> f.signed, price |-> f.price] /\ f.price \in Prices
    BY <1>2
  <1>4. PICK s \in {-1, 1}, k \in 1..MaxLots : f.signed = s * k * Lot
    BY <1>2
  <1>5. s * k \in Int /\ s * k # 0 /\ k \in Int
    BY <1>4
  <1>6. f.signed \in Multiples
    BY <1>4, <1>5 DEF Multiples
  <1>7. f.signed # 0
    <2> DEFINE j == s * k
    <2>1. f.signed = j * Lot /\ j \in Int /\ j # 0
      BY <1>4, <1>5
    <2> HIDE DEF j
    <2>2. QED
      BY <1>1, <2>1
  <1>8. f.price \in Positives /\ f.price \in Int
    BY <1>3, PricesPositive DEF Positives
  <1>9. QED
    BY <1>3, <1>6, <1>7, <1>8, MultipleFacts DEF NotFilled

\* The row that _fill_math computes on.
IsRow(r) == /\ r = [net |-> r.net, avg |-> r.avg, realized |-> r.realized]
            /\ r.net \in Multiples /\ r.avg \in Reduced /\ r.realized \in Reduced

\* The gain per unit, of a fill at price p against the average.
Gain(avg, p) == Plus(Whole(p), Times(avg, -1))

\* The cases of _fill_math: from flat, increase, reversal, close, partial close.
FromFlat(r, f) == r.net = 0 /\ ApplyFill(r, f).avg = Whole(f.price)
                  /\ ApplyFill(r, f).realized = Plus(r.realized, Whole(0))
Increases(r, f) ==
    /\ r.net # 0 /\ SameSide(r.net, f.signed)
    /\ ApplyFill(r, f).avg = Over(Plus(Times(r.avg, Abs(r.net)), Whole(Abs(f.signed) * f.price)),
                                  Abs(r.net) + Abs(f.signed))
    /\ ApplyFill(r, f).realized = Plus(r.realized, Whole(0))
Reverses(r, f) ==
    /\ r.net # 0 /\ ~SameSide(r.net, f.signed) /\ Abs(f.signed) > Abs(r.net)
    /\ ApplyFill(r, f).avg = Whole(f.price)
    /\ ApplyFill(r, f).realized = Plus(r.realized, Times(Gain(r.avg, f.price), r.net))
Closes(r, f) ==
    /\ r.net # 0 /\ r.net + f.signed = 0
    /\ ApplyFill(r, f).avg = Whole(0)
    /\ ApplyFill(r, f).realized = Plus(r.realized, Times(Gain(r.avg, f.price), r.net))
Reduces(r, f) ==
    /\ r.net # 0 /\ ~SameSide(r.net, f.signed) /\ Abs(f.signed) < Abs(r.net)
    /\ ApplyFill(r, f).avg = r.avg
    /\ ApplyFill(r, f).realized = Plus(r.realized, Times(Gain(r.avg, f.price), -f.signed))

\* There are no others: a fill is never one unit more than the position it closes.
LEMMA FillCases ==
  ASSUME NEW r, IsRow(r), NEW f \in Fills
  PROVE  /\ ApplyFill(r, f).net = r.net + f.signed
         /\ FromFlat(r, f) \/ Increases(r, f) \/ Reverses(r, f) \/ Closes(r, f) \/ Reduces(r, f)
  <1> DEFINE o == r.net
             s == f.signed
  <1>1. o \in Int /\ s \in Int /\ s # 0
    BY FillFacts, MultipleFacts DEF IsRow
  <1>2. ApplyFill(r, f).net = o + s /\ ApplyFill(r, f).avg = NewAvg(o, r.avg, s, f.price)
        /\ ApplyFill(r, f).realized = Plus(r.realized, Realized(o, r.avg, s, f.price))
    BY DEF ApplyFill
  <1>3. Abs(s) # Abs(o) + 1
    <2>1. o \in Multiples /\ s \in Multiples
      BY FillFacts DEF IsRow
    <2>2. Abs(o) \in Multiples /\ Abs(s) \in Multiples
      BY <2>1, MultipleFacts DEF Abs
    <2>3. QED
      BY <2>2, MultipleFacts
  <1>4. Flat(o) <=> o = 0
    BY <1>1 DEF Flat, Abs
  <1>5. Flat(o + s) <=> o + s = 0
    BY <1>1 DEF Flat, Abs
  <1>6. CASE o = 0
    BY <1>2, <1>4, <1>6 DEF FromFlat, NewAvg, Realized
  <1>7. CASE o # 0 /\ SameSide(o, s)
    BY <1>2, <1>4, <1>7 DEF Increases, NewAvg, Realized
  <1>8. CASE o # 0 /\ ~SameSide(o, s)
    <2> DEFINE k == (IF o > 0 THEN 1 ELSE -1) * Smaller(Abs(s), Abs(o))
    <2>1. ApplyFill(r, f).realized = Plus(r.realized, Times(Gain(r.avg, f.price), k))
      BY <1>2, <1>4, <1>8 DEF Realized, Gain
    <2>2. CASE Abs(s) > Abs(o)
      <3>1. Abs(s) > Abs(o) + 1
        BY <1>1, <1>3, <2>2 DEF Abs
      <3>2. k = o
        BY <1>1, <2>2 DEF Smaller, Abs
      <3>3. NewAvg(o, r.avg, s, f.price) = Whole(f.price)
        BY <1>4, <1>8, <3>1 DEF NewAvg
      <3>4. QED
        BY <1>2, <1>8, <2>1, <2>2, <3>2, <3>3 DEF Reverses
    <2>3. CASE Abs(s) = Abs(o)
      <3>1. o + s = 0
        BY <1>1, <1>8, <2>3 DEF Abs, SameSide
      <3>2. k = o
        BY <1>1, <2>3 DEF Smaller, Abs
      <3>3. ~ Abs(s) > Abs(o) + 1
        BY <1>1, <2>3 DEF Abs
      <3>4. NewAvg(o, r.avg, s, f.price) = Whole(0)
        BY <1>4, <1>5, <1>8, <3>1, <3>3 DEF NewAvg
      <3>5. QED
        BY <1>2, <1>8, <2>1, <3>1, <3>2, <3>4 DEF Closes
    <2>4. CASE Abs(s) < Abs(o)
      <3>1. o + s # 0 /\ ~ Abs(s) > Abs(o) + 1
        BY <1>1, <2>4 DEF Abs
      <3>2. k = -s
        BY <1>1, <1>8, <2>4 DEF Smaller, Abs, SameSide
      <3>3. NewAvg(o, r.avg, s, f.price) = r.avg
        BY <1>4, <1>5, <1>8, <3>1 DEF NewAvg
      <3>4. QED
        BY <1>2, <1>8, <2>1, <2>4, <3>2, <3>3 DEF Reduces
    <2>5. QED
      BY <1>1, <2>2, <2>3, <2>4 DEF Abs
  <1>9. QED
    BY <1>2, <1>6, <1>7, <1>8

\* A whole number, over any denominator.
LEMMA WholeFrac ==
  ASSUME NEW k \in Int, NEW d \in Positives
  PROVE  Whole(k) = Frac(k * d, d) /\ k * d \in Int
  <1>1. 1 \in Positives /\ 1 * d = d /\ k * d \in Int
    BY DEF Positives
  <1>2. Frac(k * d, 1 * d) = Frac(k, 1)
    BY <1>1, FracTimes
  <1>3. QED
    BY <1>1, <1>2 DEF Whole

\* Two fractions, over one denominator.
LEMMA Common ==
  ASSUME NEW x \in Reduced, NEW y \in Reduced
  PROVE  \E a, c \in Int, d \in Positives : x = Frac(a, d) /\ y = Frac(c, d)
  <1>1. PICK a \in Int, b \in Positives : x = Frac(a, b)
    BY ReducedIs
  <1>2. PICK c \in Int, d \in Positives : y = Frac(c, d)
    BY ReducedIs
  <1>3. x = Frac(a * d, b * d) /\ a * d \in Int /\ b * d \in Positives
    BY <1>1, FracTimes
  <1>4. y = Frac(c * b, d * b) /\ c * b \in Int
    BY <1>2, FracTimes
  <1>5. d * b = b * d
    BY DEF Positives
  <1>6. QED
    BY <1>3, <1>4, <1>5

\* The gain, over the denominator of the average.
LEMMA GainFrac ==
  ASSUME NEW a \in Int, NEW d \in Positives, NEW p \in Int
  PROVE  Gain(Frac(a, d), p) = Frac(p * d - a, d) /\ p * d - a \in Int
  <1>1. Whole(p) = Frac(p * d, d) /\ p * d \in Int
    BY WholeFrac
  <1>2. Times(Frac(a, d), -1) = Frac(a * (-1), d)
    BY TimesFrac
  <1>3. a * (-1) = -a /\ -a \in Int
    OBVIOUS
  <1>4. Plus(Frac(p * d, d), Frac(-a, d)) = Frac(p * d + (-a), d)
    BY <1>1, <1>3, PlusOver
  <1>5. p * d + (-a) = p * d - a /\ p * d - a \in Int
    BY <1>1
  <1>6. QED
    BY <1>1, <1>2, <1>3, <1>4, <1>5 DEF Gain

\* The average after an increase.
LEMMA IncreaseFrac ==
  ASSUME NEW a \in Int, NEW d \in Positives, NEW p \in Int, NEW m \in Positives, NEW n \in Positives
  PROVE  /\ Over(Plus(Times(Frac(a, d), m), Whole(n * p)), m + n) = Frac(a * m + n * p * d, d * (m + n))
         /\ a * m + n * p * d \in Int /\ m + n \in Positives /\ d * (m + n) \in Positives
  <1>1. m \in Int /\ n \in Int /\ d \in Int /\ n * p \in Int /\ a * m \in Int /\ n * p * d \in Int
        /\ m + n \in Positives /\ d * (m + n) \in Positives /\ a * m + n * p * d \in Int
    BY DEF Positives
  <1>2. Times(Frac(a, d), m) = Frac(a * m, d)
    BY <1>1, TimesFrac
  <1>3. Whole(n * p) = Frac(n * p * d, d)
    BY <1>1, WholeFrac
  <1>4. Plus(Frac(a * m, d), Frac(n * p * d, d)) = Frac(a * m + n * p * d, d)
    BY <1>1, PlusOver
  <1>5. Over(Frac(a * m + n * p * d, d), m + n) = Frac(a * m + n * p * d, d * (m + n))
    BY <1>1, OverFrac
  <1>6. QED
    BY <1>1, <1>2, <1>3, <1>4, <1>5

\* Times the new quantity it is what the position cost.
LEMMA IncreaseCost ==
  ASSUME NEW a \in Int, NEW d \in Positives, NEW p \in Int, NEW m \in Positives, NEW n \in Positives,
         NEW i \in {-1, 1}
  PROVE  Times(Frac(a * m + n * p * d, d * (m + n)), i * (m + n)) = Frac(a * (i * m) + (i * n) * p * d, d)
  <1> DEFINE x == a * m + n * p * d
             k == m + n
  <1>1. x \in Int /\ k \in Positives /\ d * k \in Positives /\ i * k \in Int /\ i \in Int
    BY DEF Positives
  <1>2. x * i = a * (i * m) + (i * n) * p * d
    <2>1. CASE i = 1
      BY <2>1 DEF Positives
    <2>2. CASE i = -1
      BY <2>2 DEF Positives
    <2>3. QED
      BY <2>1, <2>2
  <1> HIDE DEF x, k
  <1>3. Times(Frac(x, d * k), i * k) = Frac(x * (i * k), d * k)
    BY <1>1, TimesFrac
  <1>4. x * (i * k) = (x * i) * k /\ x * i \in Int
    BY <1>1 DEF Positives
  <1>5. Frac((x * i) * k, d * k) = Frac(x * i, d)
    BY <1>1, <1>4, FracTimes
  <1>6. QED
    BY <1>2, <1>3, <1>4, <1>5 DEF x, k

\* Realized PnL is the cash that came in plus what the open position cost.
Basis(r, c) == r.realized = Plus(c, Times(r.avg, r.net))

\* Over one denominator.
LEMMA BasisFrac ==
  ASSUME NEW r, NEW c, NEW a \in Int, NEW b \in Int, NEW d \in Positives,
         r.avg = Frac(a, d), c = Frac(b, d), r.net \in Int
  PROVE  Basis(r, c) <=> r.realized = Frac(b + a * r.net, d)
  <1> DEFINE o == r.net
             k == a * o
  <1>a. o \in Int /\ k \in Int
    OBVIOUS
  <1>b. Times(Frac(a, d), o) = Frac(k, d)
    <2> HIDE DEF o
    <2> QED
      BY <1>a, TimesFrac
  <1>c. Plus(Frac(b, d), Frac(k, d)) = Frac(b + k, d)
    <2> HIDE DEF k
    <2> QED
      BY <1>a, PlusOver
  <1>2. Plus(c, Times(r.avg, r.net)) = Frac(b + a * r.net, d)
    BY <1>b, <1>c
  <1>3. QED
    BY <1>2 DEF Basis

\* Signs come out of a product.
LEMMA SignsOut == ASSUME NEW e \in Int, NEW a \in Int, NEW s \in Int PROVE (e - a) * (-s) = a * s - s * e
  <1>1. (e - a) * (-s) = -((e - a) * s)
    OBVIOUS
  <1>2. (e - a) * s = s * e - a * s
    OBVIOUS
  <1>3. s * e \in Int /\ a * s \in Int
    OBVIOUS
  <1>4. QED
    BY <1>1, <1>2, <1>3

\* A fill takes or brings its price in cash.
LEMMA FillKeepsBasis ==
  ASSUME NEW r, IsRow(r), NEW c \in Reduced, Basis(r, c), NEW f \in Fills
  PROVE  Basis(ApplyFill(r, f), Plus(c, Whole(-(f.signed * f.price))))
  <1> DEFINE o == r.net
             s == f.signed
             p == f.price
             t == ApplyFill(r, f)
  <1>1. o \in Int /\ s \in Int /\ s # 0 /\ p \in Int
    BY FillFacts, MultipleFacts DEF IsRow
  <1>2. PICK a \in Int, b \in Int, d \in Positives : r.avg = Frac(a, d) /\ c = Frac(b, d)
    BY Common DEF IsRow
  <1>d. d \in Int
    BY DEF Positives
  <1>3. r.realized = Frac(b + a * o, d)
    BY <1>1, <1>2, BasisFrac
  <1>4. t.net = o + s
    BY FillCases
  <1> DEFINE cash1 == b - s * p * d
  <1>5. Plus(c, Whole(-(s * p))) = Frac(cash1, d) /\ cash1 \in Int
    <2>1. Whole(-(s * p)) = Frac((-(s * p)) * d, d) /\ (-(s * p)) * d \in Int
      BY <1>1, WholeFrac
    <2>2. Plus(Frac(b, d), Frac((-(s * p)) * d, d)) = Frac(b + (-(s * p)) * d, d)
      BY <2>1, PlusOver
    <2>3. b + (-(s * p)) * d = cash1 /\ cash1 \in Int
      BY <1>1, <1>d
    <2>4. QED
      BY <1>2, <2>1, <2>2, <2>3
  <1>6. r.realized = Frac(cash1 + (a * o + s * p * d), d) /\ a * o + s * p * d \in Int
    <2>1. cash1 + (a * o + s * p * d) = b + a * o
      BY <1>1, <1>d
    <2>2. a * o + s * p * d \in Int
      BY <1>1, <1>d
    <2>3. QED
      BY <1>3, <2>1, <2>2
  <1> HIDE DEF cash1
  \* Where the average is a fraction over d, the identity is one of integers.
  <1>7. ASSUME NEW n \in Int, t.avg = Frac(n, d), t.realized = Frac(cash1 + n * (o + s), d)
        PROVE  Basis(t, Plus(c, Whole(-(s * p))))
    <2>1. o + s \in Int
      BY <1>1
    <2>2. QED
      <3> DEFINE m == o + s
                 v == n * m
      <3>1. m \in Int /\ v \in Int
        BY <2>1
      <3>2. Times(Frac(n, d), m) = Frac(v, d)
        <4> HIDE DEF m
        <4> QED
          BY <3>1, TimesFrac
      <3>3. Plus(Frac(cash1, d), Frac(v, d)) = Frac(cash1 + v, d)
        <4> HIDE DEF v
        <4> QED
          BY <1>5, <3>1, PlusOver
      <3>4. Times(t.avg, t.net) = Times(Frac(n, d), m)
        BY <1>4, <1>7
      <3>5. t.realized = Frac(cash1 + v, d)
        BY <1>7
      <3> HIDE DEF t, v, m
      <3>6. QED
        BY <1>5, <3>2, <3>3, <3>4, <3>5 DEF Basis
  <1>8. ASSUME NEW k \in Int, t.realized = Plus(r.realized, Times(Gain(r.avg, p), k))
        PROVE  t.realized = Frac(cash1 + (a * o + s * p * d) + (p * d - a) * k, d)
    <2>1. Gain(r.avg, p) = Frac(p * d - a, d) /\ p * d - a \in Int
      <3>1. Gain(Frac(a, d), p) = Frac(p * d - a, d) /\ p * d - a \in Int
        <4> HIDE DEF p
        <4> QED
          BY <1>1, GainFrac
      <3>2. QED
        BY <1>2, <3>1
    <2>2. Times(Frac(p * d - a, d), k) = Frac((p * d - a) * k, d) /\ (p * d - a) * k \in Int
      BY <2>1, TimesFrac
    <2>3. cash1 + (a * o + s * p * d) \in Int
      BY <1>5, <1>6
    <2>4. QED
      BY <1>6, <1>8, <2>1, <2>2, <2>3, PlusOver
  <1>9. Whole(p) = Frac(p * d, d) /\ p * d \in Int
    BY <1>1, WholeFrac
  <1>10. ASSUME t.realized = Plus(r.realized, Whole(0)) PROVE t.realized = Frac(cash1 + (a * o + s * p * d), d)
    <2>1. Whole(0) = Frac(0, d)
      <3>1. Whole(0) = Frac(0 * d, d)
        BY WholeFrac
      <3>2. 0 * d = 0
        BY <1>d
      <3>3. QED
        BY <3>1, <3>2
    <2>2. cash1 + (a * o + s * p * d) \in Int
      BY <1>5, <1>6
    <2>3. Plus(Frac(cash1 + (a * o + s * p * d), d), Frac(0, d)) = Frac(cash1 + (a * o + s * p * d) + 0, d)
      BY <2>2, PlusOver
    <2>4. QED
      BY <1>6, <1>10, <2>1, <2>2, <2>3
  <1>11. CASE FromFlat(r, f)
    <2>1. t.avg = Frac(p * d, d) /\ t.realized = Frac(cash1 + (a * o + s * p * d), d)
      BY <1>9, <1>10, <1>11 DEF FromFlat
    <2>2. a * o + s * p * d = (p * d) * (o + s)
      <3>1. o = 0
        BY <1>11 DEF FromFlat
      <3>2. QED
        BY <1>1, <1>d, <3>1
    <2>3. QED
      BY <1>7, <1>9, <2>1, <2>2
  <1>12. CASE Increases(r, f)
    <2>1. PICK i \in {-1, 1}, m \in Positives, n \in Positives :
             o = i * m /\ s = i * n /\ Abs(o) = m /\ Abs(s) = n /\ o + s = i * (m + n)
      <3>1. CASE o > 0
        <4>1. s > 0
          BY <1>1, <1>12, <3>1 DEF Increases, SameSide
        <4>2. o = 1 * o /\ s = 1 * s /\ Abs(o) = o /\ Abs(s) = s /\ o + s = 1 * (o + s) /\ o \in Positives /\ s \in Positives
          BY <1>1, <3>1, <4>1 DEF Abs, Positives
        <4>3. QED
          BY <4>2
      <3>2. CASE o < 0
        <4>1. s < 0
          BY <1>1, <1>12, <3>2 DEF Increases, SameSide
        <4>2. o = (-1) * (-o) /\ s = (-1) * (-s) /\ Abs(o) = -o /\ Abs(s) = -s
              /\ o + s = (-1) * ((-o) + (-s)) /\ -o \in Positives /\ -s \in Positives
          BY <1>1, <3>2, <4>1 DEF Abs, Positives
        <4>3. QED
          BY <4>2
      <3>3. QED
        BY <1>1, <1>12, <3>1, <3>2 DEF Increases
    <2>2. t.avg = Frac(a * m + n * p * d, d * (m + n))
      <3>1. t.avg = Over(Plus(Times(Frac(a, d), m), Whole(n * p)), m + n)
        BY <1>2, <1>12, <2>1 DEF Increases
      <3> HIDE DEF p, t
      <3>2. QED
        BY <1>1, <3>1, IncreaseFrac
    <2>3. Times(t.avg, t.net) = Frac(a * o + s * p * d, d)
      BY <1>1, <1>4, <2>1, <2>2, IncreaseCost
    <2>4. Plus(Frac(cash1, d), Frac(a * o + s * p * d, d)) = Frac(cash1 + (a * o + s * p * d), d)
      BY <1>5, <1>6, PlusOver
    <2>5. t.realized = Frac(cash1 + (a * o + s * p * d), d)
      BY <1>10, <1>12 DEF Increases
    <2>6. QED
      BY <1>5, <2>3, <2>4, <2>5 DEF Basis
  <1>13. CASE Reverses(r, f)
    <2>1. t.avg = Frac(p * d, d) /\ t.realized = Frac(cash1 + (a * o + s * p * d) + (p * d - a) * o, d)
      BY <1>1, <1>8, <1>9, <1>13 DEF Reverses
    <2>2. cash1 + (a * o + s * p * d) + (p * d - a) * o = cash1 + (p * d) * (o + s)
      <3>1. (a * o + s * p * d) + (p * d - a) * o = (p * d) * (o + s)
        BY <1>1, <1>d
      <3>2. (p * d - a) * o \in Int /\ (p * d) * (o + s) \in Int
        BY <1>1, <1>d
      <3>3. QED
        BY <1>5, <1>6, <3>1, <3>2
    <2>3. QED
      BY <1>7, <1>9, <2>1, <2>2
  <1>14. CASE Closes(r, f)
    <2>1. t.avg = Frac(0, d)
      <3>1. Whole(0) = Frac(0 * d, d)
        BY WholeFrac
      <3>2. 0 * d = 0
        BY <1>d
      <3>3. QED
        BY <1>14, <3>1, <3>2 DEF Closes
    <2>2. t.realized = Frac(cash1 + (a * o + s * p * d) + (p * d - a) * o, d)
      BY <1>1, <1>8, <1>14 DEF Closes
    <2>3. cash1 + (a * o + s * p * d) + (p * d - a) * o = cash1 + 0 * (o + s)
      <3>1. o + s = 0
        BY <1>14 DEF Closes
      <3>2. s = -o
        BY <1>1, <3>1
      <3>3. (a * o + (-o) * p * d) + (p * d - a) * o = 0
        BY <1>1, <1>d
      <3>4. (p * d - a) * o \in Int
        BY <1>1, <1>d
      <3>5. QED
        BY <1>5, <1>6, <3>1, <3>2, <3>3, <3>4
    <2>4. QED
      BY <1>7, <2>1, <2>2, <2>3
  <1>15. CASE Reduces(r, f)
    <2>1. t.avg = Frac(a, d) /\ t.realized = Frac(cash1 + (a * o + s * p * d) + (p * d - a) * (-s), d)
      BY <1>1, <1>2, <1>8, <1>15 DEF Reduces
    <2>2. cash1 + (a * o + s * p * d) + (p * d - a) * (-s) = cash1 + a * (o + s)
      <3>1. (a * o + s * p * d) + (p * d - a) * (-s) = a * (o + s)
        <4>1. (p * d - a) * (-s) = a * s - s * p * d
          <5>1. \A e \in Int : (e - a) * (-s) = a * s - s * e
            BY <1>1, SignsOut
          <5>2. s * (p * d) = s * p * d /\ p * d \in Int
            BY <1>1, <1>d
          <5>3. QED
            BY <5>1, <5>2
        <4>2. a * (o + s) = a * o + a * s /\ a * o \in Int /\ a * s \in Int /\ s * p * d \in Int
          BY <1>1, <1>d
        <4>3. QED
          BY <4>1, <4>2
      <3>2. (p * d - a) * (-s) \in Int /\ a * (o + s) \in Int
        BY <1>1, <1>d
      <3>3. QED
        BY <1>5, <1>6, <3>1, <3>2
    <2>3. QED
      BY <1>7, <2>1, <2>2
  <1>16. QED
    BY <1>11, <1>12, <1>13, <1>14, <1>15, FillCases

\* Sums, multiples, parts and whole numbers are reduced.
LEMMA Closed ==
  ASSUME NEW x \in Reduced, NEW y \in Reduced, NEW k \in Int, NEW m \in Positives
  PROVE  Plus(x, y) \in Reduced /\ Times(x, k) \in Reduced /\ Over(x, m) \in Reduced /\ Whole(k) \in Reduced
  <1>1. x.n \in Int /\ x.d \in Positives /\ y.n \in Int /\ y.d \in Positives /\ 1 \in Positives
    BY ReducedIs DEF Positives
  <1> DEFINE a == x.n
             b == x.d
             c == y.n
             d == y.d
  <1>2. a * d + c * b \in Int /\ b * d \in Positives /\ a * k \in Int /\ b * m \in Positives
    BY <1>1 DEF Positives
  <1>3. Plus(x, y) = Frac(a * d + c * b, b * d) /\ Times(x, k) = Frac(a * k, b)
        /\ Over(x, m) = Frac(a, b * m) /\ Whole(k) = Frac(k, 1)
    BY DEF Plus, Times, Over, Whole
  <1> HIDE DEF a, b, c, d
  <1>4. a \in Int /\ b \in Positives
    BY <1>1 DEF a, b
  <1>5. QED
    BY <1>1, <1>2, <1>3, <1>4, FracReduced

\* A row stays one.
LEMMA FillIsRow ==
  ASSUME NEW r, IsRow(r), NEW f \in Fills
  PROVE  IsRow(ApplyFill(r, f))
  <1> DEFINE o == r.net
             s == f.signed
             p == f.price
             t == ApplyFill(r, f)
  <1>1. o \in Int /\ s \in Int /\ s # 0 /\ p \in Int
    BY FillFacts, MultipleFacts DEF IsRow
  <1>2. t.net \in Multiples
    <2>1. r.net \in Multiples /\ f.signed \in Multiples
      BY FillFacts DEF IsRow
    <2>2. t.net = r.net + f.signed
      BY FillCases
    <2>3. \A x, y \in Multiples : x + y \in Multiples
      BY MultipleFacts
    <2>4. r.net + f.signed \in Multiples
      BY <2>1, <2>3
    <2>5. QED
      BY <2>2, <2>4
  <1>3. t = [net |-> t.net, avg |-> t.avg, realized |-> t.realized]
    BY DEF ApplyFill
  <1>4. 1 \in Positives /\ r.avg \in Reduced /\ r.realized \in Reduced
    BY DEF IsRow, Positives
  <1>5. \A k \in Int : Whole(k) \in Reduced
    BY <1>4, Closed
  <1>6. ASSUME NEW k \in Int PROVE Plus(r.realized, Times(Gain(r.avg, p), k)) \in Reduced
    <2>1. Gain(r.avg, p) \in Reduced
      <3>1. Times(r.avg, -1) \in Reduced /\ Whole(p) \in Reduced
        BY <1>1, <1>4, -1 \in Int, Closed
      <3>2. Plus(Whole(p), Times(r.avg, -1)) \in Reduced
        BY <1>4, <3>1, Closed
      <3>3. QED
        BY <3>2 DEF Gain
    <2>2. Times(Gain(r.avg, p), k) \in Reduced
      BY <1>4, <2>1, Closed
    <2>3. QED
      BY <1>4, <2>2, Closed
  <1>7. Plus(r.realized, Whole(0)) \in Reduced
    <2>1. Whole(0) \in Reduced
      BY <1>5
    <2>2. QED
      BY <1>4, <2>1, Closed
  <1>8. CASE FromFlat(r, f)
    BY <1>1, <1>2, <1>3, <1>5, <1>7, <1>8 DEF FromFlat, IsRow
  <1>9. CASE Increases(r, f)
    <2>1. Abs(o) \in Int /\ Abs(s) * p \in Int /\ Abs(o) + Abs(s) \in Positives
      BY <1>1 DEF Abs, Positives
    <2>2. Times(r.avg, Abs(o)) \in Reduced /\ Whole(Abs(s) * p) \in Reduced
      BY <1>4, <1>5, <2>1, Closed
    <2>3. Plus(Times(r.avg, Abs(o)), Whole(Abs(s) * p)) \in Reduced
      BY <1>4, <2>2, Closed
    <2>4. Over(Plus(Times(r.avg, Abs(o)), Whole(Abs(s) * p)), Abs(o) + Abs(s)) \in Reduced
      <3> DEFINE x == Plus(Times(r.avg, Abs(o)), Whole(Abs(s) * p))
                 m == Abs(o) + Abs(s)
      <3>1. x \in Reduced /\ m \in Positives
        BY <2>1, <2>3
      <3> HIDE DEF x, m
      <3>2. Over(x, m) \in Reduced
        BY <3>1, Closed
      <3>3. QED
        BY <3>2 DEF x, m
    <2>5. QED
      BY <1>2, <1>3, <1>7, <1>9, <2>4 DEF Increases, IsRow
  <1>10. CASE Reverses(r, f)
    BY <1>1, <1>2, <1>3, <1>5, <1>6, <1>10 DEF Reverses, IsRow
  <1>11. CASE Closes(r, f)
    BY <1>1, <1>2, <1>3, <1>5, <1>6, <1>11 DEF Closes, IsRow
  <1>12. CASE Reduces(r, f)
    <2>1. -s \in Int
      BY <1>1
    <2>2. QED
      BY <1>2, <1>3, <1>4, <1>6, <1>12, <2>1 DEF Reduces, IsRow
  <1>13. QED
    BY <1>8, <1>9, <1>10, <1>11, <1>12, FillCases

\* The average lies between two prices of the leg.
Within(avg, l) == (\E p \in l : AtMost(Whole(p), avg)) /\ (\E p \in l : AtMost(avg, Whole(p)))

\* The leg after a fill, as Book has it.
NewLeg(r, l, f) ==
    LET t == ApplyFill(r, f) IN
    IF t.net = 0 THEN {}
    ELSE IF r.net # 0 /\ SameSide(r.net, t.net)
         THEN IF SameSide(r.net, f.signed) THEN l \cup {f.price} ELSE l
    ELSE {f.price}

\* A price is within itself.
LEMMA WithinItself == ASSUME NEW p \in Int PROVE Within(Whole(p), {p})
  <1>1. 1 \in Positives /\ p * 1 <= p * 1
    BY DEF Positives
  <1>2. AtMost(Whole(p), Whole(p))
    BY <1>1, AtMostFrac DEF Whole
  <1>3. QED
    BY <1>2 DEF Within

\* Products keep an order.
LEMMA ProductOrder ==
  ASSUME NEW a \in Int, NEW b \in Int, NEW k \in Positives, a <= b
  PROVE  a * k <= b * k /\ a * k \in Int /\ b * k \in Int
  <1>1. k \in Int
    BY DEF Positives
  <1>2. (b - a) * k >= 0
    BY SignOfProduct
  <1>3. (b - a) * k = b * k - a * k
    BY <1>1
  <1>4. a * k \in Int /\ b * k \in Int
    BY <1>1
  <1>5. QED
    BY <1>2, <1>3, <1>4

\* A weighted average lies between what it averages.
LEMMA Weighted ==
  ASSUME NEW a \in Int, NEW d \in Positives, NEW p \in Int, NEW m \in Positives, NEW n \in Positives,
         NEW q \in Int
  PROVE  /\ q * d <= a /\ q <= p => q * (d * (m + n)) <= a * m + n * p * d
         /\ a <= q * d /\ p <= q => a * m + n * p * d <= q * (d * (m + n))
  <1>1. d \in Int /\ m \in Int /\ n \in Int /\ q * d \in Int /\ p * d \in Int
    BY DEF Positives
  <1>2. q * (d * (m + n)) = (q * d) * m + (q * d) * n
    BY <1>1
  <1>3. n * p * d = (p * d) * n
    BY <1>1
  <1>4. (q * d) * m \in Int /\ (q * d) * n \in Int /\ a * m \in Int /\ (p * d) * n \in Int
    BY <1>1
  <1>5. ASSUME q * d <= a, q <= p PROVE q * (d * (m + n)) <= a * m + n * p * d
    <2>1. q * d <= p * d
      BY <1>5, ProductOrder
    <2>2. (q * d) * m <= a * m /\ (q * d) * n <= (p * d) * n
      BY <1>1, <1>5, <2>1, ProductOrder
    <2>3. QED
      BY <1>2, <1>3, <1>4, <2>2
  <1>6. ASSUME a <= q * d, p <= q PROVE a * m + n * p * d <= q * (d * (m + n))
    <2>1. p * d <= q * d
      BY <1>6, ProductOrder
    <2>2. a * m <= (q * d) * m /\ (p * d) * n <= (q * d) * n
      BY <1>1, <1>6, <2>1, ProductOrder
    <2>3. QED
      BY <1>2, <1>3, <1>4, <2>2
  <1>7. QED
    BY <1>5, <1>6

\* A whole number beside a fraction.
LEMMA AtMostWhole ==
  ASSUME NEW a \in Int, NEW d \in Positives, NEW q \in Int
  PROVE  /\ AtMost(Whole(q), Frac(a, d)) <=> q * d <= a
         /\ AtMost(Frac(a, d), Whole(q)) <=> a <= q * d
  <1>1. 1 \in Positives /\ a * 1 = a /\ Whole(q) = Frac(q, 1)
    BY DEF Positives, Whole
  <1>2. QED
    BY <1>1, AtMostFrac

\* An increase moves the average towards its price and not beyond.
LEMMA IncreaseWithin ==
  ASSUME NEW a \in Int, NEW d \in Positives, NEW p \in Int, NEW m \in Positives, NEW n \in Positives,
         NEW l \in SUBSET Int, Within(Frac(a, d), l)
  PROVE  Within(Frac(a * m + n * p * d, d * (m + n)), l \cup {p})
  <1> DEFINE x == a * m + n * p * d
             e == d * (m + n)
  <1>1. x \in Int /\ e \in Positives
    BY DEF Positives
  <1>2. PICK u \in l : AtMost(Whole(u), Frac(a, d))
    BY DEF Within
  <1>3. PICK v \in l : AtMost(Frac(a, d), Whole(v))
    BY DEF Within
  <1>4. u * d <= a /\ a <= v * d
    BY <1>2, <1>3, AtMostWhole
  <1>5. u * d \in Int /\ v * d \in Int /\ p * d \in Int
    BY DEF Positives
  <1>6. \E q \in l \cup {p} : q \in Int /\ q * d <= a /\ q <= p
    <2>1. CASE u <= p
      BY <1>4, <2>1
    <2>2. CASE p <= u
      <3>1. p * d <= u * d
        BY <2>2, ProductOrder
      <3>2. QED
        BY <1>4, <1>5, <3>1
    <2>3. QED
      BY <2>1, <2>2
  <1>7. \E q \in l \cup {p} : q \in Int /\ a <= q * d /\ p <= q
    <2>1. CASE p <= v
      BY <1>4, <2>1
    <2>2. CASE v <= p
      <3>1. v * d <= p * d
        BY <2>2, ProductOrder
      <3>2. QED
        BY <1>4, <1>5, <3>1
    <2>3. QED
      BY <2>1, <2>2
  <1>8. PICK q \in l \cup {p} : q \in Int /\ q * d <= a /\ q <= p
    BY <1>6
  <1>9. PICK w \in l \cup {p} : w \in Int /\ a <= w * d /\ p <= w
    BY <1>7
  <1>10. q * e <= x
    BY <1>8, Weighted
  <1>11. x <= w * e
    BY <1>9, Weighted
  <1> HIDE DEF x, e
  <1>12. AtMost(Whole(q), Frac(x, e)) /\ AtMost(Frac(x, e), Whole(w))
    BY <1>1, <1>8, <1>9, <1>10, <1>11, AtMostWhole
  <1>13. Within(Frac(x, e), l \cup {p})
    BY <1>8, <1>9, <1>12 DEF Within
  <1>14. QED
    BY <1>13 DEF x, e

\* So the average stays within the leg, and a leg that is closed or reversed is forgotten.
LEMMA FillKeepsLeg ==
  ASSUME NEW r, IsRow(r), NEW l \in SUBSET Prices, r.net # 0 => Within(r.avg, l), NEW f \in Fills
  PROVE  /\ NewLeg(r, l, f) \in SUBSET Prices
         /\ ApplyFill(r, f).net # 0 => Within(ApplyFill(r, f).avg, NewLeg(r, l, f))
         /\ ApplyFill(r, f).net = 0 => ApplyFill(r, f).avg = Whole(0)
  <1> DEFINE o == r.net
             s == f.signed
             p == f.price
             t == ApplyFill(r, f)
  <1>1. o \in Int /\ s \in Int /\ s # 0 /\ p \in Int /\ p \in Prices
    BY FillFacts, MultipleFacts DEF IsRow
  <1>2. t.net = o + s
    BY FillCases
  <1>3. NewLeg(r, l, f) \in SUBSET Prices
    BY <1>1 DEF NewLeg
  <1>4. CASE FromFlat(r, f)
    <2>1. o = 0 /\ t.avg = Whole(p)
      BY <1>4 DEF FromFlat
    <2>2. t.net # 0 /\ NewLeg(r, l, f) = {p}
      BY <1>1, <1>2, <2>1 DEF NewLeg
    <2>3. QED
      BY <1>1, <1>3, <2>1, <2>2, WithinItself
  <1>5. CASE Increases(r, f)
    <2>1. PICK a \in Int, d \in Positives : r.avg = Frac(a, d)
      BY ReducedIs DEF IsRow
    <2>2. Abs(o) \in Positives /\ Abs(s) \in Positives
      BY <1>1, <1>5 DEF Increases, Abs, Positives
    <2> DEFINE m == Abs(o)
               n == Abs(s)
    <2>3. t.avg = Frac(a * m + n * p * d, d * (m + n))
      <3>1. t.avg = Over(Plus(Times(Frac(a, d), m), Whole(n * p)), m + n)
        BY <1>5, <2>1 DEF Increases
      <3> HIDE DEF m, n, p, t
      <3>2. m \in Positives /\ n \in Positives
        BY <2>2 DEF m, n
      <3>3. QED
        BY <1>1, <3>1, <3>2, IncreaseFrac
    <2>4. Within(Frac(a, d), l) /\ l \in SUBSET Int
      BY <1>5, <2>1, PricesPositive DEF Increases
    <2>5. Within(Frac(a * m + n * p * d, d * (m + n)), l \cup {p})
      <3> HIDE DEF m, n, p
      <3>1. m \in Positives /\ n \in Positives
        BY <2>2 DEF m, n
      <3>2. QED
        BY <1>1, <2>4, <3>1, IncreaseWithin
    <2>6. NewLeg(r, l, f) = l \cup {p} /\ t.net # 0
      BY <1>1, <1>2, <1>5 DEF Increases, NewLeg, SameSide
    <2>7. QED
      BY <1>3, <2>3, <2>5, <2>6
  <1>6. CASE Reverses(r, f)
    <2>1. t.avg = Whole(p)
      BY <1>6 DEF Reverses
    <2>2. t.net # 0 /\ ~SameSide(o, t.net)
      BY <1>1, <1>2, <1>6 DEF Reverses, SameSide, Abs
    <2>3. NewLeg(r, l, f) = {p}
      BY <2>2 DEF NewLeg
    <2>4. QED
      BY <1>1, <1>3, <2>1, <2>2, <2>3, WithinItself
  <1>7. CASE Closes(r, f)
    BY <1>2, <1>3, <1>7 DEF Closes
  <1>8. CASE Reduces(r, f)
    <2>1. t.net # 0 /\ SameSide(o, t.net) /\ ~SameSide(o, s) /\ o # 0 /\ t.avg = r.avg
      BY <1>1, <1>2, <1>8 DEF Reduces, SameSide, Abs
    <2>2. NewLeg(r, l, f) = l
      BY <2>1 DEF NewLeg
    <2>3. QED
      BY <1>3, <2>1, <2>2
  <1>9. QED
    BY <1>4, <1>5, <1>6, <1>7, <1>8, FillCases

\* A position that is flat has no average.
LEMMA FillFlat ==
  ASSUME NEW r, IsRow(r), NEW f \in Fills, ApplyFill(r, f).net = 0
  PROVE  ApplyFill(r, f).avg = Whole(0)
  <1> DEFINE o == r.net
             s == f.signed
  <1>1. o \in Int /\ s \in Int /\ s # 0 /\ o + s = 0
    BY FillFacts, FillCases, MultipleFacts DEF IsRow
  <1>2. ~FromFlat(r, f)
    BY <1>1 DEF FromFlat
  <1>3. ~Increases(r, f)
    BY <1>1 DEF Increases, SameSide
  <1>4. ~Reverses(r, f) /\ ~Reduces(r, f)
    BY <1>1 DEF Reverses, Reduces, Abs
  <1>5. QED
    BY <1>2, <1>3, <1>4, FillCases DEF Closes
----------------------------------------------------------------------------
(* The replay. *)

Rows == Fills \cup {NotFilled}

\* Step i of a replay of s whose steps are g.
ReplayStep(s, g, i) ==
    IF i = 0 THEN NoRow
    ELSE IF i \in {j \in DOMAIN s : s[j] # NotFilled} THEN ApplyFill(g[i - 1], s[i]) ELSE g[i - 1]

\* g holds the first k steps; it does so as a function equal to its own recursion.
ReplaySteps(s, k, g) == g = [i \in 0..k |-> ReplayStep(s, g, i)]

ReplayOf(s) == LET after == CHOOSE after : ReplaySteps(s, Len(s), after) IN after[Len(s)]

\* The replay of the model.
LEMMA ReplayIsOfOrders == Replay = ReplayOf(orders)
  BY DEF Replay, ReplayOf, ReplaySteps, ReplayStep, Filled

\* What a solution of the recursion is, step by step.
LEMMA StepsAt ==
  ASSUME NEW s, NEW k, NEW g
  PROVE  ReplaySteps(s, k, g) <=> /\ g = [i \in 0..k |-> g[i]]
                            /\ \A i \in 0..k : g[i] = ReplayStep(s, g, i)
  BY DEF ReplaySteps

\* There is one.
LEMMA StepsExist == ASSUME NEW s, NEW k \in Nat PROVE \E g : ReplaySteps(s, k, g)
  <1> DEFINE Bad == {i \in 0..k : ~ \E g : ReplaySteps(s, i, g)}
  <1> SUFFICES ASSUME Bad # {} PROVE FALSE
    OBVIOUS
  <1>1. PICK m \in Bad : \A i \in Bad : m <= i
    <2>1. Bad \in SUBSET Nat
      OBVIOUS
    <2> HIDE DEF Bad
    <2>2. QED
      BY <2>1, Smallest
  <1>2. CASE m = 0
    <2> DEFINE g == [i \in 0..0 |-> NoRow]
    <2>1. \A i \in 0..0 : g[i] = ReplayStep(s, g, i)
      BY DEF ReplayStep
    <2>2. g = [i \in 0..0 |-> g[i]]
      OBVIOUS
    <2> HIDE DEF g
    <2>3. ReplaySteps(s, 0, g)
      BY <2>1, <2>2, StepsAt
    <2>4. QED
      BY <1>1, <1>2, <2>3
  <1>3. CASE m # 0
    <2>1. m \in Nat /\ m - 1 \in 0..k /\ m - 1 \notin Bad /\ m - 1 \in Nat
      BY <1>1, <1>3
    <2>2. PICK g : ReplaySteps(s, m - 1, g)
      BY <2>1
    <2> DEFINE h == [i \in 0..m |-> IF i = m THEN ReplayStep(s, g, m) ELSE g[i]]
    <2>3. \A i \in 0..(m - 1) : h[i] = g[i]
      BY <2>1
    <2>4. \A i \in 0..(m - 1) : g[i] = ReplayStep(s, g, i)
      BY <2>2, StepsAt
    <2>5. h = [i \in 0..m |-> h[i]]
      OBVIOUS
    <2>6. h[m] = ReplayStep(s, g, m)
      BY <2>1
    <2> HIDE DEF h
    <2>7. ASSUME NEW i \in 0..m PROVE h[i] = ReplayStep(s, h, i)
      <3>1. CASE i = 0
        BY <1>3, <2>1, <2>3, <2>4, <3>1 DEF ReplayStep
      <3>2. CASE i # 0
        <4>1. i - 1 \in 0..(m - 1) /\ (i # m => i \in 0..(m - 1))
          BY <2>1, <3>2
        <4>2. h[i - 1] = g[i - 1]
          BY <2>3, <4>1
        <4>3. h[i] = ReplayStep(s, g, i)
          BY <2>3, <2>4, <2>6, <4>1
        <4>4. QED
          BY <3>2, <4>2, <4>3 DEF ReplayStep
      <3>3. QED
        BY <3>1, <3>2
    <2>8. ReplaySteps(s, m, h)
      BY <2>5, <2>7, StepsAt
    <2>9. QED
      BY <1>1, <2>8
  <1>4. QED
    BY <1>2, <1>3

\* The replay is where the steps end.
LEMMA ReplayIs ==
  ASSUME NEW s \in Seq(Rows)
  PROVE  \E g : ReplaySteps(s, Len(s), g) /\ ReplayOf(s) = g[Len(s)]
  <1>1. \E g : ReplaySteps(s, Len(s), g)
    BY StepsExist, LenProperties
  <1> DEFINE after == CHOOSE g : ReplaySteps(s, Len(s), g)
  <1>2. ReplaySteps(s, Len(s), after)
    <2>1. \E g : ReplaySteps(s, Len(s), g)
      BY <1>1
    <2>2. QED
      BY <2>1
  <1>3. ReplayOf(s) = after[Len(s)]
    BY DEF ReplayOf
  <1> HIDE DEF after
  <1>4. QED
    BY <1>2, <1>3

\* Two replays agree as long as the orders do.
LEMMA StepsAgree ==
  ASSUME NEW s \in Seq(Rows), NEW t \in Seq(Rows), NEW g, NEW h,
         ReplaySteps(s, Len(s), g), ReplaySteps(t, Len(t), h),
         NEW m \in Nat, m <= Len(s), m <= Len(t), \A i \in 1..m : s[i] = t[i]
  PROVE  \A i \in 0..m : g[i] = h[i]
  <1> DEFINE Bad == {i \in 0..m : g[i] # h[i]}
  <1> SUFFICES ASSUME Bad # {} PROVE FALSE
    OBVIOUS
  <1>1. PICK l \in Bad : \A i \in Bad : l <= i
    <2>1. Bad \in SUBSET Nat
      OBVIOUS
    <2> HIDE DEF Bad
    <2>2. QED
      BY <2>1, Smallest
  <1>2. Len(s) \in Nat /\ Len(t) \in Nat /\ DOMAIN s = 1..Len(s) /\ DOMAIN t = 1..Len(t)
    BY LenProperties
  <1>3. l \in 0..m /\ l \in 0..Len(s) /\ l \in 0..Len(t)
    BY <1>1, <1>2
  <1>4. g[l] = ReplayStep(s, g, l) /\ h[l] = ReplayStep(t, h, l)
    BY <1>2, <1>3, StepsAt
  <1>5. l # 0 => g[l - 1] = h[l - 1]
    BY <1>1, <1>3
  <1>6. l # 0 => s[l] = t[l] /\ l \in DOMAIN s /\ l \in DOMAIN t
    BY <1>2, <1>3
  <1>7. g[l] = h[l]
    BY <1>4, <1>5, <1>6 DEF ReplayStep
  <1>8. QED
    BY <1>1, <1>7

Sizes(s) == [i \in DOMAIN s |-> s[i].signed]
Values(s) == [i \in DOMAIN s |-> s[i].signed * s[i].price]

\* Sizes and values of orders are integers, and 0 of one that has not filled.
LEMMA OrderFacts ==
  ASSUME NEW s \in Seq(Rows)
  PROVE  /\ Len(s) \in Nat /\ DOMAIN s = 1..Len(s) /\ IsFiniteSet(DOMAIN s)
         /\ \A i \in DOMAIN s : /\ s[i] \in Rows
                                /\ Sizes(s)[i] = s[i].signed /\ Sizes(s)[i] \in Int
                                /\ Values(s)[i] = s[i].signed * s[i].price /\ Values(s)[i] \in Int
                                /\ s[i] # NotFilled => s[i] \in Fills
                                /\ s[i] = NotFilled => Sizes(s)[i] = 0 /\ Values(s)[i] = 0
         /\ \A k \in Nat : k <= Len(s) => 1..k \subseteq DOMAIN s /\ IsFiniteSet(1..k)
  <1>1. Len(s) \in Nat /\ DOMAIN s = 1..Len(s)
    BY LenProperties
  <1>2. \A k \in Nat : IsFiniteSet(1..k)
    BY FS_Interval
  <1>3. \A i \in DOMAIN s : s[i] \in Rows
    BY <1>1, ElementOfSeq
  <1>4. NotFilled.signed = 0 /\ NotFilled.price = 0
    BY DEF NotFilled
  <1>5. ASSUME NEW i \in DOMAIN s
        PROVE  /\ Sizes(s)[i] = s[i].signed /\ Sizes(s)[i] \in Int
               /\ Values(s)[i] = s[i].signed * s[i].price /\ Values(s)[i] \in Int
               /\ s[i] # NotFilled => s[i] \in Fills
               /\ s[i] = NotFilled => Sizes(s)[i] = 0 /\ Values(s)[i] = 0
    <2>1. s[i].signed \in Int /\ s[i].price \in Int
      BY <1>3, <1>4, FillFacts DEF Rows
    <2>2. Sizes(s)[i] = s[i].signed /\ Values(s)[i] = s[i].signed * s[i].price
      BY DEF Sizes, Values
    <2>3. QED
      BY <1>3, <1>4, <2>1, <2>2 DEF Rows
  <1>6. QED
    BY <1>1, <1>2, <1>3, <1>5

\* Step by step the replay has the sum of the fills, their cost basis, and no average when flat.
ReplayHas(s, g, i) ==
    /\ IsRow(g[i])
    /\ g[i].net = Sum(Sizes(s), 1..i)
    /\ Basis(g[i], Whole(-Sum(Values(s), 1..i)))
    /\ g[i].net = 0 => g[i].avg = Whole(0)

\* The empty row.
LEMMA NoRowFacts ==
  /\ IsRow(NoRow) /\ NoRow.net = 0 /\ NoRow.avg = Whole(0)
  /\ Basis(NoRow, Whole(0))
  <1>1. 1 \in Positives
    BY DEF Positives
  <1>2. Whole(0) \in Reduced
    BY <1>1, FracReduced DEF Whole
  <1>3. IsRow(NoRow)
    BY <1>2, MultipleFacts DEF NoRow, IsRow
  <1>4. Times(Whole(0), 0) = Whole(0)
    <2>1. Times(Frac(0, 1), 0) = Frac(0 * 0, 1)
      BY <1>1, TimesFrac
    <2>2. 0 * 0 = 0
      OBVIOUS
    <2>3. QED
      BY <2>1, <2>2 DEF Whole
  <1>5. Plus(Whole(0), Whole(0)) = Whole(0)
    <2>1. Plus(Frac(0, 1), Frac(0, 1)) = Frac(0 + 0, 1)
      BY <1>1, PlusOver
    <2>2. 0 + 0 = 0
      OBVIOUS
    <2>3. QED
      BY <2>1, <2>2 DEF Whole
  <1>6. QED
    BY <1>3, <1>4, <1>5 DEF NoRow, Basis

\* A whole number in cash and a whole number more.
LEMMA WholeSum == ASSUME NEW a \in Int, NEW b \in Int PROVE Plus(Whole(a), Whole(b)) = Whole(a + b)
  <1>1. 1 \in Positives
    BY DEF Positives
  <1>2. QED
    BY <1>1, PlusOver DEF Whole

\* The steps of a replay have what they should.
LEMMA ReplayFacts ==
  ASSUME NEW s \in Seq(Rows), NEW g, ReplaySteps(s, Len(s), g)
  PROVE  \A i \in 0..Len(s) : ReplayHas(s, g, i)
  <1> DEFINE Bad == {i \in 0..Len(s) : ~ReplayHas(s, g, i)}
  <1> SUFFICES ASSUME Bad # {} PROVE FALSE
    OBVIOUS
  <1>1. PICK l \in Bad : \A i \in Bad : l <= i
    <2>1. Bad \in SUBSET Nat
      OBVIOUS
    <2> HIDE DEF Bad
    <2>2. QED
      BY <2>1, Smallest
  <1>2. Len(s) \in Nat /\ DOMAIN s = 1..Len(s)
    BY OrderFacts
  <1>3. l \in Nat /\ l \in 0..Len(s)
    BY <1>1, <1>2
  <1>4. g[l] = ReplayStep(s, g, l)
    BY <1>3, StepsAt
  <1>5. CASE l = 0
    <2>1. g[l] = NoRow /\ 1..l = {}
      BY <1>4, <1>5 DEF ReplayStep
    <2>2. Sum(Sizes(s), 1..l) = 0 /\ Sum(Values(s), 1..l) = 0
      BY <2>1, SumEmpty
    <2>3. Whole(-Sum(Values(s), 1..l)) = Whole(0)
      BY <2>2
    <2>4. ReplayHas(s, g, l)
      BY <2>1, <2>2, <2>3, NoRowFacts DEF ReplayHas
    <2>5. QED
      BY <1>1, <2>4
  <1>6. CASE l # 0
    <2> DEFINE k == l - 1
    <2>1. k \in Nat /\ k \in 0..Len(s) /\ l \in DOMAIN s /\ k <= Len(s) /\ l = k + 1
      BY <1>2, <1>3, <1>6
    <2>2. ReplayHas(s, g, k)
      BY <1>1, <2>1
    <2>3. 1..l = (1..k) \cup {l} /\ l \notin 1..k
      BY <2>1
    <2>4. IsFiniteSet(1..k) /\ 1..k \subseteq DOMAIN s
      BY <2>1, OrderFacts
    <2>5. \A i \in DOMAIN s : Sizes(s)[i] \in Int /\ Values(s)[i] \in Int
      BY OrderFacts
    <2>6. Sum(Sizes(s), 1..l) = Sizes(s)[l] + Sum(Sizes(s), 1..k)
      BY <2>1, <2>3, <2>4, <2>5, SumAdd
    <2>7. Sum(Values(s), 1..l) = Values(s)[l] + Sum(Values(s), 1..k)
      BY <2>1, <2>3, <2>4, <2>5, SumAdd
    <2>8. Sum(Sizes(s), 1..k) \in Int /\ Sum(Values(s), 1..k) \in Int
      BY <2>4, <2>5, SumType
    <2>9. CASE s[l] = NotFilled
      <3>1. g[l] = g[k]
        BY <1>4, <1>6, <2>9 DEF ReplayStep
      <3>2. Sizes(s)[l] = 0 /\ Values(s)[l] = 0
        BY <2>1, <2>9, OrderFacts
      <3>3. Sum(Sizes(s), 1..l) = Sum(Sizes(s), 1..k) /\ Sum(Values(s), 1..l) = Sum(Values(s), 1..k)
        BY <2>6, <2>7, <2>8, <3>2
      <3> HIDE DEF k
      <3>4. ReplayHas(s, g, l)
        BY <2>2, <3>1, <3>3 DEF ReplayHas
      <3>5. QED
        BY <1>1, <3>4
    <2>10. CASE s[l] # NotFilled
      <3> DEFINE f == s[l]
                 r == g[k]
                 c == Whole(-Sum(Values(s), 1..k))
      <3>1. f \in Fills
        BY <2>1, <2>10, OrderFacts
      <3>2. g[l] = ApplyFill(r, f)
        BY <1>4, <1>6, <2>1, <2>10 DEF ReplayStep
      <3>3. IsRow(r) /\ r.net = Sum(Sizes(s), 1..k) /\ Basis(r, c)
        BY <2>2 DEF ReplayHas
      <3>4. f.signed \in Int /\ f.price \in Int /\ f.signed * f.price \in Int
        BY <3>1, FillFacts
      <3>5. Sizes(s)[l] = f.signed /\ Values(s)[l] = f.signed * f.price
        BY <2>1, OrderFacts
      <3> DEFINE v == f.signed * f.price
                 w == Sum(Values(s), 1..k)
      <3>6. Plus(c, Whole(-v)) = Whole(-Sum(Values(s), 1..l))
        <4>1. -w \in Int /\ -v \in Int /\ w \in Int /\ v \in Int
          BY <2>8, <3>4
        <4>2. Sum(Values(s), 1..l) = v + w
          BY <2>7, <3>5
        <4> HIDE DEF v, w
        <4>3. Plus(Whole(-w), Whole(-v)) = Whole((-w) + (-v))
          BY <4>1, WholeSum
        <4>4. (-w) + (-v) = -(v + w)
          BY <4>1
        <4>5. QED
          BY <4>2, <4>3, <4>4 DEF w
      <3>7. c \in Reduced
        <4>1. -w \in Int /\ 1 \in Positives
          BY <2>8 DEF Positives
        <4>2. QED
          BY <4>1, FracReduced DEF Whole
      <3> HIDE DEF f, r, c, k
      <3>8. Basis(ApplyFill(r, f), Plus(c, Whole(-v)))
        BY <3>1, <3>3, <3>7, FillKeepsBasis
      <3>9. IsRow(ApplyFill(r, f)) /\ ApplyFill(r, f).net = r.net + f.signed
        BY <3>1, <3>3, FillIsRow, FillCases
      <3>10. ApplyFill(r, f).net = 0 => ApplyFill(r, f).avg = Whole(0)
        BY <3>1, <3>3, FillFlat
      <3>11. r.net + f.signed = Sum(Sizes(s), 1..l)
        BY <2>6, <2>8, <3>3, <3>4, <3>5
      <3>12. ReplayHas(s, g, l)
        BY <3>2, <3>6, <3>8, <3>9, <3>10, <3>11 DEF ReplayHas
      <3>13. QED
        BY <1>1, <3>12
    <2>11. QED
      BY <2>9, <2>10
  <1>7. QED
    BY <1>5, <1>6
----------------------------------------------------------------------------
(* The ledger row, its orders and its syncs. *)

\* What everything is made of.
RowInv == IsRow(row) /\ cash \in Reduced /\ leg \in SUBSET Prices
OrdersInv == orders \in Seq(Rows) /\ unbooked \in Rows
VenueInv == venue \in Multiples /\ neighbour \in [configured : BOOLEAN, net : {0, Lot}]
SyncTypes ==
    /\ sync = [step |-> sync.step, qty |-> sync.qty, price |-> sync.price,
               sets |-> sync.sets, clean |-> sync.clean]
    /\ sync.step # "idle" => sync.qty \in Multiples /\ sync.price \in Prices

\* As long as the average is the ledger's own: the cost basis, and the leg.
BasisInv == estimated \/ Basis(row, cash)
LegInv == estimated \/ row.net = 0 \/ Within(row.avg, leg)

\* A sync that nothing disturbed leaves the average out only if it is the mark already.
MarkInv == sync.step = "loaded" /\ sync.clean /\ "avg" \notin sync.sets => row.avg = Whole(sync.price)

\* A row no sync has set has the sum of the orders and of their cash; one whose average is its own
\* is the replay when the fills were booked in order, and has no average when flat.
CashInv == /\ cash = Whole(-Sum(Values(orders), DOMAIN orders))
           /\ row.net = Sum(Sizes(orders), DOMAIN orders)
OwnInv == /\ inOrder => row = ReplayOf(orders)
          /\ row.net = 0 => row.avg = Whole(0)
AuditInv == (~rebased => CashInv) /\ (~rebased /\ ~estimated => OwnInv)

FiguresInv == /\ RowInv /\ OrdersInv /\ VenueInv /\ SyncTypes
              /\ BasisInv /\ LegInv /\ MarkInv /\ AuditInv

\* The replay of no orders.
LEMMA ReplayOfNone == ReplayOf(<<>>) = NoRow
  <1>1. <<>> \in Seq(Rows) /\ Len(<<>>) = 0
    BY EmptySeq
  <1>2. PICK g : ReplaySteps(<<>>, 0, g) /\ ReplayOf(<<>>) = g[0]
    BY <1>1, ReplayIs
  <1>3. g[0] = ReplayStep(<<>>, g, 0)
    BY <1>2, StepsAt
  <1>4. QED
    BY <1>2, <1>3 DEF ReplayStep

\* The invariant holds initially.
LEMMA FiguresInitInv == ReconcileInit => FiguresInv
  <1> SUFFICES ASSUME ReconcileInit PROVE FiguresInv
    OBVIOUS
  <1>1. /\ orders = <<>> /\ row = NoRow /\ cash = Whole(0) /\ leg = {}
        /\ unbooked = NotFilled /\ sync = NoSync /\ neighbour \in [configured : BOOLEAN, net : {0, Lot}]
        /\ venue = neighbour.net
    BY DEF ReconcileInit, LedgerInit
  <1>2. Whole(0) \in Reduced
    BY NoRowFacts DEF IsRow
  <1>3. RowInv
    BY <1>1, <1>2, NoRowFacts DEF RowInv
  <1>4. OrdersInv
    BY <1>1, EmptySeq DEF OrdersInv, Rows
  <1>5. VenueInv
    <2>1. Lot \in Multiples
      <3>1. Lot = 1 * Lot
        BY LotAboveEps
      <3>2. QED
        BY <3>1 DEF Multiples
    <2>2. QED
      BY <1>1, <2>1, MultipleFacts DEF VenueInv
  <1>6. SyncTypes /\ MarkInv
    BY <1>1 DEF SyncTypes, MarkInv, NoSync
  <1>7. BasisInv /\ LegInv
    BY <1>1, NoRowFacts DEF BasisInv, LegInv
  <1>8. AuditInv
    <2>1. DOMAIN orders = {}
      BY <1>1
    <2>2. Sum(Values(orders), DOMAIN orders) = 0 /\ Sum(Sizes(orders), DOMAIN orders) = 0
      BY <2>1, SumEmpty
    <2>4. Whole(-Sum(Values(orders), DOMAIN orders)) = Whole(0)
      BY <2>2
    <2>5. QED
      BY <1>1, <2>2, <2>4, ReplayOfNone, NoRowFacts DEF AuditInv, CashInv, OwnInv
  <1>9. QED
    BY <1>3, <1>4, <1>5, <1>6, <1>7, <1>8 DEF FiguresInv

\* A step that leaves the row and its orders alone.
LEMMA SameFigures ==
  ASSUME FiguresInv, UNCHANGED <<orders, row, cash, leg, rebased, estimated, inOrder>>
  PROVE  RowInv' /\ BasisInv' /\ LegInv' /\ AuditInv'
  BY DEF FiguresInv, RowInv, BasisInv, LegInv, AuditInv, CashInv, OwnInv

\* A sync that was disturbed.
LEMMA DisturbedSync ==
  ASSUME SyncTypes, Disturb
  PROVE  SyncTypes' /\ MarkInv'
  BY DEF SyncTypes, Disturb, MarkInv

\* ReplaySteps of a replay that skip what has not filled.
LEMMA ReplaySkips ==
  ASSUME NEW s \in Seq(Rows), NEW g, ReplaySteps(s, Len(s), g), NEW m \in 0..Len(s),
         \A j \in DOMAIN s : j > m => s[j] = NotFilled
  PROVE  g[Len(s)] = g[m]
  <1> DEFINE Bad == {i \in m..Len(s) : g[i] # g[m]}
  <1> SUFFICES ASSUME g[Len(s)] # g[m] PROVE FALSE
    OBVIOUS
  <1>1. Len(s) \in Nat /\ DOMAIN s = 1..Len(s)
    BY OrderFacts
  <1>2. Len(s) \in Bad /\ Bad \in SUBSET Nat
    BY <1>1
  <1>3. PICK l \in Bad : \A i \in Bad : l <= i
    <2> HIDE DEF Bad
    <2> QED
      BY <1>2, Smallest
  <1>4. l # m /\ l \in m..Len(s) /\ l - 1 \in m..Len(s) /\ l \in 0..Len(s)
    BY <1>1, <1>3
  <1>5. g[l - 1] = g[m]
    BY <1>1, <1>3, <1>4
  <1>6. g[l] = ReplayStep(s, g, l)
    BY <1>4, StepsAt
  <1>7. s[l] = NotFilled /\ l # 0
    BY <1>1, <1>4
  <1>8. QED
    BY <1>3, <1>5, <1>6, <1>7 DEF ReplayStep

\* Orders that have not filled yet are not replayed.
LEMMA ReplayOfUnfilled ==
  ASSUME NEW s \in Seq(Rows)
  PROVE  /\ Append(s, NotFilled) \in Seq(Rows)
         /\ ReplayOf(Append(s, NotFilled)) = ReplayOf(s)
         /\ Sum(Sizes(Append(s, NotFilled)), DOMAIN Append(s, NotFilled)) = Sum(Sizes(s), DOMAIN s)
         /\ Sum(Values(Append(s, NotFilled)), DOMAIN Append(s, NotFilled)) = Sum(Values(s), DOMAIN s)
  <1> DEFINE t == Append(s, NotFilled)
             n == Len(s)
  <1>1. t \in Seq(Rows) /\ Len(t) = n + 1 /\ n \in Nat /\ t[n + 1] = NotFilled /\ \A i \in 1..n : t[i] = s[i]
    BY AppendProperties DEF Rows
  <1> HIDE DEF t
  <1>2. DOMAIN t = 1..(n + 1) /\ DOMAIN s = 1..n
    BY <1>1, LenProperties
  <1>3. PICK g : ReplaySteps(s, n, g) /\ ReplayOf(s) = g[n]
    BY ReplayIs
  <1>4. PICK h : ReplaySteps(t, n + 1, h) /\ ReplayOf(t) = h[n + 1]
    BY <1>1, ReplayIs
  <1>5. g[n] = h[n]
    <2>1. \A i \in 0..n : g[i] = h[i]
      BY <1>1, <1>3, <1>4, StepsAgree
    <2>2. QED
      BY <1>1, <2>1
  <1>6. h[n + 1] = h[n]
    <2>1. n \in 0..Len(t) /\ \A j \in DOMAIN t : j > n => t[j] = NotFilled
      BY <1>1, <1>2
    <2>2. QED
      BY <1>1, <1>4, <2>1, ReplaySkips
  <1>7. ASSUME NEW u, NEW v, (u = Sizes(t) /\ v = Sizes(s)) \/ (u = Values(t) /\ v = Values(s))
        PROVE  Sum(u, DOMAIN t) = Sum(v, DOMAIN s)
    <2>1. \A i \in DOMAIN s : u[i] = v[i] /\ u[i] \in Int
      <3>1. \A i \in DOMAIN s : t[i] = s[i] /\ i \in DOMAIN t
        BY <1>1, <1>2
      <3>2. QED
        BY <1>1, <1>7, <3>1, OrderFacts
    <2>2. u[n + 1] = 0
      BY <1>1, <1>2, <1>7, OrderFacts
    <2>3. DOMAIN t = DOMAIN s \cup {n + 1} /\ n + 1 \notin DOMAIN s /\ IsFiniteSet(DOMAIN s)
      BY <1>1, <1>2, OrderFacts
    <2>4. Sum(u, DOMAIN t) = u[n + 1] + Sum(u, DOMAIN s)
      BY <2>1, <2>2, <2>3, SumAdd
    <2>5. Sum(u, DOMAIN s) = Sum(v, DOMAIN s) /\ Sum(u, DOMAIN s) \in Int
      BY <2>1, <2>3, SumSame, SumType
    <2>6. QED
      BY <2>2, <2>4, <2>5
  <1>8. Sum(Sizes(t), DOMAIN t) = Sum(Sizes(s), DOMAIN s)
    BY <1>7
  <1>9. Sum(Values(t), DOMAIN t) = Sum(Values(s), DOMAIN s)
    BY <1>7
  <1>10. QED
    BY <1>1, <1>3, <1>4, <1>5, <1>6, <1>8, <1>9 DEF t

\* What the sums become when order i, new or waiting, fills.
FillsOrder(s, t, i, f) ==
    /\ t \in Seq(Rows) /\ i \in DOMAIN t /\ t[i] = f
    /\ DOMAIN t = DOMAIN s \cup {i}
    /\ i \in DOMAIN s => s[i] = NotFilled
    /\ \A j \in DOMAIN s : j # i => t[j] = s[j]

\* A fill adds its size and its cash to the sums.
LEMMA SumsOfFill ==
  ASSUME NEW s \in Seq(Rows), NEW t, NEW i, NEW f \in Fills, FillsOrder(s, t, i, f)
  PROVE  /\ Sum(Sizes(t), DOMAIN t) = Sum(Sizes(s), DOMAIN s) + f.signed
         /\ Sum(Values(t), DOMAIN t) = Sum(Values(s), DOMAIN s) + f.signed * f.price
         /\ Sum(Sizes(s), DOMAIN s) \in Int /\ Sum(Values(s), DOMAIN s) \in Int
  <1> DEFINE T == DOMAIN s \ {i}
  <1>1. ASSUME NEW u, NEW v, NEW k \in Int,
               \/ u = Sizes(t) /\ v = Sizes(s) /\ k = f.signed
               \/ u = Values(t) /\ v = Values(s) /\ k = f.signed * f.price
        PROVE  Sum(u, DOMAIN t) = Sum(v, DOMAIN s) + k /\ Sum(v, DOMAIN s) \in Int
    <2>1. t \in Seq(Rows) /\ i \in DOMAIN t /\ t[i] = f /\ DOMAIN t = T \cup {i} /\ i \notin T /\ T \subseteq DOMAIN s
      BY DEF FillsOrder
    <2>2. IsFiniteSet(DOMAIN s) /\ IsFiniteSet(DOMAIN t) /\ IsFiniteSet(T)
      BY <2>1, OrderFacts, FS_Subset
    <2>3. \A j \in DOMAIN t : u[j] \in Int
      BY <1>1, <2>1, OrderFacts
    <2>4. \A j \in DOMAIN s : v[j] \in Int
      BY <1>1, OrderFacts
    <2>5. u[i] = k
      BY <1>1, <2>1, OrderFacts
    <2>6. \A j \in T : u[j] = v[j]
      <3>1. \A j \in T : t[j] = s[j] /\ j \in DOMAIN s /\ j \in DOMAIN t
        BY <2>1 DEF FillsOrder
      <3>2. QED
        BY <1>1, <2>1, <3>1, OrderFacts
    <2>7. Sum(u, DOMAIN t) = k + Sum(u, T)
      BY <2>1, <2>2, <2>3, <2>5, SumAdd
    <2>8. Sum(u, T) = Sum(v, T)
      BY <2>2, <2>6, SumSame
    <2>9. Sum(v, DOMAIN s) = Sum(v, T)
      <3>1. \A j \in DOMAIN s \ T : v[j] = 0
        <4>1. ASSUME NEW j \in DOMAIN s, j \notin T PROVE v[j] = 0
          <5>1. j = i
            BY <4>1
          <5>2. s[j] = NotFilled
            BY <5>1 DEF FillsOrder
          <5>3. QED
            BY <1>1, <5>2, OrderFacts
        <4>2. QED
          BY <4>1
      <3>2. QED
        BY <2>1, <2>2, <2>4, <3>1, SumSupport
    <2>10. Sum(v, DOMAIN s) \in Int
      BY <2>2, <2>4, SumType
    <2>11. QED
      BY <1>1, <2>7, <2>8, <2>9, <2>10
  <1>2. f.signed \in Int /\ f.signed * f.price \in Int
    <2>1. f.signed \in Int /\ f.price \in Int
      BY FillFacts
    <2>2. QED
      BY <2>1
  <1>3. Sum(Sizes(t), DOMAIN t) = Sum(Sizes(s), DOMAIN s) + f.signed /\ Sum(Sizes(s), DOMAIN s) \in Int
    BY <1>1, <1>2
  <1>4. /\ Sum(Values(t), DOMAIN t) = Sum(Values(s), DOMAIN s) + f.signed * f.price
        /\ Sum(Values(s), DOMAIN s) \in Int
    BY <1>1, <1>2
  <1>5. QED
    BY <1>3, <1>4

\* A fill booked behind all others is the next step of the replay.
LEMMA ReplayOfFill ==
  ASSUME NEW s \in Seq(Rows), NEW t, NEW i, NEW f \in Fills, FillsOrder(s, t, i, f),
         \A j \in DOMAIN s : j > i => s[j] = NotFilled
  PROVE  ReplayOf(t) = ApplyFill(ReplayOf(s), f)
  <1>1. t \in Seq(Rows) /\ i \in DOMAIN t /\ t[i] = f
    BY DEF FillsOrder
  <1>2. Len(s) \in Nat /\ DOMAIN s = 1..Len(s) /\ Len(t) \in Nat /\ DOMAIN t = 1..Len(t)
    BY <1>1, OrderFacts
  <1>3. PICK g : ReplaySteps(s, Len(s), g) /\ ReplayOf(s) = g[Len(s)]
    BY ReplayIs
  <1>4. PICK h : ReplaySteps(t, Len(t), h) /\ ReplayOf(t) = h[Len(t)]
    BY <1>1, ReplayIs
  <1> DEFINE m == i - 1
  <1>5. i \in 1..Len(t) /\ m \in Nat /\ m <= Len(t)
    BY <1>1, <1>2
  <1>6. m <= Len(s)
    <2>1. i \in DOMAIN s \/ i = Len(s) + 1
      <3>1. CASE i \in DOMAIN s
        BY <3>1
      <3>2. CASE i \notin DOMAIN s
        <4>1. ASSUME i > Len(s) + 1 PROVE FALSE
          <5>1. Len(s) + 1 \in DOMAIN t /\ Len(s) + 1 # i /\ Len(s) + 1 \notin DOMAIN s
            BY <1>2, <1>5, <4>1
          <5>2. QED
            BY <5>1 DEF FillsOrder
        <4>2. QED
          BY <1>2, <1>5, <3>2, <4>1
      <3>3. QED
        BY <3>1, <3>2
    <2>2. QED
      BY <1>2, <1>5, <2>1
  <1>7. \A j \in 1..m : s[j] = t[j]
    BY <1>2, <1>5, <1>6 DEF FillsOrder
  <1>8. g[m] = h[m]
    <2>1. \A j \in 0..m : g[j] = h[j]
      BY <1>1, <1>3, <1>4, <1>5, <1>6, <1>7, StepsAgree
    <2>2. QED
      BY <1>5, <2>1
  <1>9. g[Len(s)] = g[m]
    <2>1. \A j \in DOMAIN s : j > m => s[j] = NotFilled
      <3>1. i \in DOMAIN s => s[i] = NotFilled
        BY DEF FillsOrder
      <3>2. QED
        BY <1>2, <1>5, <3>1
    <2>2. m \in 0..Len(s)
      BY <1>2, <1>5, <1>6
    <2>3. QED
      BY <1>3, <2>1, <2>2, ReplaySkips
  <1>10. h[Len(t)] = h[i]
    <2>1. \A j \in DOMAIN t : j > i => t[j] = NotFilled
      <3>1. ASSUME NEW j \in DOMAIN t, j > i PROVE t[j] = NotFilled
        <4>1. j # i /\ j \in DOMAIN s
          BY <1>2, <1>5, <3>1 DEF FillsOrder
        <4>2. QED
          BY <3>1, <4>1 DEF FillsOrder
      <3>2. QED
        BY <3>1
    <2>2. i \in 0..Len(t)
      BY <1>2, <1>5
    <2>3. QED
      BY <1>1, <1>4, <2>1, <2>2, ReplaySkips
  <1>11. h[i] = ApplyFill(h[m], f)
    <2>1. i \in 0..Len(t) /\ i # 0
      BY <1>5
    <2>2. h[i] = ReplayStep(t, h, i)
      BY <1>4, <2>1, StepsAt
    <2>3. f # NotFilled
      BY FillFacts
    <2>4. QED
      BY <1>1, <2>1, <2>2, <2>3 DEF ReplayStep
  <1>12. QED
    BY <1>3, <1>4, <1>8, <1>9, <1>10, <1>11

\* A booked fill keeps types, cost basis and leg.
LEMMA BookKeepsRow ==
  ASSUME FiguresInv, NEW f \in Fills, Book(f), estimated' = estimated
  PROVE  RowInv' /\ BasisInv' /\ LegInv' /\ (row'.net = 0 => row'.avg = Whole(0))
  <1>1. /\ row' = ApplyFill(row, f)
        /\ cash' = Plus(cash, Whole(-(f.signed * f.price)))
        /\ leg' = NewLeg(row, leg, f)
    BY DEF Book, NewLeg
  <1>2. IsRow(row) /\ cash \in Reduced /\ leg \in SUBSET Prices
    BY DEF FiguresInv, RowInv
  <1>3. IsRow(ApplyFill(row, f))
    BY <1>2, FillIsRow
  <1>4. Plus(cash, Whole(-(f.signed * f.price))) \in Reduced
    <2>1. -(f.signed * f.price) \in Int /\ 1 \in Positives
      BY FillFacts DEF Positives
    <2>2. Whole(-(f.signed * f.price)) \in Reduced
      BY <1>2, <2>1, Closed
    <2>3. QED
      BY <1>2, <2>1, <2>2, Closed
  <1>5. NewLeg(row, leg, f) \in SUBSET Prices
    BY <1>2, FillFacts DEF NewLeg
  <1>6. RowInv'
    BY <1>1, <1>3, <1>4, <1>5 DEF RowInv
  <1>7. BasisInv'
    <2>1. CASE estimated
      BY <2>1 DEF BasisInv
    <2>2. CASE ~estimated
      <3>1. Basis(row, cash)
        BY <2>2 DEF FiguresInv, BasisInv
      <3>2. Basis(ApplyFill(row, f), Plus(cash, Whole(-(f.signed * f.price))))
        BY <1>2, <3>1, FillKeepsBasis
      <3>3. QED
        BY <1>1, <3>2 DEF BasisInv
    <2>3. QED
      BY <2>1, <2>2
  <1>8. LegInv'
    <2>1. CASE estimated
      BY <2>1 DEF LegInv
    <2>2. CASE ~estimated
      <3>1. row.net # 0 => Within(row.avg, leg)
        BY <2>2 DEF FiguresInv, LegInv
      <3>2. ApplyFill(row, f).net # 0 => Within(ApplyFill(row, f).avg, NewLeg(row, leg, f))
        BY <1>2, <3>1, FillKeepsLeg
      <3>3. QED
        BY <1>1, <3>2 DEF LegInv
    <2>3. QED
      BY <2>1, <2>2
  <1>9. row'.net = 0 => row'.avg = Whole(0)
    BY <1>1, <1>2, FillFlat
  <1>10. QED
    BY <1>6, <1>7, <1>8, <1>9

\* ... and what the audit compares.
LEMMA BookKeepsAudit ==
  ASSUME FiguresInv, NEW f \in Fills, Book(f), NEW i, FillsOrder(orders, orders', i, f),
         inOrder' => inOrder /\ \A j \in DOMAIN orders : j > i => orders[j] = NotFilled,
         UNCHANGED <<rebased, estimated>>, row'.net = 0 => row'.avg = Whole(0)
  PROVE  AuditInv'
  <1> DEFINE s == orders
             t == orders'
             v == Sum(Values(s), DOMAIN s)
             w == f.signed * f.price
  <1>1. s \in Seq(Rows) /\ IsRow(row)
    BY DEF FiguresInv, OrdersInv, RowInv
  <1>2. /\ Sum(Sizes(t), DOMAIN t) = Sum(Sizes(s), DOMAIN s) + f.signed
        /\ Sum(Values(t), DOMAIN t) = v + w
        /\ v \in Int
    BY <1>1, SumsOfFill
  <1>3. w \in Int
    <2>1. f.signed \in Int /\ f.price \in Int
      BY FillFacts
    <2>2. QED
      BY <2>1
  <1>4. row' = ApplyFill(row, f) /\ row'.net = row.net + f.signed /\ cash' = Plus(cash, Whole(-w))
    BY <1>1, FillCases DEF Book
  <1>5. ASSUME ~rebased PROVE CashInv'
    <2>1. cash = Whole(-v) /\ row.net = Sum(Sizes(s), DOMAIN s)
      BY <1>5 DEF FiguresInv, AuditInv, CashInv
    <2>2. cash' = Whole(-(v + w))
      <3> HIDE DEF v, w
      <3>1. -v \in Int /\ -w \in Int
        BY <1>2, <1>3
      <3>2. Plus(Whole(-v), Whole(-w)) = Whole((-v) + (-w))
        BY <3>1, WholeSum
      <3>3. (-v) + (-w) = -(v + w)
        BY <1>2, <1>3
      <3>4. QED
        BY <1>4, <2>1, <3>2, <3>3
    <2>3. cash' = Whole(-Sum(Values(orders'), DOMAIN orders'))
      BY <1>2, <2>2
    <2>4. row'.net = Sum(Sizes(orders'), DOMAIN orders')
      BY <1>2, <1>4, <2>1
    <2>5. QED
      BY <2>3, <2>4 DEF CashInv
  <1>6. ASSUME ~rebased, ~estimated PROVE OwnInv'
    <2>1. ASSUME inOrder' PROVE row' = ReplayOf(orders')
      <3>1. row = ReplayOf(s)
        BY <1>6, <2>1 DEF FiguresInv, AuditInv, OwnInv
      <3>2. ReplayOf(t) = ApplyFill(ReplayOf(s), f)
        BY <1>1, <2>1, ReplayOfFill
      <3>3. QED
        BY <1>4, <3>1, <3>2
    <2>2. QED
      BY <2>1 DEF OwnInv
  <1>7. QED
    BY <1>5, <1>6 DEF AuditInv

\* The order that is booked: a new one, or one that waited.
LEMMA BookFillIs ==
  ASSUME FiguresInv, BookFill
  PROVE  /\ unbooked \in Fills /\ Book(unbooked)
         /\ \E i : /\ FillsOrder(orders, orders', i, unbooked)
                   /\ inOrder' => inOrder /\ \A j \in DOMAIN orders : j > i => orders[j] = NotFilled
  <1>1. unbooked \in Fills /\ orders \in Seq(Rows) /\ unbooked \in Rows
    BY DEF FiguresInv, OrdersInv, BookFill, Rows
  <1>2. Len(orders) \in Nat /\ DOMAIN orders = 1..Len(orders)
    BY <1>1, OrderFacts
  <1>3. CASE CreateFilled(unbooked) /\ UNCHANGED inOrder
    <2> DEFINE i == Len(orders) + 1
    <2>1. orders' = Append(orders, unbooked) /\ Book(unbooked)
      BY <1>3 DEF CreateFilled
    <2>2. /\ orders' \in Seq(Rows) /\ Len(orders') = i /\ orders'[i] = unbooked
          /\ \A j \in 1..Len(orders) : orders'[j] = orders[j]
      BY <1>1, <2>1, AppendProperties
    <2>3. DOMAIN orders' = 1..i
      BY <2>2, LenProperties
    <2>4. FillsOrder(orders, orders', i, unbooked)
      BY <1>2, <2>2, <2>3 DEF FillsOrder
    <2>5. \A j \in DOMAIN orders : ~ j > i
      BY <1>2
    <2>6. QED
      BY <1>1, <1>3, <2>1, <2>4, <2>5
  <1>4. ASSUME NEW i \in DOMAIN orders, FillLater(i, unbooked),
               inOrder' = (inOrder /\ \A j \in DOMAIN orders : j > i => j \notin Filled)
        PROVE  /\ Book(unbooked) /\ FillsOrder(orders, orders', i, unbooked)
               /\ inOrder' => inOrder /\ \A j \in DOMAIN orders : j > i => orders[j] = NotFilled
    <2>1. orders[i] = NotFilled /\ orders' = [orders EXCEPT ![i] = unbooked] /\ Book(unbooked)
      BY <1>4 DEF FillLater
    <2>2. orders' \in Seq(Rows) /\ Len(orders') = Len(orders)
          /\ \A j \in 1..Len(orders) : orders'[j] = IF j = i THEN unbooked ELSE orders[j]
      BY <1>1, <1>2, <2>1, ExceptSeq
    <2>3. DOMAIN orders' = 1..Len(orders)
      BY <2>2, LenProperties
    <2>4. FillsOrder(orders, orders', i, unbooked)
      BY <1>2, <2>1, <2>2, <2>3 DEF FillsOrder
    <2>5. inOrder' => inOrder /\ \A j \in DOMAIN orders : j > i => orders[j] = NotFilled
      BY <1>4 DEF Filled
    <2>6. QED
      BY <2>1, <2>4, <2>5
  <1>5. QED
    BY <1>1, <1>3, <1>4 DEF BookFill

\* What a sync sets: the basis starts again at the mark.
LEMMA SyncWriteKeeps ==
  ASSUME FiguresInv, SyncWrite
  PROVE  RowInv' /\ BasisInv' /\ LegInv'
  <1>1. /\ sync.step = "loaded" /\ row' = Synced(row)
        /\ cash' = Plus(row'.realized, Times(row'.avg, -row'.net))
        /\ leg' = IF row'.net = 0 THEN {} ELSE {sync.price}
        /\ estimated' = ~sync.clean
    BY DEF SyncWrite
  <1>2. IsRow(row) /\ sync.qty \in Multiples /\ sync.price \in Prices
    BY <1>1 DEF FiguresInv, RowInv, SyncTypes
  <1>3. sync.price \in Int /\ Whole(sync.price) \in Reduced
    <2>1. sync.price \in Int
      <3>1. \A p \in Prices : p \in Int
        BY PricesPositive
      <3>2. QED
        BY <1>2, <3>1
    <2>2. 1 \in Positives
      BY DEF Positives
    <2>3. QED
      BY <2>1, <2>2, FracReduced DEF Whole
  <1>4. /\ row'.net = IF "net" \in sync.sets THEN sync.qty ELSE row.net
        /\ row'.avg = IF "avg" \in sync.sets THEN Whole(sync.price) ELSE row.avg
        /\ row' = [net |-> row'.net, avg |-> row'.avg, realized |-> row'.realized]
        /\ row'.realized = row.realized
    BY <1>1, <1>2 DEF Synced, IsRow
  <1>5. IsRow(row')
    BY <1>2, <1>3, <1>4 DEF IsRow
  <1> DEFINE r == row'
  <1>6. r.net \in Int /\ -r.net \in Int
    BY <1>5, MultipleFacts DEF IsRow
  <1>7. PICK a \in Int, c \in Int, d \in Positives : r.avg = Frac(a, d) /\ r.realized = Frac(c, d)
    BY <1>5, Common DEF IsRow
  <1> DEFINE n == r.net
             v == a * (-n)
             u == a * n
  <1>8. v \in Int /\ u \in Int /\ v = -u /\ c + v \in Int
    BY <1>6
  <1>9. cash' = Frac(c + v, d)
    <2>1. Times(Frac(a, d), -n) = Frac(v, d)
      <3>1. -n \in Int
        BY <1>6
      <3> HIDE DEF n
      <3>2. QED
        BY <3>1, TimesFrac
    <2>2. Plus(Frac(c, d), Frac(v, d)) = Frac(c + v, d)
      <3> HIDE DEF v
      <3> QED
        BY <1>8, PlusOver
    <2>3. QED
      BY <1>1, <1>7, <2>1, <2>2
  <1>10. Basis(row', cash')
    <2>1. Times(Frac(a, d), n) = Frac(u, d)
      <3>1. n \in Int
        BY <1>6
      <3> HIDE DEF n
      <3>2. QED
        BY <3>1, TimesFrac DEF u
    <2>2. Plus(Frac(c + v, d), Frac(u, d)) = Frac(c, d)
      <3> HIDE DEF u, v
      <3>1. Plus(Frac(c + v, d), Frac(u, d)) = Frac((c + v) + u, d)
        BY <1>8, PlusOver
      <3>2. (c + v) + u = c
        BY <1>8
      <3>3. QED
        BY <3>1, <3>2
    <2>3. QED
      BY <1>7, <1>9, <2>1, <2>2 DEF Basis
  <1>11. RowInv'
    <2>1. cash' \in Reduced
      BY <1>8, <1>9, FracReduced
    <2>2. leg' \in SUBSET Prices
      BY <1>1, <1>2
    <2>3. QED
      BY <1>5, <2>1, <2>2 DEF RowInv
  <1>12. LegInv'
    <2>1. CASE ~sync.clean
      BY <1>1, <2>1 DEF LegInv
    <2>2. CASE sync.clean
      <3>1. row'.avg = Whole(sync.price)
        BY <1>1, <1>4, <2>2 DEF FiguresInv, MarkInv
      <3>2. Within(Whole(sync.price), {sync.price})
        BY <1>3, WithinItself
      <3>3. QED
        BY <1>1, <3>1, <3>2 DEF LegInv
    <2>3. QED
      BY <2>1, <2>2
  <1>13. QED
    BY <1>10, <1>11, <1>12 DEF BasisInv

\* The types of the venue's side.
LEMMA LotFacts == Lot \in Multiples /\ -Lot \in Multiples /\ Lot \in Int
  <1>1. Lot \in Int /\ Lot = 1 * Lot
    BY LotAboveEps
  <1>2. Lot \in Multiples
    BY <1>1 DEF Multiples
  <1>3. QED
    BY <1>1, <1>2, MultipleFacts

\* Every event keeps the invariant.
LEMMA FiguresStepInv == FiguresInv /\ [ReconcileNext]_allVars => FiguresInv'
  <1> SUFFICES ASSUME FiguresInv, [ReconcileNext]_allVars PROVE FiguresInv'
    OBVIOUS
  <1>i. RowInv /\ OrdersInv /\ VenueInv /\ SyncTypes /\ MarkInv
    BY DEF FiguresInv
  <1>1. CASE CreateOrder
    <2>1. orders' = Append(orders, NotFilled) /\ UNCHANGED <<row, cash, leg, outside>>
      BY <1>1 DEF CreateOrder, CreateUnfilled
    <2>2. orders \in Seq(Rows)
      BY <1>i DEF OrdersInv
    <2>3. /\ orders' \in Seq(Rows) /\ ReplayOf(orders') = ReplayOf(orders)
          /\ Sum(Sizes(orders'), DOMAIN orders') = Sum(Sizes(orders), DOMAIN orders)
          /\ Sum(Values(orders'), DOMAIN orders') = Sum(Values(orders), DOMAIN orders)
      BY <2>1, <2>2, ReplayOfUnfilled
    <2>4. UNCHANGED <<venue, unbooked, neighbour, sync, rebased, estimated, inOrder>>
      BY <2>1 DEF outside
    <2>5. AuditInv'
      BY <2>1, <2>3, <2>4 DEF FiguresInv, AuditInv, CashInv, OwnInv
    <2>6. OrdersInv' /\ VenueInv' /\ SyncTypes' /\ MarkInv'
      BY <1>i, <2>1, <2>3, <2>4 DEF OrdersInv, VenueInv, SyncTypes, MarkInv
    <2>7. RowInv' /\ BasisInv' /\ LegInv'
      BY <2>1, <2>4 DEF FiguresInv, RowInv, BasisInv, LegInv
    <2>8. QED
      BY <2>5, <2>6, <2>7 DEF FiguresInv
  <1>2. ASSUME NEW f \in Fills, VenueFills(f) PROVE FiguresInv'
    <2>1. Disturb /\ UNCHANGED <<orders, row, cash, leg, neighbour, rebased, estimated, inOrder>>
      BY <1>2 DEF VenueFills, ledgerVars
    <2>2. unbooked' = f /\ venue' = venue + f.signed
      BY <1>2 DEF VenueFills
    <2>3. RowInv' /\ BasisInv' /\ LegInv' /\ AuditInv'
      BY <2>1, SameFigures
    <2>4. SyncTypes' /\ MarkInv'
      BY <1>i, <2>1, DisturbedSync
    <2>5. OrdersInv' /\ VenueInv'
      BY <1>i, <2>1, <2>2, FillFacts, MultipleFacts DEF OrdersInv, VenueInv, Rows
    <2>6. QED
      BY <2>3, <2>4, <2>5 DEF FiguresInv
  <1>3. CASE BookFill
    <2>1. PICK i : /\ FillsOrder(orders, orders', i, unbooked)
                   /\ inOrder' => inOrder /\ \A j \in DOMAIN orders : j > i => orders[j] = NotFilled
      BY <1>3, BookFillIs
    <2>2. unbooked \in Fills /\ Book(unbooked)
      BY <1>3, BookFillIs
    <2>3. Disturb /\ unbooked' = NotFilled /\ UNCHANGED <<venue, neighbour, rebased, estimated>>
      BY <1>3 DEF BookFill
    <2>4. RowInv' /\ BasisInv' /\ LegInv' /\ (row'.net = 0 => row'.avg = Whole(0))
      BY <2>2, <2>3, BookKeepsRow
    <2>5. AuditInv'
      BY <2>1, <2>2, <2>3, <2>4, BookKeepsAudit
    <2>6. SyncTypes' /\ MarkInv'
      BY <1>i, <2>3, DisturbedSync
    <2>7. OrdersInv' /\ VenueInv'
      BY <1>i, <2>1, <2>3 DEF OrdersInv, VenueInv, Rows, FillsOrder
    <2>8. QED
      BY <2>4, <2>5, <2>6, <2>7 DEF FiguresInv
  <1>4. CASE FillIsLost
    <2>1. unbooked' = NotFilled
          /\ UNCHANGED <<orders, row, cash, leg, venue, neighbour, sync, rebased, estimated, inOrder>>
      BY <1>4 DEF FillIsLost, ledgerVars
    <2>2. RowInv' /\ BasisInv' /\ LegInv' /\ AuditInv'
      BY <2>1, SameFigures
    <2>3. OrdersInv' /\ VenueInv' /\ SyncTypes' /\ MarkInv'
      BY <1>i, <2>1 DEF OrdersInv, VenueInv, SyncTypes, MarkInv, Rows
    <2>4. QED
      BY <2>2, <2>3 DEF FiguresInv
  <1>5. ASSUME NEW q \in {-Lot, Lot}, TradeByHand(q) PROVE FiguresInv'
    <2>1. Disturb /\ UNCHANGED <<orders, row, cash, leg, unbooked, neighbour, rebased, estimated, inOrder>>
          /\ venue' = venue + q
      BY <1>5 DEF TradeByHand, ledgerVars
    <2>2. RowInv' /\ BasisInv' /\ LegInv' /\ AuditInv'
      BY <2>1, SameFigures
    <2>3. SyncTypes' /\ MarkInv'
      BY <1>i, <2>1, DisturbedSync
    <2>4. OrdersInv' /\ VenueInv'
      BY <1>i, <2>1, LotFacts, MultipleFacts DEF OrdersInv, VenueInv
    <2>5. QED
      BY <2>2, <2>3, <2>4 DEF FiguresInv
  <1>6. CASE NeighbourTrades
    <2>1. Disturb /\ UNCHANGED <<orders, row, cash, leg, unbooked, rebased, estimated, inOrder>>
          /\ neighbour' = [neighbour EXCEPT !.net = Lot - @]
          /\ venue' = venue + neighbour'.net - neighbour.net
      BY <1>6 DEF NeighbourTrades, ledgerVars
    <2>2. RowInv' /\ BasisInv' /\ LegInv' /\ AuditInv'
      BY <2>1, SameFigures
    <2>3. SyncTypes' /\ MarkInv'
      BY <1>i, <2>1, DisturbedSync
    <2>4. neighbour' \in [configured : BOOLEAN, net : {0, Lot}] /\ neighbour.net \in {0, Lot}
          /\ neighbour'.net = Lot - neighbour.net
      BY <1>i, <2>1, LotFacts DEF VenueInv
    <2>5. venue' \in Multiples
      <3>1. venue \in Multiples /\ venue \in Int
        BY <1>i, MultipleFacts DEF VenueInv
      <3>2. CASE neighbour.net = 0
        <4>1. venue' = venue + Lot
          BY <2>1, <2>4, <3>1, <3>2, LotFacts
        <4>2. QED
          BY <3>1, <4>1, LotFacts, MultipleFacts
      <3>3. CASE neighbour.net = Lot
        <4>1. venue' = venue + (-Lot)
          BY <2>1, <2>4, <3>1, <3>3, LotFacts
        <4>2. QED
          BY <3>1, <4>1, LotFacts, MultipleFacts
      <3>4. QED
        BY <2>4, <3>2, <3>3
    <2>6. OrdersInv' /\ VenueInv'
      BY <1>i, <2>1, <2>4, <2>5 DEF OrdersInv, VenueInv
    <2>7. QED
      BY <2>2, <2>3, <2>6 DEF FiguresInv
  <1>7. CASE Configure
    <2>1. UNCHANGED <<orders, row, cash, leg, venue, unbooked, sync, rebased, estimated, inOrder>>
          /\ neighbour' = [neighbour EXCEPT !.configured = ~@]
      BY <1>7 DEF Configure, ledgerVars
    <2>2. RowInv' /\ BasisInv' /\ LegInv' /\ AuditInv'
      BY <2>1, SameFigures
    <2>3. OrdersInv' /\ VenueInv' /\ SyncTypes' /\ MarkInv'
      BY <1>i, <2>1 DEF OrdersInv, VenueInv, SyncTypes, MarkInv
    <2>4. QED
      BY <2>2, <2>3 DEF FiguresInv
  <1>8. CASE SyncRead
    <2>1. UNCHANGED <<orders, row, cash, leg, venue, unbooked, neighbour, rebased, estimated, inOrder>>
          /\ \E p \in Prices :
                sync' = [step |-> "read", qty |-> venue, price |-> p, sets |-> {},
                         clean |-> unbooked = NotFilled /\ NeighbourCounts]
      BY <1>8 DEF SyncRead, ledgerVars
    <2>2. RowInv' /\ BasisInv' /\ LegInv' /\ AuditInv'
      BY <2>1, SameFigures
    <2>3. OrdersInv' /\ VenueInv' /\ SyncTypes' /\ MarkInv'
      BY <1>i, <2>1 DEF OrdersInv, VenueInv, SyncTypes, MarkInv
    <2>4. QED
      BY <2>2, <2>3 DEF FiguresInv
  <1>9. CASE SyncLoad
    <2>1. UNCHANGED <<orders, row, cash, leg, venue, unbooked, neighbour, rebased, estimated, inOrder>>
          /\ sync.step = "read"
      BY <1>9 DEF SyncLoad, ledgerVars
    <2>2. /\ sync' = [step |-> sync'.step, qty |-> sync'.qty, price |-> sync'.price,
                      sets |-> sync'.sets, clean |-> sync'.clean]
          /\ sync'.qty = sync.qty /\ sync'.price = sync.price
          /\ "avg" \notin sync'.sets => Whole(sync.price) = row.avg
      BY <1>9, <1>i DEF SyncLoad, SyncTypes
    <2>3. RowInv' /\ BasisInv' /\ LegInv' /\ AuditInv'
      BY <2>1, SameFigures
    <2>4. SyncTypes' /\ MarkInv'
      BY <1>i, <2>1, <2>2 DEF SyncTypes, MarkInv
    <2>5. OrdersInv' /\ VenueInv'
      BY <1>i, <2>1 DEF OrdersInv, VenueInv
    <2>6. QED
      BY <2>3, <2>4, <2>5 DEF FiguresInv
  <1>10. CASE SyncWrite
    <2>1. sync' = NoSync /\ rebased' = TRUE /\ UNCHANGED <<orders, venue, unbooked, neighbour>>
      BY <1>10 DEF SyncWrite
    <2>2. RowInv' /\ BasisInv' /\ LegInv'
      BY <1>10, SyncWriteKeeps
    <2>3. AuditInv'
      BY <2>1 DEF AuditInv
    <2>4. OrdersInv' /\ VenueInv' /\ SyncTypes' /\ MarkInv'
      BY <1>i, <2>1 DEF OrdersInv, VenueInv, SyncTypes, MarkInv, NoSync
    <2>5. QED
      BY <2>2, <2>3, <2>4 DEF FiguresInv
  <1>11. CASE SyncFails
    <2>1. sync' = NoSync
          /\ UNCHANGED <<orders, row, cash, leg, venue, unbooked, neighbour, rebased, estimated, inOrder>>
      BY <1>11 DEF SyncFails, ledgerVars
    <2>2. RowInv' /\ BasisInv' /\ LegInv' /\ AuditInv'
      BY <2>1, SameFigures
    <2>3. OrdersInv' /\ VenueInv' /\ SyncTypes' /\ MarkInv'
      BY <1>i, <2>1 DEF OrdersInv, VenueInv, SyncTypes, MarkInv, NoSync
    <2>4. QED
      BY <2>2, <2>3 DEF FiguresInv
  <1>12. CASE Backfill
    <2>1. Disturb /\ UNCHANGED <<orders, cash, leg, venue, unbooked, neighbour, rebased>>
          /\ row' = [row EXCEPT !.avg = Replay.avg] /\ estimated' = TRUE
      BY <1>12 DEF Backfill
    <2>2. Replay.avg \in Reduced
      <3>1. orders \in Seq(Rows) /\ Len(orders) \in Nat
        BY <1>i, OrderFacts DEF OrdersInv
      <3>2. PICK g : ReplaySteps(orders, Len(orders), g) /\ ReplayOf(orders) = g[Len(orders)]
        BY <3>1, ReplayIs
      <3>3. ReplayHas(orders, g, Len(orders))
        BY <3>1, <3>2, ReplayFacts
      <3>4. QED
        BY <3>2, <3>3, ReplayIsOfOrders DEF ReplayHas, IsRow
    <2>3. RowInv' /\ row'.net = row.net
      BY <1>i, <2>1, <2>2 DEF RowInv, IsRow
    <2>4. BasisInv' /\ LegInv'
      BY <2>1 DEF BasisInv, LegInv
    <2>5. AuditInv'
      BY <2>1, <2>3 DEF FiguresInv, AuditInv, CashInv
    <2>6. SyncTypes' /\ MarkInv'
      BY <1>i, <2>1, DisturbedSync
    <2>7. OrdersInv' /\ VenueInv'
      BY <1>i, <2>1 DEF OrdersInv, VenueInv
    <2>8. QED
      BY <2>3, <2>4, <2>5, <2>6, <2>7 DEF FiguresInv
  <1>13. CASE UNCHANGED allVars
    <2>1. UNCHANGED <<orders, row, cash, leg, venue, unbooked, neighbour, sync, rebased, estimated, inOrder>>
      BY <1>13 DEF allVars, ledgerVars, outside
    <2>2. RowInv' /\ BasisInv' /\ LegInv' /\ AuditInv'
      BY <2>1, SameFigures
    <2>3. OrdersInv' /\ VenueInv' /\ SyncTypes' /\ MarkInv'
      BY <1>i, <2>1 DEF OrdersInv, VenueInv, SyncTypes, MarkInv
    <2>4. QED
      BY <2>2, <2>3 DEF FiguresInv
  <1>14. QED
    BY <1>1, <1>2, <1>3, <1>4, <1>5, <1>6, <1>7, <1>8, <1>9, <1>10, <1>11, <1>12, <1>13
       DEF ReconcileNext

\* The figures of the row, and what the replay of its orders has to do with them.
THEOREM FiguresInvariant == ReconcileSpec => []FiguresInv
  BY FiguresInitInv, FiguresStepInv, PTL DEF ReconcileSpec

\* The cost-basis identity: realized PnL is the cash that came in plus what the open position
\* cost, for fills of any size and price, in whatever order they are booked, and after each sync.
THEOREM CostBasisStays == ReconcileSpec => []CostBasisKept
  <1>1. FiguresInv => CostBasisKept
    BY DEF FiguresInv, BasisInv, CostBasisKept, CostBasis, Basis
  <1>2. QED
    BY <1>1, FiguresInvariant, PTL

\* The average entry lies between the prices at which the position was entered.
THEOREM AverageIsOfLeg == ReconcileSpec => []AvgIsOfLeg
  <1>1. FiguresInv => AvgIsOfLeg
    BY DEF FiguresInv, LegInv, AvgIsOfLeg, AvgIsOfThisLeg, Within
  <1>2. QED
    BY <1>1, FiguresInvariant, PTL

\* The audit finds nothing in a row that no sync and no backfill has changed: for fills booked as
\* they were created, and for a flat position in whatever order they were booked.
THEOREM AuditStaysClean == ReconcileSpec => []AuditIsClean
  <1>1. FiguresInv => AuditIsClean
    <2> SUFFICES ASSUME FiguresInv, ~rebased, ~estimated, row.net = 0 \/ inOrder PROVE Replay = row
      BY DEF AuditIsClean
    <2>1. CashInv /\ OwnInv /\ Basis(row, cash) /\ orders \in Seq(Rows)
      BY DEF FiguresInv, AuditInv, BasisInv, OrdersInv
    <2>2. CASE inOrder
      BY <2>1, <2>2, ReplayIsOfOrders DEF OwnInv
    <2>3. CASE row.net = 0
      <3>1. Len(orders) \in Nat /\ DOMAIN orders = 1..Len(orders)
        BY <2>1, OrderFacts
      <3>2. PICK g : ReplaySteps(orders, Len(orders), g) /\ ReplayOf(orders) = g[Len(orders)]
        BY <2>1, ReplayIs
      <3>3. ReplayHas(orders, g, Len(orders))
        BY <2>1, <3>1, <3>2, ReplayFacts
      <3> DEFINE r == g[Len(orders)]
      <3>4. IsRow(r) /\ r.net = row.net /\ Basis(r, cash) /\ (r.net = 0 => r.avg = Whole(0))
        BY <2>1, <3>1, <3>3 DEF ReplayHas, CashInv
      <3>5. r.avg = row.avg
        BY <2>1, <2>3, <3>4 DEF OwnInv
      <3>6. r.realized = row.realized
        BY <2>1, <3>4, <3>5 DEF Basis
      <3>7. IsRow(row)
        BY DEF FiguresInv, RowInv
      <3> HIDE DEF r
      <3>8. r = row
        BY <3>4, <3>5, <3>6, <3>7 DEF IsRow
      <3>9. QED
        BY <3>2, <3>8, ReplayIsOfOrders DEF r
    <2>4. QED
      BY <2>2, <2>3
  <1>2. QED
    BY <1>1, FiguresInvariant, PTL

----------------------------------------------------------------------------
(* The equity history: for any horizon and any venues. *)

\* The loop is only in its poll once the hour it slept to has come.
LoopInv ==
    /\ now \in Hours /\ wakeAt \in Nat
    /\ live \in [Hours -> Nat]
    /\ loop \in {"asleep", "polling"}
    /\ wakeAt <= now + 1
    /\ loop = "polling" => wakeAt <= now

\* Hours the loop may yet write are empty: those from wakeAt on.
PointInv == \A h \in Hours : live[h] <= 1 /\ (h >= wakeAt => live[h] = 0)

\* What has been pulled, and what a marker stands for.
TaskInv ==
    /\ marker \in BOOLEAN
    /\ task = "writing" => pulled # {}
    /\ task = "marking" => history # {}
    /\ marker => history # {}

HistoryInv == LoopInv /\ PointInv /\ TaskInv

\* The invariant holds initially.
LEMMA HistoryInitInv == Init => HistoryInv
  <1> SUFFICES ASSUME Init PROVE HistoryInv
    OBVIOUS
  <1>1. LoopInv /\ PointInv
    BY HistoryAssumption DEF Init, LoopInv, PointInv, Hours
  <1>2. TaskInv
    BY DEF Init, TaskInv
  <1>3. QED
    BY <1>1, <1>2 DEF HistoryInv

\* Every step of the loop, of the start-up task and every restart keeps it.
LEMMA HistoryStepInv == HistoryInv /\ [Next]_vars => HistoryInv'
  <1> SUFFICES ASSUME HistoryInv, [Next]_vars PROVE HistoryInv'
    OBVIOUS
  <1>i. LoopInv /\ PointInv /\ TaskInv
    BY DEF HistoryInv
  <1>1. CASE Tick
    <2>1. LoopInv' /\ PointInv'
      BY <1>1, <1>i, HistoryAssumption DEF Tick, startup, LoopInv, PointInv, Hours
    <2>2. TaskInv'
      BY <1>1, <1>i DEF Tick, startup, TaskInv
    <2>3. QED
      BY <2>1, <2>2 DEF HistoryInv
  <1>2. CASE Wake
    <2>1. LoopInv' /\ PointInv'
      BY <1>2, <1>i, HistoryAssumption DEF Wake, startup, LoopInv, PointInv, Hours
    <2>2. TaskInv'
      BY <1>2, <1>i DEF Wake, startup, TaskInv
    <2>3. QED
      BY <2>1, <2>2 DEF HistoryInv
  <1>3. CASE Snapshot
    <2>1. live[now] = 0
      BY <1>3, <1>i DEF Snapshot, LoopInv, PointInv
    <2>2. LoopInv'
      BY <1>3, <1>i, <2>1, HistoryAssumption DEF Snapshot, LoopInv, Hours
    <2>3. PointInv'
      <3> SUFFICES ASSUME NEW h \in Hours PROVE live'[h] <= 1 /\ (h >= wakeAt' => live'[h] = 0)
        BY DEF PointInv
      <3>1. h \in Nat /\ now \in Nat /\ live[h] \in Nat
        BY <1>i, HistoryAssumption DEF LoopInv, Hours
      <3>2. live'[h] = live[h] \/ (h = now /\ live'[h] = 1)
        BY <1>3, <1>i, <2>1 DEF Snapshot, LoopInv
      <3>3. wakeAt' = now + 1 /\ wakeAt <= now /\ wakeAt \in Nat
        BY <1>3, <1>i DEF Snapshot, LoopInv
      <3>4. QED
        BY <1>i, <3>1, <3>2, <3>3 DEF PointInv
    <2>4. TaskInv'
      BY <1>3, <1>i DEF Snapshot, startup, TaskInv
    <2>5. QED
      BY <2>2, <2>3, <2>4 DEF HistoryInv
  <1>4. CASE Startup
    <2>1. UNCHANGED hourly
      BY <1>4 DEF Startup, Sweep, CheckMarker, Pull, WriteHistory, MarkDone, Goto
    <2>2. LoopInv' /\ PointInv'
      BY <2>1, <1>i DEF hourly, LoopInv, PointInv
    <2>3. TaskInv'
      <3>1. CASE Sweep \/ CheckMarker
        BY <1>i, <3>1 DEF Sweep, CheckMarker, Goto, TaskInv
      <3>2. CASE Pull \/ WriteHistory
        BY <1>i, <3>2 DEF Pull, WriteHistory, Goto, TaskInv
      <3>3. CASE MarkDone
        BY <1>i, <3>3, Zenon DEF MarkDone, Goto, TaskInv
      <3>4. QED
        BY <1>4, <3>1, <3>2, <3>3 DEF Startup
    <2>4. QED
      BY <2>2, <2>3 DEF HistoryInv
  <1>5. CASE Restart
    <2>1. LoopInv' /\ PointInv'
      BY <1>5, <1>i, HistoryAssumption DEF Restart, LoopInv, PointInv, Hours
    <2>2. TaskInv'
      BY <1>5, <1>i DEF Restart, TaskInv
    <2>3. QED
      BY <2>1, <2>2 DEF HistoryInv
  <1>6. CASE UNCHANGED vars
    BY <1>6, <1>i DEF vars, hourly, startup, HistoryInv, LoopInv, PointInv, TaskInv
  <1>7. QED
    BY <1>1, <1>2, <1>3, <1>4, <1>5, <1>6 DEF Next

\* The strengthened invariant holds in every reachable state: hours from the wake-up on have no
\* point yet, and nothing is marked that has not been written.
THEOREM HistoryInvariant == Spec => []HistoryInv
  BY HistoryInitInv, HistoryStepInv, PTL DEF Spec

\* The live curve never has two points of one hour: not when a poll lasts over the hour, nor
\* when the process restarts within it.
THEOREM NoDoublePoint == Spec => []OnePointPerHour
  <1>1. HistoryInv => OnePointPerHour
    BY DEF HistoryInv, PointInv, OnePointPerHour
  <1>2. QED
    BY HistoryInvariant, <1>1, PTL

\* The backfill marker is never set without rows, wherever a crash or a failure falls.
THEOREM MarkerStandsForRows == Spec => []MarkerIsEarned
  <1>1. HistoryInv => MarkerIsEarned
    BY DEF HistoryInv, TaskInv, MarkerIsEarned
  <1>2. QED
    BY HistoryInvariant, <1>1, PTL

\* No step of the start-up tasks, the loop or a restart removes a live point.
THEOREM LivePointsKept == Spec => PointsKept
  <1>1. ASSUME HistoryInv, [Next]_vars PROVE \A h \in Hours : live[h] <= live'[h]
    <2> SUFFICES ASSUME NEW h \in Hours PROVE live[h] <= live'[h]
      OBVIOUS
    <2>1. live[h] \in Nat
      BY <1>1 DEF HistoryInv, LoopInv
    <2>2. CASE Snapshot
      BY <1>1, <2>1, <2>2 DEF Snapshot, HistoryInv, LoopInv
    <2>3. CASE UNCHANGED live
      BY <2>1, <2>3
    <2>4. QED
      BY <1>1, <2>2, <2>3 DEF Next, Tick, Wake, Startup, Sweep, CheckMarker, Pull, WriteHistory,
                              MarkDone, Goto, Restart, vars, hourly
  <1>2. QED
    BY HistoryInvariant, <1>1, PTL DEF Spec, PointsKept
----------------------------------------------------------------------------
(* The sizing of orders: for every amount, price and grid. *)

\* Flooring to a multiple of the step loses less than one step.
LEMMA DivBounds ==
  ASSUME NEW a \in Nat, NEW b \in Nat \ {0}
  PROVE  /\ a \div b \in Nat
         /\ (a \div b) * b <= a
         /\ a < (a \div b) * b + b
  BY SMT

\* Rounding up gives the smallest multiple that reaches the amount.
LEMMA CeilBounds ==
  ASSUME NEW a \in Nat, NEW b \in Nat \ {0}
  PROVE  /\ CeilDiv(a, b) \in Nat
         /\ CeilDiv(a, b) * b >= a
         /\ CeilDiv(a, b) * b < a + b
  <1>1. a + b - 1 \in Nat
    OBVIOUS
  <1>2. QED
    BY <1>1, DivBounds DEF CeilDiv

\* A product of positive numbers is positive.
LEMMA Positive == ASSUME NEW a \in Nat \ {0}, NEW b \in Nat \ {0} PROVE a * b \in Nat \ {0}
  BY SMT

\* A product distributes over one step.
LEMMA Distribute ==
  ASSUME NEW a \in Int, NEW b \in Int, NEW c \in Int
  PROVE  (a + b) * c = a * c + c * b
  BY SMT

\* The value of k steps, either way round.
LEMMA Reorder == ASSUME NEW k \in Nat, NEW a \in Nat, NEW b \in Nat PROVE (k * a) * b = k * (b * a)
  BY SMT

\* A multiple of the step passes the rounding of either adapter unchanged.
LEMMA MultipleIsOrdered ==
  ASSUME NEW k \in Nat, NEW step \in Nat \ {0}
  PROVE  Ordered(k * step, step) = {k * step} /\ OnGrid(k * step, step)
  <1>1. (k * step) \div step = k /\ (k * step) % step = 0
    BY SMT
  <1>2. k * step \in Nat
    BY SMT
  <1>3. 2 * (k * step) + step = k * (2 * step) + step
    BY SMT
  <1>4. (k * (2 * step) + step) \div (2 * step) = k
    BY SMT
  <1>5. QED
    BY <1>1, <1>2, <1>3, <1>4 DEF Ordered, SnapDown, SnapNearest, OnGrid

\* compute_managed_qty: a multiple of the step that the budget pays for, and the last one.
LEMMA ManagedQtyFits ==
  ASSUME NEW usdt \in Nat, NEW price \in Nat \ {0}, NEW step \in Nat \ {0}
  PROVE  LET q == ManagedQty(usdt, price, step) IN
         /\ \E k \in Nat : q = k * step
         /\ q \in Nat /\ q * price <= usdt
         /\ q > 0 => (q + step) * price > usdt
  <1> DEFINE d == price * step
  <1> DEFINE k == usdt \div d
  <1> DEFINE q == ManagedQty(usdt, price, step)
  <1>1. d \in Nat \ {0}
    BY Positive
  <1>2. CASE usdt = 0
    <2>1. q = 0
      BY <1>2 DEF ManagedQty
    <2>2. 0 = 0 * step /\ 0 * price = 0
      BY SMT
    <2>3. QED
      BY <1>2, <2>1, <2>2
  <1>3. CASE usdt # 0
    <2>1. q = k * step
      BY <1>3 DEF ManagedQty
    <2>2. k \in Nat /\ k * d <= usdt /\ usdt < k * d + d
      BY <1>1, DivBounds
    <2>3. (k * step) * price = k * d
      BY <2>2, Reorder
    <2>4. k * step \in Nat
      BY <2>2, SMT
    <2>5. (k * step + step) * price = k * d + d
      BY <2>3, <2>4, Distribute
    <2>6. QED
      BY <2>1, <2>2, <2>3, <2>4, <2>5
  <1>4. QED
    BY <1>2, <1>3

\* _min_qty and _min_qty_for_notional: the first multiple of the step worth the minimum.
LEMMA MinQtyFits ==
  ASSUME NEW min \in Nat \ {0}, NEW price \in Nat \ {0}, NEW step \in Nat \ {0}
  PROVE  LET q == MinQty(min, price, step) IN
         /\ \E k \in Nat : q = k * step
         /\ q \in Nat /\ q * price >= min
         /\ (q - step) * price < min
  <1> DEFINE d == price * step
  <1> DEFINE k == CeilDiv(min, d)
  <1>1. d \in Nat \ {0}
    BY Positive
  <1>2. MinQty(min, price, step) = k * step
    BY DEF MinQty
  <1>3. k \in Nat /\ k * d >= min /\ k * d < min + d
    BY <1>1, CeilBounds
  <1>4. (k * step) * price = k * d
    BY <1>3, Reorder
  <1>5. (k * step - step) * price = k * d - d
    BY <1>3, SMT
  <1>6. k * step \in Nat
    BY <1>3, SMT
  <1>7. k * d \in Nat /\ d \in Nat
    BY <1>1, <1>3, SMT
  <1>8. QED
    BY <1>2, <1>3, <1>4, <1>5, <1>6, <1>7
----------------------------------------------------------------------------
\* What OpenQty and FireQty return fits size, cap and minimum.
LEMMA OpenFits ==
  ASSUME NEW size \in Amounts, NEW price \in UnitPrices, NEW step \in Steps,
         NEW min \in Amounts, NEW cap \in Amounts,
         SizeOpen(size, price, step, min, cap) \/ SizeFire(size, price, step, cap)
  PROVE  OpenIsPlaceable'
  <1> DEFINE q == ManagedQty(size, price, step)
  <1>1. /\ size \in Nat /\ min \in Nat /\ cap \in Nat
        /\ price \in Nat \ {0} /\ step \in Nat \ {0}
    BY SizingAssumption
  <1>2. /\ q \in Nat /\ q * price <= size
        /\ q > 0 => (q + step) * price > size
        /\ Ordered(q, step) = {q}
    <2>1. /\ \E k \in Nat : q = k * step
          /\ q \in Nat /\ q * price <= size
          /\ q > 0 => (q + step) * price > size
      BY <1>1, ManagedQtyFits
    <2>2. PICK k \in Nat : q = k * step
      BY <2>1
    <2>3. Ordered(k * step, step) = {k * step}
      BY <1>1, MultipleIsOrdered
    <2>4. QED
      BY <2>1, <2>2, <2>3
  <1>3. q * price \in Nat
    BY <1>1, <1>2, SMT
  <1> HIDE DEF q
  <1>4. CASE SizeOpen(size, price, step, min, cap)
    <2>1. OpenQty(size, price, step, min, cap)
            = IF q * price < min \/ (cap > 0 /\ q * price > cap) THEN 0 ELSE q
      BY DEF OpenQty, q
    <2>2. CASE q * price < min \/ (cap > 0 /\ q * price > cap)
      BY <1>4, <2>1, <2>2 DEF SizeOpen, OpenIsPlaceable
    <2>3. CASE ~(q * price < min \/ (cap > 0 /\ q * price > cap))
      <3>1. sized' = [kind |-> "open", size |-> size, price |-> price, step |-> step,
                      min |-> min, cap |-> cap, qty |-> q]
        BY <1>4, <2>1, <2>3 DEF SizeOpen
      <3>2. /\ sized'.qty = q /\ sized'.size = size /\ sized'.price = price
            /\ sized'.step = step /\ sized'.cap = cap
        BY <3>1
      <3>3. (Ordered(sized.qty, sized.step) = {sized.qty})'
        BY <1>2, <3>2 DEF Ordered, SnapDown, SnapNearest
      <3>4. sized'.qty > 0 => WithinMeans(sized.qty)'
        BY <1>1, <1>2, <1>3, <2>3, <3>2 DEF WithinMeans
      <3>5. sized'.kind = "open" => sized'.qty * sized'.price >= sized'.min
        BY <1>1, <1>3, <2>3, <3>1
      <3>6. sized'.kind # "paper"
        BY <3>1
      <3>7. QED
        BY <3>3, <3>4, <3>5, <3>6 DEF OpenIsPlaceable
    <2>4. QED
      BY <2>2, <2>3
  <1>5. CASE SizeFire(size, price, step, cap)
    <2>1. FireQty(0, size, price, step, cap) = IF cap > 0 /\ q * price > cap THEN 0 ELSE q
      BY DEF FireQty, q
    <2>2. CASE cap > 0 /\ q * price > cap
      BY <1>5, <2>1, <2>2 DEF SizeFire, OpenIsPlaceable
    <2>3. CASE ~(cap > 0 /\ q * price > cap)
      <3>1. sized' = [kind |-> "fire", size |-> size, price |-> price, step |-> step,
                      cap |-> cap, qty |-> q]
        BY <1>5, <2>1, <2>3 DEF SizeFire
      <3>2. /\ sized'.qty = q /\ sized'.size = size /\ sized'.price = price
            /\ sized'.step = step /\ sized'.cap = cap
        BY <3>1
      <3>3. (Ordered(sized.qty, sized.step) = {sized.qty})'
        BY <1>2, <3>2 DEF Ordered, SnapDown, SnapNearest
      <3>4. sized'.qty > 0 => WithinMeans(sized.qty)'
        BY <1>1, <1>2, <1>3, <2>3, <3>2 DEF WithinMeans
      <3>5. sized'.kind = "open" => sized'.qty * sized'.price >= sized'.min
        BY <1>1, <1>3, <2>3, <3>1
      <3>6. sized'.kind # "paper"
        BY <3>1
      <3>7. QED
        BY <3>3, <3>4, <3>5, <3>6 DEF OpenIsPlaceable
    <2>4. QED
      BY <2>2, <2>3
  <1>6. QED
    BY <1>4, <1>5

\* A paper order is the smallest that can be placed.
LEMMA PaperFits ==
  ASSUME NEW price \in UnitPrices, NEW step \in Steps, NEW min \in Amounts,
         SizePaper(price, step, min)
  PROVE  OpenIsPlaceable'
  <1> DEFINE q == PaperQty(price, step, min)
  <1> DEFINE m == MinQty(min, price, step)
  <1>1. min \in Nat /\ price \in Nat \ {0} /\ step \in Nat \ {0}
    BY SizingAssumption
  <1>2. step = 1 * step
    BY <1>1, SMT
  <1>3. /\ \E k \in Nat : q = k * step
        /\ q \in Nat /\ q >= step /\ q * price >= min
        /\ q = step \/ (q - step) * price < min
    <2>1. CASE min = 0
      <3>1. q = step
        BY <1>1, <2>1 DEF PaperQty
      <3>2. step * price \in Nat
        BY <1>1, SMT
      <3>3. QED
        <4> HIDE DEF q
        <4> QED
          BY <1>1, <1>2, <2>1, <3>1, <3>2
    <2>2. CASE min # 0
      <3>1. /\ \E k \in Nat : m = k * step
            /\ m \in Nat /\ m * price >= min /\ (m - step) * price < min
        BY <1>1, <2>2, MinQtyFits
      <3>2. q = Larger(step, m)
        BY <1>1, <2>2 DEF PaperQty
      <3>3. CASE m <= step
        <4>1. q = step
          BY <1>1, <3>1, <3>2, <3>3 DEF Larger
        <4>2. step * price >= m * price
          BY <1>1, <3>1, <3>3, SMT
        <4>3. step * price >= min
          <5>1. step * price \in Nat /\ m * price \in Nat
            BY <1>1, <3>1, SMT
          <5>2. QED
            BY <1>1, <3>1, <4>2, <5>1
        <4>4. QED
          BY <1>1, <1>2, <4>1, <4>3
      <3>4. CASE m > step
        BY <1>1, <3>1, <3>2, <3>4 DEF Larger
      <3>5. QED
        BY <1>1, <3>1, <3>3, <3>4
    <2>3. QED
      BY <2>1, <2>2
  <1>4. Ordered(q, step) = {q}
    BY <1>1, <1>3, MultipleIsOrdered
  <1> HIDE DEF q
  <1>5. sized' = [kind |-> "paper", price |-> price, step |-> step, min |-> min, qty |-> q]
    BY DEF SizePaper, q
  <1>6. QED
    BY <1>1, <1>3, <1>4, <1>5 DEF OpenIsPlaceable, IsSmallest, Ordered

\* A sizing of a pair says nothing of other orders.
LEMMA PairSetsOther ==
  ASSUME NEW mode \in {"min", "notional"}, NEW notional, NEW steps, NEW prices, NEW mins,
         SizePair(mode, notional, steps, prices, mins)
  PROVE  OpenIsPlaceable'
  BY DEF SizePair, OpenIsPlaceable

\* Opens, manual fires and paper orders stay within their means and can be placed, for every
\* size, price, grid, minimum and cap.
THEOREM EveryOpenIsPlaceable == SizingSpec => []OpenIsPlaceable
  <1>1. SizingInit => OpenIsPlaceable
    BY DEF SizingInit, NothingSized, OpenIsPlaceable
  <1>2. OpenIsPlaceable /\ [SizingNext]_sized => OpenIsPlaceable'
    <2>1. SizingNext => OpenIsPlaceable'
      BY OpenFits, PaperFits, PairSetsOther DEF SizingNext
    <2>2. OpenIsPlaceable /\ UNCHANGED sized => OpenIsPlaceable'
      BY DEF OpenIsPlaceable, WithinMeans, IsSmallest
    <2>3. QED
      BY <2>1, <2>2
  <1>3. QED
    BY <1>1, <1>2, PTL DEF SizingSpec
----------------------------------------------------------------------------
\* A multiple of a multiple of the step lies on its grid.
LEMMA MultipleOfMultiple ==
  ASSUME NEW k \in Nat, NEW c \in Nat \ {0}, NEW step \in Nat \ {0}, c % step = 0
  PROVE  OnGrid(k * c, step)
  <1> DEFINE j == c \div step
  <1>1. j \in Nat /\ c = j * step
    BY SMT
  <1> HIDE DEF j
  <1>2. k * c = (k * j) * step /\ k * j \in Nat
    BY <1>1, SMT
  <1>3. OnGrid((k * j) * step, step)
    BY <1>2, MultipleIsOrdered
  <1>4. QED
    BY <1>2, <1>3

\* Nested steps both divide the coarser of them.
LEMMA CoarseIsNested ==
  ASSUME NEW steps \in [Legs2 -> Nat \ {0}], NEW l \in Legs2
  PROVE  /\ Coarse(steps) \in Nat \ {0}
         /\ Nested(steps) => Coarse(steps) % steps[l] = 0
  <1> DEFINE a == steps[1]
  <1> DEFINE b == steps[2]
  <1>1. a \in Nat \ {0} /\ b \in Nat \ {0} /\ steps[l] \in {a, b}
    BY DEF Legs2
  <1>2. Coarse(steps) = IF a < b THEN b ELSE a
    BY DEF Coarse, Larger
  <1>3. Nested(steps) <=> (a % b = 0 \/ b % a = 0)
    BY DEF Nested
  <1> HIDE DEF a, b
  <1>4. a % a = 0 /\ b % b = 0 /\ (a < b => a % b = a) /\ (b < a => b % a = b)
    BY <1>1, SMT
  <1>5. QED
    BY <1>1, <1>2, <1>3, <1>4

\* The minimum, padded by a fifth, in steps of the coarser grid.
LEMMA PaddedClears ==
  ASSUME NEW min \in Nat, NEW price \in Nat \ {0}, NEW c \in Nat \ {0}
  PROVE  LET k == CeilDiv(12 * min, 10 * price * c) IN
         k \in Nat /\ (k * c) * price >= min
  <1> DEFINE d == 10 * price * c
  <1> DEFINE k == CeilDiv(12 * min, d)
  <1>1. price * c \in Nat \ {0}
    BY Positive
  <1>2. d = 10 * (price * c)
    BY SMT
  <1>3. d \in Nat \ {0}
    BY <1>1, <1>2
  <1> HIDE DEF d
  <1>4. k \in Nat /\ k * d >= 12 * min
    <2>1. 12 * min \in Nat
      OBVIOUS
    <2>2. QED
      BY <1>3, <2>1, CeilBounds
  <1> HIDE DEF k
  <1>5. k * d = 10 * (k * (price * c))
    BY <1>1, <1>2, <1>4, SMT
  <1>6. (k * c) * price = k * (price * c)
    BY <1>4, Reorder
  <1>7. k * (price * c) \in Nat
    BY <1>1, <1>4, SMT
  <1>8. (k * c) * price >= min
    BY <1>4, <1>5, <1>6, <1>7
  <1>9. QED
    BY <1>4, <1>8 DEF k, d

\* What PairQty returns fits both legs.
LEMMA PairFits ==
  ASSUME NEW mode \in {"min", "notional"}, NEW notional \in Amounts,
         NEW steps \in [Legs2 -> Steps], NEW prices \in [Legs2 -> UnitPrices],
         NEW mins \in [Legs2 -> Amounts],
         SizePair(mode, notional, steps, prices, mins)
  PROVE  PairIsPlaceable'
  <1> DEFINE c == Coarse(steps)
  <1> DEFINE k(l) == CeilDiv(12 * mins[l], 10 * prices[l] * c)
  <1> DEFINE q == IF mode = "min" THEN Larger(Larger(k(1) * c, k(2) * c), c)
                  ELSE ManagedQty(notional, prices[2], c)
  <1> DEFINE r == PairQty(mode, notional, steps, prices, mins)
  <1>1. /\ notional \in Nat
        /\ steps \in [Legs2 -> Nat \ {0}] /\ mins \in [Legs2 -> Nat]
        /\ prices \in [Legs2 -> Nat \ {0}]
    BY SizingAssumption
  <1>2. \A l \in Legs2 : /\ mins[l] \in Nat /\ prices[l] \in Nat \ {0}
                         /\ steps[l] \in Nat \ {0}
    BY <1>1
  <1>3. 1 \in Legs2 /\ 2 \in Legs2
    BY DEF Legs2
  <1>4. c \in Nat \ {0} /\ \A l \in Legs2 : Nested(steps) => c % steps[l] = 0
    BY <1>1, <1>3, CoarseIsNested
  <1>5. r = IF Clears(q, prices, mins) THEN q ELSE 0
    BY DEF PairQty
  <1> HIDE DEF c, r
  <1>6. ASSUME mode = "min"
        PROVE  q > 0 /\ Clears(q, prices, mins) /\ \E n \in Nat : q = n * c
    <2>1. \A l \in Legs2 : k(l) \in Nat /\ (k(l) * c) * prices[l] >= mins[l]
      BY <1>2, <1>4, PaddedClears
    <2> DEFINE x == k(1) * c
    <2> DEFINE y == k(2) * c
    <2>2. x \in Nat /\ y \in Nat /\ c = 1 * c
      BY <1>3, <1>4, <2>1, SMT
    <2>3. x * prices[1] >= mins[1] /\ y * prices[2] >= mins[2]
      BY <1>3, <2>1
    <2>4. q = Larger(Larger(x, y), c)
      BY <1>6
    <2>5. k(1) \in Nat /\ k(2) \in Nat
      BY <1>3, <2>1
    <2>6. \E n \in Nat : q = n * c
      <3>1. q \in {x, y, c}
        BY <2>4 DEF Larger
      <3>2. QED
        BY <2>2, <2>5, <3>1
    <2> HIDE DEF x, y, q
    <2>7. q \in Nat /\ q >= x /\ q >= y /\ q >= c
      BY <1>4, <2>2, <2>4 DEF Larger
    <2>8. q * prices[1] >= mins[1] /\ q * prices[2] >= mins[2]
      <3>1. ASSUME NEW z \in Nat, NEW p \in Nat, NEW m \in Nat, z * p >= m, q >= z
            PROVE  q * p >= m
        <4>1. q * p >= z * p /\ q * p \in Nat /\ z * p \in Nat
          BY <2>7, <3>1, SMT
        <4>2. QED
          BY <3>1, <4>1
      <3>2. QED
        BY <1>2, <1>3, <2>2, <2>3, <2>7, <3>1
    <2>9. QED
      BY <1>4, <2>6, <2>7, <2>8 DEF Clears, Legs2
  <1>7. ASSUME mode = "notional"
        PROVE  q \in Nat /\ q * prices[2] <= notional /\ \E n \in Nat : q = n * c
    BY <1>1, <1>2, <1>3, <1>4, <1>7, ManagedQtyFits
  <1>8. PICK n \in Nat : q = n * c
    BY <1>6, <1>7
  <1>9. ASSUME NEW l \in Legs2, Nested(steps) PROVE OnGrid(q, steps[l])
    <2>1. OnGrid(n * c, steps[l])
      BY <1>2, <1>4, <1>9, MultipleOfMultiple
    <2>2. QED
      BY <1>8, <2>1
  <1> HIDE DEF q
  <1>10. sized' = [kind |-> mode, notional |-> notional, steps |-> steps, prices |-> prices,
                   mins |-> mins, qty |-> r]
    BY DEF SizePair, r
  <1>11. mode = "notional" => r * prices[2] <= notional
    <2>1. 0 * prices[2] = 0
      BY <1>2, <1>3
    <2>2. QED
      BY <1>1, <1>5, <1>7, <2>1
  <1>12. r > 0 => r = q /\ Clears(q, prices, mins)
    BY <1>5
  <1>13. mode = "min" => r > 0
    BY <1>5, <1>6
  <1>14. ASSUME r > 0, NEW l \in Legs2
         PROVE  /\ r * prices[l] >= mins[l]
                /\ Nested(steps) => OnGrid(r, steps[l])
    BY <1>9, <1>12, <1>14 DEF Clears
  <1>15. QED
    BY <1>10, <1>11, <1>13, <1>14 DEF PairIsPlaceable, Nested, OnGrid

\* The quantity a pair is sized to can be ordered on both of its venues, for every notional,
\* minimum, price and pair of grids; and the smallest pair always exists.
THEOREM EveryPairIsPlaceable == SizingSpec => []PairIsPlaceable
  <1>1. SizingInit => PairIsPlaceable
    BY DEF SizingInit, NothingSized, PairIsPlaceable
  <1>2. PairIsPlaceable /\ [SizingNext]_sized => PairIsPlaceable'
    <2>1. SizingNext => PairIsPlaceable'
      <3>1. ASSUME NEW price \in UnitPrices, NEW step \in Steps, NEW min \in Amounts,
                   NEW size \in Amounts, NEW cap \in Amounts,
                   \/ SizePaper(price, step, min) \/ SizeOpen(size, price, step, min, cap)
                   \/ SizeFire(size, price, step, cap)
            PROVE  PairIsPlaceable'
        BY <3>1 DEF SizePaper, SizeOpen, SizeFire, PairIsPlaceable
      <3>2. QED
        BY <3>1, PairFits DEF SizingNext
    <2>2. PairIsPlaceable /\ UNCHANGED sized => PairIsPlaceable'
      BY DEF PairIsPlaceable, Nested, OnGrid
    <2>3. QED
      BY <2>1, <2>2
  <1>3. QED
    BY <1>1, <1>2, PTL DEF SizingSpec
============================================================================
