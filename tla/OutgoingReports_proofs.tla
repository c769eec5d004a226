------------------------ MODULE OutgoingReports_proofs ------------------------
(* The path of reports to the host: the ring is a first-in first-out queue   *)
(* for every size, OutgoingReports keeps its promises for every choice of    *)
(* reports, controls, field width and queue size, and under it the ring      *)
(* holds what the queue holds.                                               *)
EXTENDS ReportPath, SequenceTheorems, WellFoundedInduction, TLAPS

-----------------------------------------------------------------------------
(* The ring.                                                               *)

RingInv == RingTypeOK /\ CountersAgree

-----------------------------------------------------------------------------
(* Arithmetic of the indices.                                              *)

\* An index below two turns of the ring is kept or reduced by one turn: the
\* only wrap (i + 1) % OR_BUFSIZE ever does.
LEMMA ModOnce ==
  ASSUME NEW N \in Nat \ {0}
  PROVE  \A a \in 0 .. 2 * N - 1 : a % N = IF a < N THEN a ELSE a - N
  OBVIOUS

\* Advancing an already wrapped index wraps the same way as the plain sum.
LEMMA ModStep ==
  ASSUME NEW N \in Nat \ {0}, NEW h \in 0 .. N - 1, NEW k \in 0 .. N - 1
  PROVE  /\ (((h + k) % N) + 1) % N = (h + k + 1) % N
         /\ (((h + 1) % N) + k) % N = (h + k + 1) % N
         /\ (((h + k + 1) % N) + N - 1) % N = (h + k) % N
         /\ (h + k) % N \in 0 .. N - 1
         /\ (h + k + 1) % N \in 0 .. N - 1
  <1> DEFINE Wrap(a) == IF a < N THEN a ELSE a - N
  <1>1. \A a \in 0 .. 2 * N - 1 : a % N = Wrap(a) /\ Wrap(a) \in 0 .. N - 1
    <2>1. \A a \in 0 .. 2 * N - 1 : a % N = Wrap(a)
      BY ModOnce
    <2>2. \A a \in 0 .. 2 * N - 1 : Wrap(a) \in 0 .. N - 1
      OBVIOUS
    <2>3. QED
      BY <2>1, <2>2
  <1>2. /\ h + k \in 0 .. 2 * N - 1
        /\ h + 1 \in 0 .. 2 * N - 1
        /\ h + k + 1 \in 0 .. 2 * N - 1
    OBVIOUS
  <1>3. /\ (h + k) % N = Wrap(h + k)
        /\ (h + 1) % N = Wrap(h + 1)
        /\ (h + k + 1) % N = Wrap(h + k + 1)
    BY <1>1, <1>2
  <1>4. /\ Wrap(h + k) + 1 \in 0 .. 2 * N - 1
        /\ Wrap(h + 1) + k \in 0 .. 2 * N - 1
        /\ Wrap(h + k + 1) + N - 1 \in 0 .. 2 * N - 1
    OBVIOUS
  <1>5. /\ (Wrap(h + k) + 1) % N = Wrap(Wrap(h + k) + 1)
        /\ (Wrap(h + 1) + k) % N = Wrap(Wrap(h + 1) + k)
        /\ (Wrap(h + k + 1) + N - 1) % N = Wrap(Wrap(h + k + 1) + N - 1)
    <2> HIDE DEF Wrap
    <2>1. QED
      BY <1>1, <1>4
  <1>6. /\ Wrap(Wrap(h + k) + 1) = Wrap(h + k + 1)
        /\ Wrap(Wrap(h + 1) + k) = Wrap(h + k + 1)
        /\ Wrap(Wrap(h + k + 1) + N - 1) = Wrap(h + k)
    OBVIOUS
  <1>7. QED
    <2> HIDE DEF Wrap
    <2>1. QED
      BY <1>1, <1>2, <1>3, <1>5, <1>6

\* Two different waiting positions are two different slots.
LEMMA ModInjective ==
  ASSUME NEW N \in Nat \ {0}, NEW h \in 0 .. N - 1,
         NEW i \in 0 .. N - 1, NEW j \in 0 .. N - 1, i # j
  PROVE  (h + i) % N # (h + j) % N
  <1> DEFINE Wrap(a) == IF a < N THEN a ELSE a - N
  <1>1. \A a \in 0 .. 2 * N - 1 : a % N = Wrap(a)
    BY ModOnce
  <1>2. h + i \in 0 .. 2 * N - 1 /\ h + j \in 0 .. 2 * N - 1
    OBVIOUS
  <1>3. Wrap(h + i) # Wrap(h + j)
    OBVIOUS
  <1>4. QED
    <2> HIDE DEF Wrap
    <2>1. QED
      BY <1>1, <1>2, <1>3

-----------------------------------------------------------------------------
(* The invariant.                                                          *)

LEMMA RingInitially == RingInit => RingInv
  BY SizeAssumption, BlankAssumption, ModOnce DEF RingInit, RingInv, RingTypeOK, CountersAgree, Index

LEMMA RingStep == RingInv /\ [RingNext]_ring => RingInv'
  <1> SUFFICES ASSUME RingInv, [RingNext]_ring PROVE RingInv'
    OBVIOUS
  <1> USE SizeAssumption DEF RingInv, RingTypeOK, CountersAgree, Index
  <1>1. ASSUME NEW e \in Entry, Put(e) PROVE RingInv'
    <2>1. items \in 0 .. Size - 1
      BY <1>1 DEF Put
    <2>2. (tail + 1) % Size = (head + items + 1) % Size /\ (tail + 1) % Size \in Index
      BY <2>1, ModStep
    <2>3. QED
      BY <1>1, <2>1, <2>2 DEF Put
  <1>2. ASSUME NEW e \in Entry, AmendNewest(e) PROVE RingInv'
    BY <1>2 DEF AmendNewest
  <1>3. CASE TakeOldest
    <2>1. items - 1 \in 0 .. Size - 1
      BY <1>3 DEF TakeOldest
    <2>2. (((head + 1) % Size) + (items - 1)) % Size = (head + (items - 1) + 1) % Size
      BY <2>1, ModStep
    <2>3. (head + 1) % Size \in Index
      BY ModOnce
    <2>4. QED
      BY <1>3, <2>1, <2>2, <2>3 DEF TakeOldest
  <1>4. CASE UNCHANGED ring
    BY <1>4 DEF ring
  <1>5. QED
    BY <1>1, <1>2, <1>3, <1>4 DEF RingNext

\* The ring's counters stay within bounds and consistent with each other.
THEOREM RingInvariant == RingSpec => [](RingTypeOK /\ CountersAgree)
  <1>1. RingInv => RingTypeOK /\ CountersAgree
    BY DEF RingInv
  <1>2. QED
    BY <1>1, RingInitially, RingStep, PTL DEF RingSpec

-----------------------------------------------------------------------------
(* The refinement.                                                         *)

LEMMA WaitingIsSeq ==
  ASSUME RingInv
  PROVE  Waiting \in Seq(Entry) /\ Len(Waiting) = items
  <1>1. ASSUME NEW i \in 1 .. items PROVE (head + i - 1) % Size \in Index
    <2>1. i - 1 \in 0 .. Size - 1 /\ head + i - 1 = head + (i - 1)
      BY SizeAssumption DEF RingInv, RingTypeOK, Index
    <2>2. QED
      BY <2>1, ModStep, SizeAssumption DEF RingInv, RingTypeOK, Index
  <1>2. items \in Nat
    BY SizeAssumption DEF RingInv, RingTypeOK
  <1>3. Waiting \in [1 .. items -> Entry]
    BY <1>1 DEF Waiting, RingInv, RingTypeOK
  <1>4. QED
    BY <1>2, <1>3

LEMMA EnqueuePushes ==
  ASSUME RingInv, NEW e \in Entry, Put(e)
  PROVE  RingFifo!Push(e)
  <1> USE SizeAssumption DEF RingInv, RingTypeOK, CountersAgree, Index
  <1>1. items \in 0 .. Size - 1 /\ items' = items + 1 /\ head' = head
    BY DEF Put
  <1>2. ASSUME NEW i \in 1 .. items
        PROVE  slots'[(head + i - 1) % Size] = slots[(head + i - 1) % Size]
    <2>1. i - 1 \in 0 .. Size - 1 /\ items \in 0 .. Size - 1 /\ i - 1 # items
      BY <1>1
    <2>2. (head + (i - 1)) % Size # (head + items) % Size
      BY <2>1, ModInjective
    <2>3. head + (i - 1) = head + i - 1
      OBVIOUS
    <2>4. (head + (i - 1)) % Size \in Index
      BY <2>1, ModStep
    <2>5. QED
      BY <2>2, <2>3, <2>4 DEF Put
  <1>3. slots'[(head + items) % Size] = e
    BY <1>1, ModStep DEF Put
  <1>4. Waiting \in Seq(Entry) /\ Len(Waiting) = items
    BY WaitingIsSeq
  <1>5. Waiting' = [i \in 1 .. items + 1 |-> IF i \in 1 .. items THEN Waiting[i] ELSE e]
    <2>1. Waiting' = [i \in 1 .. items + 1 |-> slots'[(head + i - 1) % Size]]
      BY <1>1 DEF Waiting
    <2>2. ASSUME NEW i \in 1 .. items + 1
          PROVE  slots'[(head + i - 1) % Size] = IF i \in 1 .. items THEN Waiting[i] ELSE e
      <3>1. CASE i \in 1 .. items
        BY <1>2, <3>1 DEF Waiting
      <3>2. CASE i \notin 1 .. items
        <4>1. i = items + 1 /\ head + i - 1 = head + items
          BY <3>2
        <4>2. QED
          BY <1>3, <3>2, <4>1
      <3>3. QED
        BY <3>1, <3>2
    <2>3. QED
      BY <2>1, <2>2
  <1>6. Waiting' = Append(Waiting, e)
    <2> DEFINE W == Waiting  n == items
    <2>1. W \in Seq(Entry) /\ Len(W) = n /\ n \in Nat
      BY <1>1, <1>4
    <2>2. Waiting' = [i \in 1 .. n + 1 |-> IF i \in 1 .. n THEN W[i] ELSE e]
      BY <1>5
    <2> HIDE DEF W, n
    <2>3. Append(W, e) = [i \in 1 .. n + 1 |-> IF i \in 1 .. n THEN W[i] ELSE e]
      BY <2>1, SMTT(30)
    <2>4. Waiting' = Append(W, e)
      BY <2>2, <2>3
    <2>5. QED
      BY <2>4 DEF W
  <1>7. QED
    BY <1>1, <1>4, <1>6 DEF RingFifo!Push

LEMMA AggregateAmends ==
  ASSUME RingInv, NEW e \in Entry, AmendNewest(e)
  PROVE  RingFifo!Amend(e)
  <1> USE SizeAssumption DEF RingInv, RingTypeOK, CountersAgree, Index
  <1>1. items \in 1 .. Size /\ items' = items /\ head' = head
    BY DEF AmendNewest
  <1>2. items - 1 \in 0 .. Size - 1 /\ head + (items - 1) + 1 = head + items
    BY <1>1
  <1>3. Newest = (head + (items - 1)) % Size
    BY <1>2, ModStep DEF Newest
  <1>4. ASSUME NEW i \in 1 .. items
        PROVE  slots'[(head + i - 1) % Size]
                 = IF i = items THEN e ELSE slots[(head + i - 1) % Size]
    <2>1. i - 1 \in 0 .. Size - 1 /\ head + (i - 1) = head + i - 1
      BY <1>1
    <2>2. (head + (i - 1)) % Size \in Index
      BY <2>1, ModStep
    <2>3. ASSUME i # items PROVE (head + (i - 1)) % Size # (head + (items - 1)) % Size
      <3>1. i - 1 # items - 1
        BY <1>1, <2>3
      <3>2. QED
        BY <1>2, <2>1, <3>1, ModInjective
    <2>4. QED
      BY <1>3, <2>1, <2>2, <2>3 DEF AmendNewest
  <1>5. Waiting \in Seq(Entry) /\ Len(Waiting) = items
    BY WaitingIsSeq
  <1>6. Waiting' = [Waiting EXCEPT ![items] = e]
    BY <1>1, <1>4 DEF Waiting
  <1>7. QED
    BY <1>1, <1>5, <1>6 DEF RingFifo!Amend

LEMMA DequeuePops ==
  ASSUME RingInv, TakeOldest
  PROVE  RingFifo!Pop
  <1> USE SizeAssumption DEF RingInv, RingTypeOK, CountersAgree, Index
  <1>1. items \in 1 .. Size /\ items' = items - 1 /\ slots' = slots
    BY DEF TakeOldest
  <1>2. Waiting \in Seq(Entry) /\ Len(Waiting) = items
    BY WaitingIsSeq
  <1>3. ASSUME NEW i \in 1 .. items - 1
        PROVE  (head' + i - 1) % Size = (head + i) % Size
    <2>1. i - 1 \in 0 .. Size - 1
      BY <1>1
    <2>2. (((head + 1) % Size) + (i - 1)) % Size = (head + (i - 1) + 1) % Size
      BY <2>1, ModStep
    <2>3. (head + 1) % Size \in Index
      BY ModStep, <2>1
    <2>4. QED
      BY <2>2, <2>3 DEF TakeOldest
  <1>4. Waiting' = [i \in 1 .. items - 1 |-> Waiting[i + 1]]
    BY <1>1, <1>3 DEF Waiting
  <1>5. Waiting # << >>
    BY <1>1, <1>2
  <1>6. Waiting' = Tail(Waiting)
    <2>1. Tail(Waiting) = [i \in 1 .. Len(Waiting) - 1 |-> Waiting[i + 1]]
      BY <1>2, <1>5
    <2>2. QED
      BY <1>2, <1>4, <2>1
  <1>7. QED
    BY <1>5, <1>6 DEF RingFifo!Pop

\* However often the indices wrap, the ring hands its entries on in the order
\* they were queued, each once: remapper.cc's outgoing_reports and
\* out_report.cc's outgoing_out_reports are first-in first-out queues.
THEOREM RingImplementsFifo == RingSpec => ImplementsFifo
  <1>1. RingInit => RingFifo!Init
    BY DEF RingInit, RingFifo!Init, Waiting
  <1>2. RingInv /\ [RingNext]_ring => [RingFifo!Next]_Waiting
    <2> SUFFICES ASSUME RingInv, [RingNext]_ring PROVE [RingFifo!Next]_Waiting
      OBVIOUS
    <2>1. ASSUME NEW e \in Entry, Put(e) PROVE RingFifo!Next
      BY <2>1, EnqueuePushes DEF RingFifo!Next
    <2>2. ASSUME NEW e \in Entry, AmendNewest(e) PROVE RingFifo!Next
      BY <2>2, AggregateAmends DEF RingFifo!Next
    <2>3. CASE TakeOldest
      BY <2>3, DequeuePops DEF RingFifo!Next
    <2>4. CASE UNCHANGED ring
      BY <2>4 DEF ring, Waiting
    <2>5. QED
      BY <2>1, <2>2, <2>3, <2>4 DEF RingNext
  <1>3. QED
    BY <1>1, <1>2, RingInitially, RingStep, PTL DEF RingSpec, ImplementsFifo, RingFifo!Spec
-----------------------------------------------------------------------------
(* The pipeline.                                                           *)

USE SizesAssumption, MovesAssumption

-----------------------------------------------------------------------------
(* Arithmetic of the relative field.                                       *)

\* A remainder is smaller than its divisor.
LEMMA ModRange ==
  ASSUME NEW N \in Nat \ {0}, NEW n \in Int
  PROVE  n % N \in 0 .. N - 1
  OBVIOUS

\* What put_bits() keeps of a number always fits the field.
LEMMA TruncateFits ==
  ASSUME NEW n \in Int
  PROVE  Truncate(n) \in Field
  <1>1. n + Half \in Int /\ Span \in Nat \ {0}
    BY DEF Span
  <1>2. (n + Half) % Span \in 0 .. Span - 1
    BY <1>1, ModRange
  <1>3. QED
    BY <1>2 DEF Truncate, Field, Span

\* A division leaves less than the divisor behind.
LEMMA DivRemainder ==
  ASSUME NEW N \in Nat \ {0}, NEW n \in Nat
  PROVE  n \div N \in Nat /\ n - N * (n \div N) \in 0 .. N - 1
  OBVIOUS

\* Less than one step of movement stays behind in the accumulator.
LEMMA QuotientRemainder ==
  ASSUME NEW n \in Int
  PROVE  /\ Quotient(n) \in Int
         /\ n - Unit * Quotient(n) \in -(Unit - 1) .. Unit - 1
  <1>1. CASE n >= 0
    <2>. n \in Nat
      BY <1>1
    <2>1. n \div Unit \in Nat /\ n - Unit * (n \div Unit) \in 0 .. Unit - 1
      BY DivRemainder
    <2>2. Quotient(n) = n \div Unit
      BY <1>1 DEF Quotient
    <2>3. QED
      BY <2>1, <2>2
  <1>2. CASE ~(n >= 0)
    <2>1. -n \in Nat
      BY <1>2
    <2>2. (-n) \div Unit \in Nat /\ (-n) - Unit * ((-n) \div Unit) \in 0 .. Unit - 1
      BY <2>1, DivRemainder
    <2>3. Quotient(n) = -((-n) \div Unit)
      BY <1>2 DEF Quotient
    <2>4. Unit * (-((-n) \div Unit)) = -(Unit * ((-n) \div Unit))
      BY <2>2
    <2>5. QED
      BY <2>2, <2>3, <2>4
  <1>3. QED
    BY <1>1, <1>2

-----------------------------------------------------------------------------
(* Type correctness.                                                       *)

LEMMA IdsFacts ==
  /\ \A i \in 1 .. Len(ReportIds) : ReportIds[i] \in Ids
  /\ Len(ReportIds) \in Nat \ {0}
  <1>1. Len(ReportIds) \in Nat /\ Len(ReportIds) # 0
    BY ReportIdsAssumption, EmptySeq, LenProperties
  <1>2. QED
    BY <1>1 DEF Ids

LEMMA ModulusFacts == Span \in Nat \ {0} /\ Modulus \in Nat \ {0}
  <1>1. Span \in Nat \ {0}
    BY DEF Span
  <1>2. Unit * Span \in Nat \ {0}
    BY <1>1
  <1>3. QED
    BY <1>1, <1>2 DEF Modulus

LEMMA NeutralIsReport == Neutral \in Report
  <1>1. 0 \in Field
    BY DEF Field
  <1>2. QED
    BY <1>1 DEF Neutral, Report

LEMMA InitType == Init => TypeOK
  <1> SUFFICES ASSUME Init PROVE TypeOK
    OBVIOUS
  <1>1. 0 \in -(Unit - 1) .. Unit - 1 /\ 0 \in 0 .. Modulus - 1 /\ 0 \in 0 .. Len(ReportIds)
    BY ModulusFacts, IdsFacts
  <1>2. << >> \in Seq(Queued) /\ Len(<< >>) = 0
    BY EmptySeq
  <1>3. /\ accumulated \in [Ids -> -(Unit - 1) .. Unit - 1]
        /\ owed \in [Ids -> 0 .. Modulus - 1]
    BY <1>1 DEF Init
  <1>4. /\ reports \in [Ids -> Report]
        /\ mapped \in [Ids -> SUBSET Controls]
        /\ prev_reports \in [Ids -> SUBSET Controls]
        /\ view \in [Ids -> SUBSET Controls]
    BY NeutralIsReport DEF Init
  <1>5. queue \in Seq(Queued) /\ Len(queue) <= Capacity
    BY <1>2 DEF Init
  <1>6. QED
    BY <1>1, <1>3, <1>4, <1>5 DEF Init, TypeOK

LEMMA FrameType ==
  ASSUME TypeOK, NEW moved \in Movements, BeginFrame(moved)
  PROVE  TypeOK'
  <1> DEFINE sum == [r \in Ids |-> accumulated[r] + moved[r]]
  <1>1. ASSUME NEW r \in Ids PROVE moved[r] \in Int /\ sum[r] \in Int
    <2>1. moved[r] \in Int
      <3>1. moved \in [Ids -> Moves \cup {0}]
        BY DEF Movements
      <3>2. moved[r] \in Moves \cup {0}
        BY <3>1
      <3>3. CASE moved[r] \in Moves
        BY <3>3, Zenon
      <3>4. CASE moved[r] = 0
        BY <3>4
      <3>5. QED
        BY <3>2, <3>3, <3>4
    <2>2. accumulated[r] \in Int
      BY DEF TypeOK
    <2>3. QED
      BY <2>1, <2>2
  <1>2. ASSUME NEW r \in Ids
        PROVE  /\ Quotient(sum[r]) \in Int
               /\ sum[r] - Unit * Quotient(sum[r]) \in -(Unit - 1) .. Unit - 1
    <2> HIDE DEF sum
    <2>1. QED
      BY <1>1, QuotientRemainder
  <1>3. ASSUME NEW r \in Ids PROVE Overlay(r, sum[r]) \in Report
    <2> HIDE DEF sum
    <2>1. reports[r] \in Report /\ mapped[r] \in SUBSET Controls
      BY DEF TypeOK
    <2>2. reports[r].rel \in Int
      BY <2>1 DEF Report, Field
    <2>3. Truncate(reports[r].rel + Quotient(sum[r])) \in Field
      BY <1>2, <2>2, TruncateFits
    <2>4. QED
      BY <2>1, <2>3 DEF Overlay, Report
  <1>4. ASSUME NEW r \in Ids PROVE (owed[r] + moved[r]) % Modulus \in 0 .. Modulus - 1
    <2>1. owed[r] + moved[r] \in Int
      BY <1>1, ModulusFacts DEF TypeOK
    <2>2. QED
      BY <2>1, ModRange, ModulusFacts
  <1>5. reports' \in [Ids -> Report]
    BY <1>3 DEF BeginFrame
  <1>6. accumulated' \in [Ids -> -(Unit - 1) .. Unit - 1]
    <2>1. accumulated' = [r \in Ids |-> sum[r] - Unit * Quotient(sum[r])]
      BY DEF BeginFrame
    <2> HIDE DEF sum
    <2>2. QED
      BY <1>2, <2>1
  <1>7. owed' \in [Ids -> 0 .. Modulus - 1]
    BY <1>4 DEF BeginFrame
  <1>8. cursor' \in 0 .. Len(ReportIds)
    BY IdsFacts DEF BeginFrame
  <1>9. QED
    BY <1>5, <1>6, <1>7, <1>8 DEF BeginFrame, TypeOK

\* The entry the loop makes of report r.
LEMMA EntryIsQueued ==
  ASSUME TypeOK, NEW r \in Ids
  PROVE  [id |-> r, abs |-> reports[r].abs, rel |-> reports[r].rel] \in Queued
  BY DEF TypeOK, Report, Queued

LEMMA CurrentIsId == TypeOK /\ cursor # 0 => Current \in Ids
  BY IdsFacts DEF TypeOK, Current

\* The relative parts of an entry and of a report can be added.
LEMMA RelIsInt ==
  ASSUME NEW e \in Queued, NEW b \in Report
  PROVE  e.rel + b.rel \in Int
  <1>1. e.rel \in Field /\ b.rel \in Field
    BY DEF Queued, Report
  <1>2. e.rel \in Int /\ b.rel \in Int
    BY <1>1 DEF Field
  <1>3. QED
    BY <1>2

LEMMA LoopType ==
  ASSUME TypeOK, QueueReport
  PROVE  TypeOK'
  <1> DEFINE r == Current
  <1>1. r \in Ids /\ cursor \in 1 .. Len(ReportIds)
    BY CurrentIsId DEF QueueReport, TypeOK
  <1>2. (IF cursor = Len(ReportIds) THEN 0 ELSE cursor + 1) \in 0 .. Len(ReportIds)
    BY <1>1, IdsFacts
  <1>3. [reports EXCEPT ![r] = Neutral] \in [Ids -> Report]
    BY NeutralIsReport DEF TypeOK
  <1>4. Len(queue) \in Nat
    BY LenProperties DEF TypeOK
  <1> HIDE DEF r
  <1> USE DEF TypeOK
  <1>5. CASE Skip(r)
    BY <1>2, <1>3, <1>5 DEF Skip, ClearReport, Advance, QueueReport
  <1>6. CASE Overflow(r)
    BY <1>6, IdsFacts DEF Overflow, QueueReport
  <1>7. CASE Aggregate(r)
    <2>1. Len(queue) \in 1 .. Len(queue)
      BY <1>4, <1>7, EmptySeq DEF Aggregate, CanAggregate
    <2>2. queue[Len(queue)] \in Queued /\ reports[r] \in Report
      BY <1>1, <2>1, ElementOfSeq
    <2>3. queue[Len(queue)].rel + reports[r].rel \in Int
      BY ONLY <2>2, RelIsInt
    <2> DEFINE e == [queue[Len(queue)] EXCEPT !.rel = Truncate(@ + reports[r].rel)]
    <2>4. e \in Queued
      BY <2>2, <2>3, TruncateFits DEF Queued
    <2>5. queue' = [queue EXCEPT ![Len(queue)] = e]
      BY <1>7 DEF Aggregate
    <2> HIDE DEF e
    <2>6. queue' \in Seq(Queued) /\ Len(queue') = Len(queue)
      BY <2>1, <2>4, <2>5, ExceptSeq
    <2>7. QED
      BY <1>2, <1>3, <1>7, <2>6 DEF Aggregate, ClearReport, Advance, QueueReport
  <1>8. CASE Enqueue(r)
    <2> DEFINE e == [id |-> r, abs |-> reports[r].abs, rel |-> reports[r].rel]
    <2>1. e \in Queued
      BY <1>1, EntryIsQueued
    <2>2. queue' = Append(queue, e)
      BY <1>8 DEF Enqueue
    <2>3. e.abs \in SUBSET Controls
      BY <2>1 DEF Queued
    <2>4. prev_reports' = [prev_reports EXCEPT ![r] = e.abs]
      BY <1>8 DEF Enqueue
    <2> HIDE DEF e
    <2>5. queue' \in Seq(Queued) /\ Len(queue') = Len(queue) + 1
      BY <2>1, <2>2, AppendProperties
    <2>6. Len(queue') <= Capacity
      BY <1>4, <1>8, <2>5 DEF Enqueue
    <2>7. prev_reports' \in [Ids -> SUBSET Controls]
      BY <2>3, <2>4
    <2>8. QED
      BY <1>2, <1>3, <1>8, <2>5, <2>6, <2>7 DEF Enqueue, ClearReport, Advance, QueueReport
  <1>9. QED
    BY <1>5, <1>6, <1>7, <1>8 DEF QueueReport, r

LEMMA SendType ==
  ASSUME TypeOK, SendReport
  PROVE  TypeOK'
  <1> DEFINE q == Head(queue)
  <1>1. q \in Queued /\ queue' \in Seq(Queued) /\ Len(queue') = Len(queue) - 1
    BY HeadTailProperties DEF TypeOK, SendReport
  <1>2. Len(queue) \in Nat
    BY LenProperties DEF TypeOK
  <1>3. owed[q.id] - Unit * q.rel \in Int
    <2>1. q.id \in Ids /\ q.rel \in Int
      BY <1>1 DEF Queued, Field
    <2> HIDE DEF q
    <2>2. owed[q.id] \in Int
      BY <2>1, ModulusFacts DEF TypeOK
    <2>3. Unit * q.rel \in Int
      BY <2>1
    <2>4. QED
      BY <2>2, <2>3
  <1>4. (owed[q.id] - Unit * q.rel) % Modulus \in 0 .. Modulus - 1
    BY <1>3, ModRange, ModulusFacts
  <1>5. owed' = [owed EXCEPT ![q.id] = (owed[q.id] - Unit * q.rel) % Modulus]
    BY DEF SendReport
  <1>6. \/ view' = [view EXCEPT ![q.id] = q.abs] /\ lost' = lost \ {q.id}
        \/ view' = view /\ lost' = lost \cup {q.id}
    BY DEF SendReport
  <1>7. q.id \in Ids /\ q.abs \in SUBSET Controls
    BY <1>1 DEF Queued
  <1> HIDE DEF q
  <1>8. view' \in [Ids -> SUBSET Controls] /\ lost' \subseteq Ids
    BY <1>6, <1>7 DEF TypeOK
  <1>9. owed' \in [Ids -> 0 .. Modulus - 1]
    BY <1>4, <1>5, <1>7 DEF TypeOK
  <1>10. QED
    BY <1>1, <1>2, <1>8, <1>9 DEF TypeOK, SendReport

LEMMA ResumeType ==
  ASSUME TypeOK, Resume
  PROVE  TypeOK'
  <1>1. ASSUME NEW r \in Ids PROVE (owed[r] - accumulated[r]) % Modulus \in 0 .. Modulus - 1
    <2>1. owed[r] - accumulated[r] \in Int
      BY ModulusFacts DEF TypeOK
    <2>2. QED
      BY <2>1, ModRange, ModulusFacts
  <1>2. owed' \in [Ids -> 0 .. Modulus - 1]
    BY <1>1 DEF Resume
  <1>3. 0 \in -(Unit - 1) .. Unit - 1
    OBVIOUS
  <1>4. QED
    BY <1>2, <1>3 DEF Resume, TypeOK

LEMMA NextType == TypeOK /\ [Next]_vars => TypeOK'
  <1> SUFFICES ASSUME TypeOK, [Next]_vars PROVE TypeOK'
    OBVIOUS
  <1>1. ASSUME NEW r \in Ids, ReceiveInput(r) PROVE TypeOK'
    BY <1>1 DEF ReceiveInput, TypeOK
  <1>2. CASE Frame
    BY <1>2, FrameType DEF Frame
  <1>3. CASE QueueReport
    BY <1>3, LoopType
  <1>4. CASE SendReport
    BY <1>4, SendType
  <1>5. CASE Suspend
    BY <1>5 DEF Suspend, TypeOK
  <1>6. CASE SelectDescriptor
    BY <1>6 DEF SelectDescriptor, TypeOK
  <1>7. CASE Resume
    BY <1>7, ResumeType
  <1>8. CASE UNCHANGED vars
    BY <1>8 DEF vars, TypeOK
  <1>9. QED
    BY <1>1, <1>2, <1>3, <1>4, <1>5, <1>6, <1>7, <1>8 DEF Next

\* Every variable keeps its type; in particular the queue never holds more
\* than OR_BUFSIZE reports, every relative value fits its field and less than
\* one step of movement waits in the accumulator.
THEOREM TypeCorrect == Spec => []TypeOK
  BY InitType, NextType, PTL DEF Spec

-----------------------------------------------------------------------------
(* The host ends up with what prev_reports holds.                          *)

\* Agreement of prev_reports with the queue and the host, for one report.
Agrees(r) == IF Waits(r) = {}
             THEN r \in lost \/ prev_reports[r] = view[r]
             ELSE \A i \in Waits(r) :
                    (\A j \in Waits(r) : j <= i) => prev_reports[r] = queue[i].abs

LEMMA AgreesIsInvariant == PrevIsWhatHostWillSee <=> \A r \in Ids : Agrees(r)
  BY DEF PrevIsWhatHostWillSee, Agrees

\* Steps that touch none of the state the agreement is about.
LEMMA FrameAgrees ==
  ASSUME NEW r \in Ids, Agrees(r), UNCHANGED <<queue, prev_reports, view, lost>>
  PROVE  Agrees(r)'
  BY DEF Agrees, Waits

LEMMA EnqueueAgrees ==
  ASSUME TypeOK, NEW c \in Ids, Enqueue(c), UNCHANGED <<view, lost>>,
         NEW r \in Ids, Agrees(r)
  PROVE  Agrees(r)'
  <1> DEFINE e == [id |-> c, abs |-> reports[c].abs, rel |-> reports[c].rel]
  <1>1. e \in Queued /\ queue \in Seq(Queued) /\ Len(queue) \in Nat
    BY EntryIsQueued, LenProperties DEF TypeOK
  <1>2. queue' = Append(queue, e) /\ e.id = c
    BY DEF Enqueue
  <1>3. prev_reports' = [prev_reports EXCEPT ![c] = e.abs]
    BY DEF Enqueue
  <1> HIDE DEF e
  <1>4. /\ Len(queue') = Len(queue) + 1
        /\ queue'[Len(queue) + 1] = e
        /\ \A i \in 1 .. Len(queue) : queue'[i] = queue[i]
    BY <1>1, <1>2, AppendProperties
  <1>5. CASE r = c
    <2>1. Len(queue) + 1 \in Waits(r)'
      BY <1>1, <1>2, <1>4, <1>5 DEF Waits
    <2>2. \A j \in Waits(r)' : j \in Int /\ j <= Len(queue) + 1
      BY <1>1, <1>4 DEF Waits
    <2>3. ASSUME NEW i \in Waits(r)', \A j \in Waits(r)' : j <= i
          PROVE  i = Len(queue) + 1
      BY <1>1, <2>1, <2>2, <2>3
    <2>4. prev_reports'[r] = e.abs
      BY <1>3, <1>5 DEF TypeOK
    <2>5. QED
      BY <1>4, <2>1, <2>3, <2>4 DEF Agrees
  <1>6. CASE r # c
    <2>1. Waits(r)' = Waits(r)
      BY <1>1, <1>2, <1>4, <1>6 DEF Waits
    <2>2. prev_reports'[r] = prev_reports[r]
      BY <1>3, <1>6 DEF TypeOK
    <2>3. \A i \in Waits(r) : queue'[i] = queue[i]
      BY <1>4 DEF Waits
    <2>4. QED
      BY <2>1, <2>2, <2>3 DEF Agrees
  <1>7. QED
    BY <1>5, <1>6

LEMMA AggregateAgrees ==
  ASSUME TypeOK, NEW c \in Ids, Aggregate(c), UNCHANGED <<view, lost>>,
         NEW r \in Ids, Agrees(r)
  PROVE  Agrees(r)'
  <1>1. queue \in Seq(Queued) /\ Len(queue) \in Nat
    BY LenProperties DEF TypeOK
  <1>2. Len(queue) \in 1 .. Len(queue)
    BY <1>1, EmptySeq DEF Aggregate, CanAggregate
  <1> DEFINE e == [queue[Len(queue)] EXCEPT !.rel = Truncate(@ + reports[c].rel)]
  <1>3. queue' = [queue EXCEPT ![Len(queue)] = e]
    BY DEF Aggregate
  <1>4. queue[Len(queue)] \in Queued
    BY <1>1, <1>2, ElementOfSeq
  <1>5. e.id = queue[Len(queue)].id /\ e.abs = queue[Len(queue)].abs
    BY <1>4 DEF Queued
  <1> HIDE DEF e
  <1>6. DOMAIN queue = 1 .. Len(queue) /\ Len(queue') = Len(queue)
    BY <1>1, <1>2, <1>3, LenProperties
  <1>7. \A i \in 1 .. Len(queue) : queue'[i].id = queue[i].id /\ queue'[i].abs = queue[i].abs
    BY <1>3, <1>5, <1>6
  <1>8. Waits(r)' = Waits(r)
    BY <1>6, <1>7 DEF Waits
  <1>9. prev_reports' = prev_reports
    BY DEF Aggregate
  <1>10. \A i \in Waits(r) : queue'[i].abs = queue[i].abs
    BY <1>7 DEF Waits
  <1>11. QED
    BY <1>8, <1>9, <1>10 DEF Agrees

LEMMA SendAgrees ==
  ASSUME TypeOK, SendReport, NEW r \in Ids, Agrees(r)
  PROVE  Agrees(r)'
  <1> DEFINE q == Head(queue)
  <1>1. queue \in Seq(Queued) /\ queue # << >> /\ Len(queue) \in Nat
    BY LenProperties DEF TypeOK, SendReport
  <1>2. /\ q = queue[1] /\ q \in Queued
        /\ Len(queue') = Len(queue) - 1
        /\ \A i \in 1 .. Len(queue) - 1 : queue'[i] = queue[i + 1]
    BY <1>1, HeadTailProperties DEF SendReport
  <1>3. \/ view' = [view EXCEPT ![q.id] = q.abs] /\ lost' = lost \ {q.id}
        \/ view' = view /\ lost' = lost \cup {q.id}
    BY DEF SendReport
  <1>4. prev_reports' = prev_reports
    BY DEF SendReport
  <1>5. q.id \in Ids
    BY <1>2 DEF Queued
  <1> HIDE DEF q
  <1>6. Len(queue) >= 1
    BY <1>1, EmptySeq
  <1>7. \A i \in Int : i \in Waits(r)' <=> i >= 1 /\ i + 1 \in Waits(r)
    BY <1>1, <1>2 DEF Waits
  <1>8. Waits(r) \subseteq Int /\ Waits(r)' \subseteq Int /\ \A i \in Waits(r) : i >= 1
    BY <1>1, <1>2 DEF Waits
  <1>9. 1 \in Waits(r) <=> q.id = r
    BY <1>1, <1>2, <1>6 DEF Waits
  <1>10. CASE Waits(r)' # {}
    <2>1. PICK k \in Waits(r)' : TRUE
      BY <1>10
    <2>2. Waits(r) # {}
      BY <1>7, <1>8, <2>1
    <2>3. ASSUME NEW i \in Waits(r)', \A j \in Waits(r)' : j <= i
          PROVE  prev_reports'[r] = queue'[i].abs
      <3>1. i \in Int /\ i >= 1 /\ i + 1 \in Waits(r)
        BY <1>7, <1>8, <2>3
      <3>2. ASSUME NEW j \in Waits(r) PROVE j <= i + 1
        <4>1. CASE j = 1
          BY <3>1, <4>1
        <4>2. CASE j # 1
          <5>1. j - 1 \in Int /\ j - 1 >= 1 /\ (j - 1) + 1 = j
            BY <1>8, <4>2
          <5>2. j - 1 \in Waits(r)'
            BY <1>7, <5>1
          <5>3. j - 1 <= i
            BY <2>3, <5>2
          <5>4. QED
            BY <1>8, <3>1, <5>3
        <4>3. QED
          BY <4>1, <4>2
      <3>3. prev_reports[r] = queue[i + 1].abs
        BY <2>2, <3>1, <3>2 DEF Agrees
      <3>4. i \in 1 .. Len(queue) - 1
        BY <1>1, <1>2, <2>3 DEF Waits
      <3>5. QED
        BY <1>2, <1>4, <3>3, <3>4
    <2>4. QED
      BY <1>10, <2>3 DEF Agrees
  <1>11. CASE Waits(r)' = {}
    <2>1. ASSUME NEW j \in Waits(r) PROVE j = 1
      <3>1. SUFFICES ASSUME j # 1 PROVE FALSE
        OBVIOUS
      <3>2. j - 1 \in Int /\ j - 1 >= 1 /\ (j - 1) + 1 = j
        BY <1>8, <3>1
      <3>3. j - 1 \in Waits(r)'
        BY <1>7, <3>2
      <3>4. QED
        BY <1>11, <3>3
    <2>2. CASE q.id = r
      <3>1. 1 \in Waits(r) /\ \A j \in Waits(r) : j <= 1
        BY <1>9, <2>1, <2>2
      <3>2. prev_reports[r] = q.abs
        BY <1>2, <3>1 DEF Agrees
      <3>3. r \in lost' \/ view'[r] = q.abs
        BY <1>3, <2>2 DEF TypeOK
      <3>4. QED
        BY <1>4, <1>11, <3>2, <3>3 DEF Agrees
    <2>3. CASE q.id # r
      <3>1. Waits(r) = {}
        BY <1>9, <2>1, <2>3
      <3>2. r \in lost \/ prev_reports[r] = view[r]
        BY <3>1 DEF Agrees
      <3>3. view'[r] = view[r] /\ (r \in lost => r \in lost')
        BY <1>3, <2>3, <1>5 DEF TypeOK
      <3>4. QED
        BY <1>4, <1>11, <3>2, <3>3 DEF Agrees
    <2>4. QED
      BY <2>2, <2>3
  <1>12. QED
    BY <1>10, <1>11

LEMMA NextAgrees ==
  ASSUME TypeOK, [Next]_vars, NEW r \in Ids, Agrees(r)
  PROVE  Agrees(r)'
  <1>1. ASSUME NEW c \in Ids, ReceiveInput(c) PROVE Agrees(r)'
    BY <1>1, FrameAgrees DEF ReceiveInput
  <1>2. CASE Frame
    BY <1>2, FrameAgrees DEF Frame, BeginFrame
  <1>3. CASE QueueReport
    <2>1. Current \in Ids /\ UNCHANGED <<view, lost>>
      BY <1>3, CurrentIsId DEF QueueReport
    <2>2. CASE Skip(Current) \/ Overflow(Current)
      BY <2>1, <2>2, FrameAgrees DEF Skip, Overflow
    <2>3. CASE Aggregate(Current)
      BY <2>1, <2>3, AggregateAgrees
    <2>4. CASE Enqueue(Current)
      BY <2>1, <2>4, EnqueueAgrees
    <2>5. QED
      BY <1>3, <2>2, <2>3, <2>4 DEF QueueReport
  <1>4. CASE SendReport
    BY <1>4, SendAgrees
  <1>5. CASE Suspend \/ SelectDescriptor \/ Resume
    BY <1>5, FrameAgrees DEF Suspend, SelectDescriptor, Resume
  <1>6. CASE UNCHANGED vars
    BY <1>6, FrameAgrees DEF vars
  <1>7. QED
    BY <1>1, <1>2, <1>3, <1>4, <1>5, <1>6 DEF Next

\* What a new report is compared with is what the host has, or will have once
\* the queue has drained, for every number of reports and every queue size.
THEOREM HostConverges == Spec => []PrevIsWhatHostWillSee
  <1>1. Init => PrevIsWhatHostWillSee
    <2> SUFFICES ASSUME Init PROVE PrevIsWhatHostWillSee
      OBVIOUS
    <2>1. \A r \in Ids : prev_reports[r] = view[r] /\ Waits(r) = {}
      BY EmptySeq DEF Init, Waits
    <2>2. QED
      BY <2>1 DEF PrevIsWhatHostWillSee
  <1>2. TypeOK /\ PrevIsWhatHostWillSee /\ [Next]_vars => PrevIsWhatHostWillSee'
    <2> SUFFICES ASSUME TypeOK, PrevIsWhatHostWillSee, [Next]_vars
                 PROVE  PrevIsWhatHostWillSee'
      OBVIOUS
    <2>1. \A r \in Ids : Agrees(r)
      BY AgreesIsInvariant
    <2>2. \A r \in Ids : Agrees(r)'
      BY <2>1, NextAgrees
    <2>3. QED
      BY <2>2 DEF PrevIsWhatHostWillSee, Agrees
  <1>3. QED
    BY <1>1, <1>2, TypeCorrect, PTL DEF Spec

-----------------------------------------------------------------------------
(* Loop steps on the queue are queue operations.                           *)

\* The loop over report_ids never drops a change of an absolute control.
THEOREM LoopKeepsChanges == Spec => ChangesAreQueued
  <1> DEFINE Kept == \A r \in Ids :
       (cursor # 0 /\ r = Current /\ reports[r].abs # prev_reports[r])
         => \/ reports' = reports
            \/ /\ Len(queue') = Len(queue) + 1
               /\ queue'[Len(queue')].id = r
               /\ queue'[Len(queue')].abs = reports[r].abs
  <1>1. TypeOK /\ PrevIsWhatHostWillSee /\ [Next]_vars => [Kept]_vars
    <2> SUFFICES ASSUME TypeOK, PrevIsWhatHostWillSee, Next,
                        NEW r \in Ids, cursor # 0, r = Current,
                        reports[r].abs # prev_reports[r],
                        reports' # reports
                 PROVE  /\ Len(queue') = Len(queue) + 1
                        /\ queue'[Len(queue')].id = r
                        /\ queue'[Len(queue')].abs = reports[r].abs
      OBVIOUS
    <2>1. QueueReport
      BY DEF Next, ReceiveInput, Frame, BeginFrame, SendReport, Suspend,
             SelectDescriptor, Resume
    <2>2. ~Skip(r) /\ ~Overflow(r)
      BY DEF Skip, NeedsToBeSent, Overflow
    <2>3. queue \in Seq(Queued) /\ Len(queue) \in Nat
      BY LenProperties DEF TypeOK
    <2>4. ASSUME Aggregate(r) PROVE FALSE
      <3>1. queue[Len(queue)].id = r /\ queue[Len(queue)].abs = reports[r].abs
        BY <2>4 DEF Aggregate, CanAggregate
      <3>2. Len(queue) \in 1 .. Len(queue)
        BY <2>3, <2>4, EmptySeq DEF Aggregate, CanAggregate
      <3>3. Len(queue) \in Waits(r) /\ \A j \in Waits(r) : j <= Len(queue)
        BY <2>3, <3>1, <3>2 DEF Waits
      <3>4. prev_reports[r] = queue[Len(queue)].abs
        BY <3>3 DEF PrevIsWhatHostWillSee
      <3>5. QED
        BY <3>1, <3>4
    <2>5. Enqueue(r)
      BY <2>1, <2>2, <2>4 DEF QueueReport
    <2> DEFINE e == [id |-> r, abs |-> reports[r].abs, rel |-> reports[r].rel]
    <2>6. queue' = Append(queue, e) /\ e \in Queued /\ e.id = r /\ e.abs = reports[r].abs
      BY <2>5, EntryIsQueued DEF Enqueue
    <2> HIDE DEF e
    <2>7. QED
      BY <2>3, <2>6, AppendProperties
  <1>2. QED
    BY <1>1, TypeCorrect, HostConverges, PTL DEF Spec, ChangesAreQueued

\* A step of the pipeline pushes, amends the newest, pops, or leaves the queue.
LEMMA QueueStep == TypeOK /\ [Next]_vars => [F!Next]_queue
  <1> SUFFICES ASSUME TypeOK, [Next]_vars, queue' # queue PROVE F!Next
    OBVIOUS
  <1>1. queue \in Seq(Queued) /\ Len(queue) \in Nat /\ Len(queue) <= Capacity
    BY LenProperties DEF TypeOK
  <1>2. CASE QueueReport
    <2>1. Current \in Ids
      BY <1>2, CurrentIsId DEF QueueReport
    <2>2. CASE Enqueue(Current)
      <3> DEFINE e == [id |-> Current, abs |-> reports[Current].abs,
                       rel |-> reports[Current].rel]
      <3>1. e \in Queued
        BY <2>1, EntryIsQueued
      <3>2. queue' = Append(queue, e) /\ Len(queue) < Capacity
        BY <1>1, <2>2 DEF Enqueue
      <3> HIDE DEF e
      <3>3. QED
        BY <3>1, <3>2 DEF F!Next, F!Push
    <2>3. CASE Aggregate(Current)
      <3>1. queue # << >> /\ Len(queue) \in 1 .. Len(queue)
        BY <1>1, <2>3, EmptySeq DEF Aggregate, CanAggregate
      <3>2. queue[Len(queue)] \in Queued /\ reports[Current] \in Report
        BY <1>1, <2>1, <3>1, ElementOfSeq DEF TypeOK
      <3>3. queue[Len(queue)].rel + reports[Current].rel \in Int
        BY <3>2 DEF Queued, Report, Field
      <3> DEFINE e == [queue[Len(queue)] EXCEPT !.rel = Truncate(@ + reports[Current].rel)]
      <3>4. e \in Queued
        BY <3>2, <3>3, TruncateFits DEF Queued
      <3>5. queue' = [queue EXCEPT ![Len(queue)] = e]
        BY <2>3 DEF Aggregate
      <3> HIDE DEF e
      <3>6. QED
        BY <3>1, <3>4, <3>5 DEF F!Next, F!Amend
    <2>4. CASE Skip(Current) \/ Overflow(Current)
      BY <2>4 DEF Skip, Overflow
    <2>5. QED
      BY <1>2, <2>2, <2>3, <2>4 DEF QueueReport
  <1>3. CASE SendReport
    BY <1>3 DEF SendReport, F!Next, F!Pop
  <1>4. QED
    BY <1>2, <1>3 DEF Next, vars, ReceiveInput, Frame, BeginFrame, Suspend,
                      SelectDescriptor, Resume

\* The loop and send_report() use the queue as a bounded first-in first-out
\* queue; with RingImplementsFifo, the ring of the code serves them as one.
THEOREM QueueIsFifo == Spec => UsesFifo
  <1>1. Init => F!Init
    BY DEF Init, F!Init
  <1>2. QED
    BY <1>1, QueueStep, TypeCorrect, PTL DEF Spec, UsesFifo, F!Spec

-----------------------------------------------------------------------------
(* Sums over the queue.                                                    *)

\* Every set of numbers has a least one.
LEMMA LeastNumber ==
  ASSUME NEW T \in SUBSET Nat, T # {}
  PROVE  \E n \in T : \A m \in T : n <= m
<1> DEFINE Below == {ss \in Nat \X Nat : ss[1] < ss[2]}
<1>1. IsWellFoundedOn(Below, Nat)
  BY NatLessThanWellFounded DEF OpToRel
<1>2. \A i, j \in Nat : i < j => <<i, j>> \in Below
  OBVIOUS
<1> HIDE DEF Below
<1>3. PICK x \in T : \A y \in T : ~(<<y, x>> \in Below)
  BY <1>1, WFMin
<1>4. ASSUME NEW m \in T PROVE x <= m
  <2>1. x \in Nat /\ m \in Nat
    OBVIOUS
  <2>2. ~(m < x)
    BY <1>2, <1>3, <2>1
  <2> QED
    BY <2>1, <2>2
<1> QED
  BY <1>4

\* An integer sequence has partial sums.
LEMMA SumsExist ==
  ASSUME NEW n \in Nat, NEW x \in [1 .. n -> Int]
  PROVE  \E f \in [0 .. n -> Int] :
           f[0] = 0 /\ \A i \in 1 .. n : f[i] = f[i - 1] + x[i]
<1> DEFINE Sums(f, m) == /\ f \in [0 .. m -> Int]
                         /\ f[0] = 0
                         /\ \A i \in 1 .. m : f[i] = f[i - 1] + x[i]
           Bad == {m \in 0 .. n : ~\E f : Sums(f, m)}
<1>1. SUFFICES ASSUME n \in Bad PROVE FALSE
  OBVIOUS
<1>2. PICK m \in Bad : \A k \in Bad : m <= k
  <2>1. Bad \in SUBSET Nat
    OBVIOUS
  <2> HIDE DEF Bad
  <2> QED
    BY <1>1, <2>1, LeastNumber
<1>3. m \in 0 .. n
  OBVIOUS
<1>4. m # 0
  <2>1. Sums([i \in 0 .. 0 |-> 0], 0)
    OBVIOUS
  <2> QED
    BY <2>1
<1>5. m - 1 \in 0 .. n /\ m - 1 \notin Bad
  <2> HIDE DEF Bad
  <2> QED
    BY <1>2, <1>3, <1>4
<1>6. PICK f : Sums(f, m - 1)
  BY <1>5
<1> DEFINE g == [i \in 0 .. m |-> IF i = m THEN f[m - 1] + x[m] ELSE f[i]]
<1>7. Sums(g, m)
  <2>1. f[m - 1] \in Int /\ x[m] \in Int
    BY <1>3, <1>4, <1>6
  <2>2. g \in [0 .. m -> Int]
    BY <1>3, <1>4, <1>6, <2>1
  <2>3. g[0] = 0
    BY <1>3, <1>4, <1>6
  <2>4. ASSUME NEW i \in 1 .. m PROVE g[i] = g[i - 1] + x[i]
    <3>1. CASE i = m
      BY <1>3, <1>4, <3>1
    <3>2. CASE i # m
      BY <1>3, <1>4, <1>6, <3>2
    <3> QED
      BY <3>1, <3>2
  <2> QED
    BY <2>2, <2>3, <2>4
<1> QED
  BY <1>7

\* Functions that grow by the same steps differ by a constant.
LEMMA SameSteps ==
  ASSUME NEW n \in Nat, NEW f \in [0 .. n -> Int], NEW g \in [0 .. n -> Int],
         \A i \in 1 .. n : f[i] - f[i - 1] = g[i] - g[i - 1]
  PROVE  f[n] - f[0] = g[n] - g[0]
<1> DEFINE Bad == {m \in 0 .. n : f[m] - f[0] # g[m] - g[0]}
<1>1. SUFFICES ASSUME n \in Bad PROVE FALSE
  OBVIOUS
<1>2. PICK m \in Bad : \A k \in Bad : m <= k
  <2>1. Bad \in SUBSET Nat
    OBVIOUS
  <2> HIDE DEF Bad
  <2> QED
    BY <1>1, <2>1, LeastNumber
<1>3. m \in 0 .. n /\ f[m] - f[0] # g[m] - g[0]
  OBVIOUS
<1>4. m # 0
  BY <1>3
<1>5. m - 1 \in 0 .. n /\ m - 1 \notin Bad
  <2> HIDE DEF Bad
  <2> QED
    BY <1>2, <1>3, <1>4
<1>6. f[m - 1] - f[0] = g[m - 1] - g[0]
  BY <1>5
<1>7. f[m] - f[m - 1] = g[m] - g[m - 1]
  BY <1>3, <1>4
<1>8. f[m] \in Int /\ f[m - 1] \in Int /\ g[m] \in Int /\ g[m - 1] \in Int /\ f[0] \in Int /\ g[0] \in Int
  BY <1>3, <1>4
<1> DEFINE a == f[m]  b == f[m - 1]  c == f[0]  u == g[m]  v == g[m - 1]  w == g[0]
<1>9. /\ a \in Int /\ b \in Int /\ c \in Int /\ u \in Int /\ v \in Int /\ w \in Int
      /\ a - c # u - w /\ b - c = v - w /\ a - b = u - v
  BY <1>3, <1>6, <1>7, <1>8
<1> HIDE DEF a, b, c, u, v, w
<1> QED
  BY ONLY <1>9

\* f[i] is the movement of report r in the first i entries of q.
AddsUp(f, r, q) == /\ f \in [0 .. Len(q) -> Int]
                   /\ f[0] = 0
                   /\ \A i \in 1 .. Len(q) : f[i] = f[i - 1] + MovementOf(r, q[i])

LEMMA MovementType ==
  ASSUME NEW r, NEW e \in Queued
  PROVE  MovementOf(r, e) \in Int
BY SizesAssumption DEF MovementOf, Queued, Field

LEMMA QueuedMovementIs ==
  ASSUME NEW r, NEW q \in Seq(Queued), NEW f, AddsUp(f, r, q)
  PROVE  QueuedMovement(r, q) = f[Len(q)]
<1> DEFINE n == Len(q)
           Step(g) == [i \in 0 .. n |->
                         IF i = 0 THEN 0 ELSE g[i - 1] + MovementOf(r, q[i])]
           upto == CHOOSE g : g = Step(g)
<1>0. n \in Nat
  BY LenProperties
<1>1. f = Step(f)
  BY <1>0 DEF AddsUp
<1>2. upto = Step(upto)
  <2> HIDE DEF Step
  <2> QED
    BY <1>1
<1>3. QueuedMovement(r, q) = upto[n]
  BY DEF QueuedMovement
<1> DEFINE Bad == {m \in 0 .. n : upto[m] # f[m]}
<1>4. SUFFICES ASSUME n \in Bad PROVE FALSE
  BY <1>0, <1>3
<1> HIDE DEF upto
<1>5. PICK m \in Bad : \A k \in Bad : m <= k
  <2>1. Bad \in SUBSET Nat
    BY <1>0
  <2> HIDE DEF Bad
  <2> QED
    BY <1>4, <2>1, LeastNumber
<1>6. m \in 0 .. n /\ upto[m] # f[m]
  OBVIOUS
<1>7. upto[m] = IF m = 0 THEN 0 ELSE upto[m - 1] + MovementOf(r, q[m])
  BY <1>2, <1>6
<1>8. f[m] = IF m = 0 THEN 0 ELSE f[m - 1] + MovementOf(r, q[m])
  BY <1>1, <1>6
<1>9. m # 0
  BY <1>6, <1>7, <1>8
<1>10. m - 1 \in 0 .. n /\ m - 1 \notin Bad
  <2> HIDE DEF Bad
  <2> QED
    BY <1>0, <1>5, <1>6, <1>9
<1>11. upto[m - 1] = f[m - 1]
  BY <1>10
<1> QED
  BY <1>6, <1>7, <1>8, <1>11

LEMMA SumsOf ==
  ASSUME NEW r, NEW q \in Seq(Queued)
  PROVE  \E f : AddsUp(f, r, q)
<1> DEFINE x == [i \in 1 .. Len(q) |-> MovementOf(r, q[i])]
<1>1. Len(q) \in Nat /\ \A i \in 1 .. Len(q) : q[i] \in Queued
  BY LenProperties, ElementOfSeq
<1>2. x \in [1 .. Len(q) -> Int]
  BY <1>1, MovementType
<1>3. \A i \in 1 .. Len(q) : x[i] = MovementOf(r, q[i])
  OBVIOUS
<1> HIDE DEF x
<1>4. PICK f \in [0 .. Len(q) -> Int] :
         f[0] = 0 /\ \A i \in 1 .. Len(q) : f[i] = f[i - 1] + x[i]
  BY <1>1, <1>2, SumsExist
<1> QED
  BY <1>3, <1>4 DEF AddsUp

\* A report appended brings its own movement.
LEMMA MovementOfAppend ==
  ASSUME NEW r, NEW q \in Seq(Queued), NEW e \in Queued
  PROVE  /\ QueuedMovement(r, q) \in Int
         /\ QueuedMovement(r, Append(q, e)) = QueuedMovement(r, q) + MovementOf(r, e)
<1> DEFINE n == Len(q)
           longer == Append(q, e)
<1>1. /\ n \in Nat
      /\ longer \in Seq(Queued) /\ Len(longer) = n + 1 /\ longer[n + 1] = e
      /\ \A i \in 1 .. n : longer[i] = q[i]
  BY LenProperties, AppendProperties
<1> HIDE DEF longer
<1>2. PICK f : AddsUp(f, r, q)
  BY SumsOf
<1>3. PICK g : AddsUp(g, r, longer)
  BY <1>1, SumsOf
<1>4. f[n] = g[n]
  <2> DEFINE h == [i \in 0 .. n |-> g[i]]
  <2>1. f \in [0 .. n -> Int] /\ h \in [0 .. n -> Int] /\ f[0] = 0 /\ h[0] = 0
    BY <1>1, <1>2, <1>3 DEF AddsUp
  <2>2. \A i \in 1 .. n : f[i] - f[i - 1] = h[i] - h[i - 1]
    <3> SUFFICES ASSUME NEW i \in 1 .. n
                 PROVE  f[i] - f[i - 1] = h[i] - h[i - 1]
      OBVIOUS
    <3>0. i \in 1 .. Len(longer) /\ longer[i] = q[i]
      BY <1>1
    <3>1. /\ f[i] = f[i - 1] + MovementOf(r, q[i])
          /\ g[i] = g[i - 1] + MovementOf(r, longer[i])
      BY <1>2, <1>3, <3>0 DEF AddsUp
    <3>2. /\ f[i] \in Int /\ f[i - 1] \in Int /\ h[i] \in Int /\ h[i - 1] \in Int
          /\ h[i] = g[i] /\ h[i - 1] = g[i - 1]
      BY <1>1, <2>1
    <3>3. MovementOf(r, q[i]) \in Int
      BY ElementOfSeq, MovementType
    <3>4. f[i] - f[i - 1] = MovementOf(r, q[i])
      BY <3>1, <3>2, <3>3
    <3>5. h[i] - h[i - 1] = MovementOf(r, q[i])
      BY <3>0, <3>1, <3>2, <3>3
    <3> QED
      BY <3>4, <3>5
  <2>3. f[n] - f[0] = h[n] - h[0]
    <3> HIDE DEF h
    <3> QED
      BY <1>1, <2>1, <2>2, SameSteps
  <2>4. h[n] = g[n]
    BY <1>1
  <2>5. f[n] \in Int /\ h[n] \in Int
    BY <1>1, <2>1
  <2> QED
    BY <2>1, <2>3, <2>4, <2>5
<1>5. g[n + 1] = g[n] + MovementOf(r, e)
  BY <1>1, <1>3 DEF AddsUp
<1>6. QueuedMovement(r, q) = f[n] /\ QueuedMovement(r, longer) = g[n + 1]
  BY <1>1, <1>2, <1>3, QueuedMovementIs
<1>7. f[n] \in Int
  BY <1>1, <1>2 DEF AddsUp
<1> QED
  BY <1>4, <1>5, <1>6, <1>7 DEF longer

\* An empty queue holds none.
LEMMA MovementOfEmpty ==
  ASSUME NEW r
  PROVE  QueuedMovement(r, << >>) = 0
<1>1. << >> \in Seq(Queued) /\ Len(<< >>) = 0
  BY EmptySeq
<1>2. PICK f : AddsUp(f, r, << >>)
  BY <1>1, SumsOf
<1> QED
  BY <1>1, <1>2, QueuedMovementIs DEF AddsUp

\* A report taken off the front takes its movement with it.
LEMMA MovementOfTail ==
  ASSUME NEW r, NEW q \in Seq(Queued), q # << >>
  PROVE  QueuedMovement(r, q) = MovementOf(r, Head(q)) + QueuedMovement(r, Tail(q))
<1> DEFINE n == Len(q) - 1
           rest == Tail(q)
<1>1. /\ n \in Nat /\ Len(q) = n + 1
      /\ rest \in Seq(Queued) /\ Len(rest) = n
      /\ Head(q) = q[1] /\ q[1] \in Queued
      /\ \A i \in 1 .. n : rest[i] = q[i + 1]
  BY HeadTailProperties, LenProperties, EmptySeq
<1> HIDE DEF rest, n
<1>2. PICK f : AddsUp(f, r, q)
  BY SumsOf
<1>3. PICK g : AddsUp(g, r, rest)
  BY <1>1, SumsOf
<1> DEFINE h == [i \in 0 .. n |-> f[i + 1]]
<1>4. g \in [0 .. n -> Int] /\ h \in [0 .. n -> Int] /\ g[0] = 0 /\ h[0] = f[1]
  BY <1>1, <1>2, <1>3 DEF AddsUp
<1>5. ASSUME NEW i \in 1 .. n
      PROVE  g[i] - g[i - 1] = h[i] - h[i - 1]
  <2>1. /\ g[i] = g[i - 1] + MovementOf(r, rest[i])
        /\ f[i + 1] = f[i] + MovementOf(r, rest[i])
    <3>1. i \in 1 .. Len(rest) /\ i + 1 \in 1 .. Len(q) /\ (i + 1) - 1 = i
      BY <1>1
    <3>2. g[i] = g[i - 1] + MovementOf(r, rest[i])
      BY <1>3, <3>1 DEF AddsUp
    <3>3. f[i + 1] = f[(i + 1) - 1] + MovementOf(r, q[i + 1])
      BY <1>2, <3>1 DEF AddsUp
    <3> QED
      BY <1>1, <3>1, <3>2, <3>3
  <2>0. i \in 0 .. n /\ i - 1 \in 0 .. n /\ (i - 1) + 1 = i
    BY <1>1
  <2>2. /\ g[i] \in Int /\ g[i - 1] \in Int /\ h[i] \in Int /\ h[i - 1] \in Int
        /\ h[i] = f[i + 1] /\ h[i - 1] = f[i]
    BY <1>4, <2>0
  <2>3. MovementOf(r, rest[i]) \in Int
    BY <1>1, ElementOfSeq, MovementType
  <2> QED
    BY <2>1, <2>2, <2>3
<1>6. h[n] = f[n + 1]
  BY <1>1
<1>7. g[n] - g[0] = h[n] - h[0]
  <2> HIDE DEF h
  <2> QED
    BY <1>1, <1>4, <1>5, SameSteps
<1>8. f[1] = MovementOf(r, q[1]) /\ MovementOf(r, q[1]) \in Int
  BY <1>1, <1>2, MovementType DEF AddsUp
<1>9. QueuedMovement(r, q) = f[n + 1] /\ QueuedMovement(r, rest) = g[n]
  BY <1>1, <1>2, <1>3, QueuedMovementIs
<1>10. f[n + 1] \in Int /\ g[n] \in Int
  BY <1>1, <1>4, <1>2 DEF AddsUp
<1> HIDE DEF h
<1> QED
  BY <1>1, <1>4, <1>6, <1>7, <1>8, <1>9, <1>10 DEF rest

\* Amending the report that waits last changes the movement by what it changes
\* in that report.
LEMMA MovementOfAmended ==
  ASSUME NEW r, NEW q \in Seq(Queued), q # << >>, NEW e \in Queued
  PROVE  QueuedMovement(r, [q EXCEPT ![Len(q)] = e])
           = QueuedMovement(r, q) - MovementOf(r, q[Len(q)]) + MovementOf(r, e)
<1> DEFINE n == Len(q) - 1
           front == SubSeq(q, 1, n)
           last == q[Len(q)]
<1>1. n \in Nat /\ Len(q) = n + 1
  BY LenProperties, EmptySeq
<1>2. /\ front \in Seq(Queued) /\ Len(front) = n
      /\ \A i \in 1 .. n : front[i] = q[i]
  BY <1>1, SubSeqProperties
<1>3. last \in Queued
  BY <1>1, ElementOfSeq
<1>4. q = Append(front, last)
  BY <1>1, <1>2, <1>3, AppendProperties, SeqEqual
<1>5. [q EXCEPT ![Len(q)] = e] = Append(front, e)
  <2> DEFINE amended == [q EXCEPT ![Len(q)] = e]
  <2>1. amended \in Seq(Queued) /\ Len(amended) = n + 1
    BY <1>1, ExceptSeq
  <2>2. \A i \in 1 .. n + 1 : amended[i] = IF i = n + 1 THEN e ELSE q[i]
    BY <1>1
  <2> HIDE DEF amended
  <2> QED
    BY <1>1, <1>2, <2>1, <2>2, AppendProperties, SeqEqual DEF amended
<1>6. /\ QueuedMovement(r, q) = QueuedMovement(r, front) + MovementOf(r, last)
      /\ QueuedMovement(r, Append(front, e)) = QueuedMovement(r, front) + MovementOf(r, e)
      /\ QueuedMovement(r, front) \in Int
  <2> HIDE DEF front, last
  <2> QED
    BY <1>2, <1>3, <1>4, MovementOfAppend
<1>7. MovementOf(r, last) \in Int /\ MovementOf(r, e) \in Int
  <2> HIDE DEF last
  <2> QED
    BY <1>3, MovementType
<1>8. QueuedMovement(r, [q EXCEPT ![Len(q)] = e]) = QueuedMovement(r, Append(front, e))
  BY <1>5
<1> QED
  BY ONLY <1>6, <1>7, <1>8

LEMMA QueuedMovementType ==
  ASSUME NEW r, NEW q \in Seq(Queued)
  PROVE  QueuedMovement(r, q) \in Int
<1>1. PICK f : AddsUp(f, r, q)
  BY SumsOf
<1>2. Len(q) \in Nat
  BY LenProperties
<1> QED
  BY <1>1, <1>2, QueuedMovementIs DEF AddsUp

-----------------------------------------------------------------------------
(* Nothing of the movement is lost.                                        *)

\* A remainder differs from its number by a multiple of the divisor, and is
\* zero for the multiples only.
LEMMA Remainder ==
  ASSUME NEW N \in Nat \ {0}, NEW n \in Int
  PROVE  \E k \in Int : n % N = n - k * N
  <1>1. n % N = n - (n \div N) * N /\ n \div N \in Int
    OBVIOUS
  <1>2. QED
    BY <1>1

LEMMA MultipleHasNoRemainder ==
  ASSUME NEW N \in Nat \ {0}, NEW k \in Int
  PROVE  (k * N) % N = 0
  <1>1. k * N \in Int
    OBVIOUS
  <1>2. PICK j \in Int : (k * N) % N = k * N - j * N
    BY <1>1, Remainder
  <1>3. (k * N) % N \in 0 .. N - 1
    BY <1>1, ModRange
  <1>4. k * N - j * N = (k - j) * N
    OBVIOUS
  <1>5. k - j >= 1 => (k - j) * N >= N
    OBVIOUS
  <1>6. k - j <= -1 => (k - j) * N <= -N
    OBVIOUS
  <1>7. k - j = 0
    BY <1>2, <1>3, <1>4, <1>5, <1>6
  <1>8. QED
    BY <1>2, <1>4, <1>7

LEMMA SameRemainder ==
  ASSUME NEW N \in Nat \ {0}, NEW m \in Int, NEW n \in Int, NEW k \in Int,
         m % N = 0, n = m + k * N
  PROVE  n % N = 0
  <1>1. PICK j \in Int : m % N = m - j * N
    BY Remainder
  <1>2. n = (j + k) * N /\ j + k \in Int
    BY <1>1
  <1>3. QED
    BY <1>2, MultipleHasNoRemainder

LEMMA TruncateDrops ==
  ASSUME NEW n \in Int
  PROVE  \E k \in Int : Truncate(n) = n - k * Span
  <1>1. n + Half \in Int /\ Span \in Nat \ {0}
    BY DEF Span
  <1>2. PICK k \in Int : (n + Half) % Span = (n + Half) - k * Span
    BY <1>1, Remainder
  <1>3. k * Span \in Int
    BY <1>1
  <1>4. QED
    BY <1>2, <1>3 DEF Truncate

LEMMA MovedType ==
  ASSUME NEW moved \in Movements, NEW r \in Ids
  PROVE  moved[r] \in Int
  <1>1. moved[r] \in Moves \cup {0}
    BY DEF Movements
  <1>2. CASE moved[r] \in Moves
    BY <1>2, Zenon
  <1>3. CASE moved[r] = 0
    BY <1>3
  <1>4. QED
    BY <1>1, <1>2, <1>3

\* Of the movement of report r, what is on its way less what is owed.
Balance(r) ==
  accumulated[r] + Unit * (reports[r].rel + QueuedMovement(r, queue)) - owed[r]

LEMMA ConservedIsBalanced == MovementIsConserved <=> \A r \in Ids : Balance(r) % Modulus = 0
  BY DEF MovementIsConserved, Balance

LEMMA BalanceType ==
  ASSUME TypeOK, NEW r \in Ids
  PROVE  /\ accumulated[r] \in Int /\ reports[r].rel \in Int
         /\ QueuedMovement(r, queue) \in Int /\ owed[r] \in Int
         /\ Balance(r) \in Int
  <1>1. accumulated[r] \in Int /\ owed[r] \in Int
    BY ModulusFacts DEF TypeOK
  <1>2. reports[r].rel \in Int
    BY DEF TypeOK, Report, Field
  <1>3. QueuedMovement(r, queue) \in Int
    BY QueuedMovementType DEF TypeOK
  <1>4. Unit * (reports[r].rel + QueuedMovement(r, queue)) \in Int
    BY <1>2, <1>3
  <1>5. QED
    BY <1>1, <1>2, <1>3, <1>4 DEF Balance

\* What one step of the program may do to a balance.
LEMMA StepConserves ==
  ASSUME TypeOK, NEW r \in Ids, Balance(r) % Modulus = 0,
         NEW k \in Int, Balance(r)' = Balance(r) + k * Modulus
  PROVE  Balance(r)' % Modulus = 0
  <1>1. Balance(r) \in Int /\ Modulus \in Nat \ {0}
    BY BalanceType, ModulusFacts
  <1>2. k * Modulus \in Int
    BY <1>1
  <1>3. Balance(r)' \in Int
    BY <1>1, <1>2
  <1>4. QED
    BY <1>1, <1>3, SameRemainder

LEMMA SameBalance ==
  ASSUME TypeOK, NEW r \in Ids, Balance(r) % Modulus = 0, Balance(r)' = Balance(r)
  PROVE  Balance(r)' % Modulus = 0
  OBVIOUS

LEMMA FrameConserves ==
  ASSUME TypeOK, NEW moved \in Movements, BeginFrame(moved),
         NEW r \in Ids, Balance(r) % Modulus = 0
  PROVE  Balance(r)' % Modulus = 0
  <1> DEFINE a == accumulated[r]  m == moved[r]  b == reports[r].rel
             o == owed[r]  q == QueuedMovement(r, queue)  quot == Quotient(a + m)
  <1>1. a \in Int /\ b \in Int /\ o \in Int /\ q \in Int
    BY BalanceType
  <1>2. m \in Int
    BY MovedType
  <1>3. quot \in Int
    BY <1>1, <1>2, QuotientRemainder
  <1>4. /\ accumulated'[r] = (a + m) - Unit * quot
        /\ reports'[r].rel = Truncate(b + quot)
        /\ owed'[r] = (o + m) % Modulus
        /\ queue' = queue
    <2> DEFINE sum == [s \in Ids |-> accumulated[s] + moved[s]]
    <2>1. sum[r] = a + m
      OBVIOUS
    <2>2. /\ accumulated' = [s \in Ids |-> sum[s] - Unit * Quotient(sum[s])]
          /\ reports' = [s \in Ids |-> Overlay(s, sum[s])]
          /\ owed' = [s \in Ids |-> (owed[s] + moved[s]) % Modulus]
          /\ queue' = queue
      BY DEF BeginFrame
    <2> HIDE DEF sum
    <2>3. /\ accumulated'[r] = sum[r] - Unit * Quotient(sum[r])
          /\ reports'[r].rel = Truncate(reports[r].rel + Quotient(sum[r]))
          /\ owed'[r] = (owed[r] + moved[r]) % Modulus
      BY <2>2 DEF Overlay
    <2>4. QED
      BY <2>1, <2>2, <2>3
  <1>5. Balance(r) = a + Unit * (b + q) - o
    BY DEF Balance
  <1>6. Balance(r)' = accumulated'[r] + Unit * (reports'[r].rel + q) - owed'[r]
    BY <1>4 DEF Balance
  <1> HIDE DEF a, m, b, o, q, quot
  <1>7. PICK j \in Int : Truncate(b + quot) = (b + quot) - j * Span
    <2> DEFINE n == b + quot
    <2>1. n \in Int
      BY <1>1, <1>3
    <2> HIDE DEF n
    <2>2. \E j \in Int : Truncate(n) = n - j * Span
      BY <2>1, TruncateDrops
    <2>3. QED
      BY <2>2 DEF n
  <1>8. PICK k \in Int : (o + m) % Modulus = (o + m) - k * Modulus
    <2> DEFINE n == o + m
    <2>1. n \in Int
      BY <1>1, <1>2
    <2> HIDE DEF n
    <2>2. \E k \in Int : n % Modulus = n - k * Modulus
      BY <2>1, ModulusFacts, Remainder
    <2>3. QED
      BY <2>2 DEF n
  <1>9. Unit * (((b + quot) - j * Span) + q) = Unit * (b + q) + Unit * quot - j * Modulus
    <2>1. Span \in Int /\ Unit \in Int /\ Modulus = Unit * Span
      BY ModulusFacts DEF Modulus
    <2>2. j * Span \in Int /\ Unit * (j * Span) = j * (Unit * Span)
      BY <2>1
    <2>3. Unit * (((b + quot) - j * Span) + q)
            = Unit * (b + q) + Unit * quot - Unit * (j * Span)
      BY <1>1, <1>3, <2>1, <2>2
    <2>4. QED
      BY <2>1, <2>2, <2>3
  <1>10. /\ Unit * quot \in Int /\ Unit * (b + q) \in Int
         /\ j * Modulus \in Int /\ k * Modulus \in Int
    BY <1>1, <1>3, ModulusFacts
  <1>11. Balance(r)' = Balance(r) + (k * Modulus - j * Modulus)
    <2> DEFINE x == Unit * (b + q)  y == Unit * quot  t == j * Modulus  w == k * Modulus
    <2>1. Balance(r)' = ((a + m) - y) + ((x + y - t) - ((o + m) - w))
      BY <1>4, <1>6, <1>7, <1>8, <1>9
    <2>2. Balance(r) = a + x - o
      BY <1>5
    <2>3. x \in Int /\ y \in Int /\ t \in Int /\ w \in Int
      BY <1>10
    <2> HIDE DEF x, y, t, w
    <2>4. Balance(r)' = Balance(r) + (w - t)
      BY ONLY <1>1, <1>2, <2>1, <2>2, <2>3
    <2>5. QED
      BY <2>4 DEF w, t
  <1>12. k * Modulus - j * Modulus = (k - j) * Modulus
    BY ModulusFacts
  <1>13. QED
    BY <1>11, <1>12, StepConserves

\* Queueing the report of c, or adding it to one that waits, moves its movement
\* from the report to the queue, up to the wrap of the field.
LEMMA LoopConserves ==
  ASSUME TypeOK, QueueReport, NEW r \in Ids, Balance(r) % Modulus = 0
  PROVE  Balance(r)' % Modulus = 0
  <1> DEFINE c == Current  b == reports[r].rel  q == QueuedMovement(r, queue)
             cleared == reports' = [reports EXCEPT ![c] = Neutral]
  <1>1. c \in Ids /\ queue \in Seq(Queued)
    BY CurrentIsId DEF QueueReport, TypeOK
  <1>2. b \in Int /\ q \in Int /\ accumulated[r] \in Int /\ owed[r] \in Int
    BY BalanceType
  <1>3. accumulated' = accumulated /\ owed' = owed
    BY DEF QueueReport
  <1>4. cleared => reports'[r].rel = IF r = c THEN 0 ELSE b
    BY DEF TypeOK, Neutral
  <1>5. Balance(r) = accumulated[r] + Unit * (b + q) - owed[r]
    BY DEF Balance
  <1>6. Balance(r)' = accumulated[r] + Unit * (reports'[r].rel + QueuedMovement(r, queue')) - owed[r]
    BY <1>3 DEF Balance
  <1> HIDE DEF c
  <1>7. CASE Skip(c)
    <2>1. cleared /\ queue' = queue /\ (r = c => b = 0)
      BY <1>7 DEF Skip, ClearReport, NeedsToBeSent
    <2>2. reports'[r].rel = b
      BY <1>4, <2>1
    <2>3. QED
      BY <1>5, <1>6, <2>1, <2>2, SameBalance
  <1>8. CASE Overflow(c)
    BY <1>5, <1>6, <1>8, SameBalance DEF Overflow
  <1>9. CASE Aggregate(c)
    <2> DEFINE last == queue[Len(queue)]
               e == [last EXCEPT !.rel = Truncate(last.rel + reports[c].rel)]
    <2>1. queue # << >> /\ last.id = c /\ cleared
      BY <1>9 DEF Aggregate, CanAggregate, ClearReport
    <2>2. last \in Queued
      <3>1. Len(queue) \in 1 .. Len(queue)
        BY <1>1, <2>1, LenProperties, EmptySeq
      <3>2. QED
        BY <1>1, <3>1, ElementOfSeq
    <2>3. queue' = [queue EXCEPT ![Len(queue)] = e]
      BY <1>9 DEF Aggregate
    <2>4. last.rel \in Int /\ reports[c].rel \in Int /\ last.rel + reports[c].rel \in Int
      <3>1. reports[c] \in Report
        BY <1>1 DEF TypeOK
      <3> HIDE DEF last
      <3>2. QED
        BY <2>2, <3>1 DEF Queued, Report, Field
    <2> HIDE DEF last
    <2>5. e \in Queued /\ e.id = c /\ e.rel = Truncate(last.rel + reports[c].rel)
      BY <2>1, <2>2, <2>4, TruncateFits DEF Queued
    <2> HIDE DEF e
    <2>6. QueuedMovement(r, queue') = q - MovementOf(r, last) + MovementOf(r, e)
      BY <1>1, <2>1, <2>3, <2>5, MovementOfAmended DEF last
    <2>7. CASE r # c
      <3>1. QueuedMovement(r, queue') = q /\ reports'[r].rel = b
        BY <1>2, <1>4, <2>1, <2>5, <2>6, <2>7 DEF MovementOf
      <3>2. QED
        BY <1>5, <1>6, <3>1, SameBalance
    <2>8. CASE r = c
      <3>1. reports'[r].rel = 0 /\ b = reports[c].rel
        BY <1>4, <2>1, <2>8
      <3>2. PICK k \in Int : Truncate(last.rel + b) = (last.rel + b) - k * Span
        <4> DEFINE n == last.rel + b
        <4>1. n \in Int
          BY <2>4, <3>1
        <4> HIDE DEF n
        <4>2. \E k \in Int : Truncate(n) = n - k * Span
          BY <4>1, TruncateDrops
        <4>3. QED
          BY <4>2 DEF n
      <3>3. k * Span \in Int /\ Span \in Int
        BY ModulusFacts
      <3>4. QueuedMovement(r, queue') = q + b - k * Span
        <4>1. /\ MovementOf(r, last) = last.rel
              /\ MovementOf(r, e) = (last.rel + b) - k * Span
          BY <2>1, <2>5, <2>8, <3>1, <3>2 DEF MovementOf
        <4> DEFINE l == last.rel  t == k * Span
        <4>2. l \in Int /\ t \in Int
          BY <2>4, <3>3
        <4>3. QueuedMovement(r, queue') = q - l + ((l + b) - t)
          BY <2>6, <4>1
        <4> HIDE DEF l, t, q, b
        <4>4. q \in Int /\ b \in Int
          BY <1>2 DEF q, b
        <4>5. QueuedMovement(r, queue') = q + b - t
          BY <4>2, <4>3, <4>4
        <4>6. QED
          BY <4>5 DEF t
      <3>5. Unit * (0 + (q + b - k * Span)) = Unit * (b + q) - k * Modulus
        <4>1. Unit * (k * Span) = k * Modulus
          BY <3>3 DEF Modulus
        <4>2. Unit * (0 + (q + b - k * Span)) = Unit * (b + q) - Unit * (k * Span)
          BY <1>2, <3>3
        <4>3. QED
          BY <4>1, <4>2
      <3>6. k * Modulus \in Int /\ (-k) * Modulus = -(k * Modulus) /\ Unit * (b + q) \in Int
        BY <1>2, ModulusFacts
      <3>7. Balance(r)' = Balance(r) + (-k) * Modulus
        <4> DEFINE a == accumulated[r]  o == owed[r]  x == k * Modulus  y == Unit * (b + q)
        <4>1. a \in Int /\ o \in Int /\ x \in Int /\ y \in Int
          BY <1>2, <3>6
        <4>2. Balance(r)' = a + (y - x) - o
          BY <1>5, <1>6, <3>1, <3>4, <3>5 DEF Balance
        <4>3. Balance(r) = a + y - o
          BY DEF Balance
        <4>4. (-k) * Modulus = -x
          BY <3>6
        <4> HIDE DEF a, o, x, y, Balance
        <4>5. QED
          BY <4>1, <4>2, <4>3, <4>4
      <3>8. QED
        BY <3>7, StepConserves
    <2>9. QED
      BY <2>7, <2>8
  <1>10. CASE Enqueue(c)
    <2> DEFINE e == [id |-> c, abs |-> reports[c].abs, rel |-> reports[c].rel]
    <2>1. e \in Queued /\ e.id = c /\ e.rel = reports[c].rel
      BY <1>1, EntryIsQueued
    <2>2. queue' = Append(queue, e) /\ cleared
      BY <1>10 DEF Enqueue, ClearReport
    <2> HIDE DEF e
    <2>3. QueuedMovement(r, queue') = q + MovementOf(r, e)
      BY <1>1, <2>1, <2>2, MovementOfAppend
    <2>4. reports'[r].rel + QueuedMovement(r, queue') = b + q
      BY <1>2, <1>4, <2>1, <2>2, <2>3 DEF MovementOf
    <2>5. QED
      BY <1>5, <1>6, <2>4, SameBalance
  <1>11. QED
    BY <1>7, <1>8, <1>9, <1>10 DEF QueueReport, c

\* A report handed to the USB stack is no longer owed, whatever becomes of it.
LEMMA SendConserves ==
  ASSUME TypeOK, SendReport, NEW r \in Ids, Balance(r) % Modulus = 0
  PROVE  Balance(r)' % Modulus = 0
  <1> DEFINE h == Head(queue)  q == QueuedMovement(r, queue)  a == accumulated[r]
             b == reports[r].rel  o == owed[r]
             rest == QueuedMovement(r, Tail(queue))
  <1>1. queue \in Seq(Queued) /\ queue # << >> /\ queue' = Tail(queue)
    BY DEF SendReport, TypeOK
  <1>2. h \in Queued /\ Tail(queue) \in Seq(Queued)
    BY <1>1, HeadTailProperties
  <1>3. a \in Int /\ b \in Int /\ q \in Int /\ o \in Int
    BY BalanceType
  <1>4. rest \in Int
    BY <1>2, QueuedMovementType
  <1>5. q = MovementOf(r, h) + rest
    BY <1>1, MovementOfTail
  <1>6. Balance(r) = a + Unit * (b + q) - o
    BY DEF Balance
  <1>7. Balance(r)' = a + Unit * (b + rest) - owed'[r]
    BY <1>1 DEF Balance, SendReport
  <1>8. owed' = [owed EXCEPT ![h.id] = (owed[h.id] - Unit * h.rel) % Modulus]
    BY DEF SendReport
  <1>9. h.rel \in Int
    <2> HIDE DEF h
    <2>1. QED
      BY <1>2 DEF Queued, Field
  <1>10. CASE h.id # r
    <2>1. owed'[r] = o
      BY <1>8, <1>10 DEF TypeOK
    <2>2. q = rest
      BY <1>4, <1>5, <1>10 DEF MovementOf
    <2>3. QED
      BY <1>6, <1>7, <2>1, <2>2, SameBalance
  <1>11. CASE h.id = r
    <2>1. owed'[r] = (o - Unit * h.rel) % Modulus
      BY <1>8, <1>11 DEF TypeOK
    <2>2. q = h.rel + rest
      BY <1>5, <1>11 DEF MovementOf
    <2> HIDE DEF h, q, rest, a, b, o
    <2>3. Unit * h.rel \in Int /\ Unit * (b + rest) \in Int /\ o - Unit * h.rel \in Int
      BY <1>3, <1>4, <1>9
    <2>4. PICK k \in Int : (o - Unit * h.rel) % Modulus = o - Unit * h.rel - k * Modulus
      BY <2>3, ModulusFacts, Remainder
    <2>5. Unit * (b + q) = Unit * (b + rest) + Unit * h.rel
      BY <1>3, <1>4, <1>9, <2>2
    <2>6. k * Modulus \in Int
      BY ModulusFacts
    <2>7. Balance(r)' = Balance(r) + k * Modulus
      BY <1>3, <1>6, <1>7, <2>1, <2>3, <2>4, <2>5, <2>6
    <2>8. QED
      BY <2>7, StepConserves
  <1>12. QED
    BY <1>10, <1>11

LEMMA ResumeConserves ==
  ASSUME TypeOK, Resume, NEW r \in Ids, Balance(r) % Modulus = 0
  PROVE  Balance(r)' % Modulus = 0
  <1> DEFINE a == accumulated[r]  o == owed[r]
             u == Unit * (reports[r].rel + QueuedMovement(r, queue))
  <1>1. /\ a \in Int /\ o \in Int
        /\ reports[r].rel \in Int /\ QueuedMovement(r, queue) \in Int
    BY BalanceType
  <1>2. u \in Int
    BY <1>1
  <1>3. Balance(r) = a + u - o
    BY DEF Balance
  <1>4. Balance(r)' = 0 + u - ((o - a) % Modulus)
    BY DEF Balance, Resume
  <1> HIDE DEF a, o, u
  <1>5. PICK k \in Int : (o - a) % Modulus = (o - a) - k * Modulus
    <2> DEFINE n == o - a
    <2>1. n \in Int
      BY <1>1
    <2> HIDE DEF n
    <2>2. \E k \in Int : n % Modulus = n - k * Modulus
      BY <2>1, ModulusFacts, Remainder
    <2>3. QED
      BY <2>2 DEF n
  <1>6. k * Modulus \in Int
    BY ModulusFacts
  <1>7. Balance(r)' = Balance(r) + k * Modulus
    BY <1>1, <1>2, <1>3, <1>4, <1>5, <1>6
  <1>8. QED
    BY <1>7, StepConserves

\* No movement is lost or made up between the inputs and the host, for every
\* number of reports, field width, queue size and unit of movement.
THEOREM MovementConserved == Spec => []MovementIsConserved
  <1>1. Init => MovementIsConserved
    <2> SUFFICES ASSUME Init, NEW r \in Ids PROVE Balance(r) % Modulus = 0
      BY ConservedIsBalanced
    <2>1. QueuedMovement(r, queue) = 0
      BY MovementOfEmpty DEF Init
    <2>2. Balance(r) = 0
      BY <2>1 DEF Init, Balance, Neutral
    <2>3. QED
      BY <2>2, ModulusFacts, MultipleHasNoRemainder
  <1>2. TypeOK /\ MovementIsConserved /\ [Next]_vars => MovementIsConserved'
    <2> SUFFICES ASSUME TypeOK, MovementIsConserved, [Next]_vars, NEW r \in Ids
                 PROVE  Balance(r)' % Modulus = 0
      BY DEF MovementIsConserved, Balance
    <2>0. Balance(r) % Modulus = 0
      BY ConservedIsBalanced
    <2>1. CASE UNCHANGED <<accumulated, reports, queue, owed>>
      BY <2>0, <2>1 DEF Balance
    <2>2. CASE Frame
      BY <2>0, <2>2, FrameConserves DEF Frame
    <2>3. CASE QueueReport
      BY <2>0, <2>3, LoopConserves
    <2>4. CASE SendReport
      BY <2>0, <2>4, SendConserves
    <2>5. CASE Resume
      BY <2>0, <2>5, ResumeConserves
    <2>6. QED
      BY <2>1, <2>2, <2>3, <2>4, <2>5
      DEF Next, vars, ReceiveInput, Suspend, SelectDescriptor
  <1>3. QED
    BY <1>1, <1>2, TypeCorrect, PTL DEF Spec
-----------------------------------------------------------------------------
-----------------------------------------------------------------------------
(* The ring under the queue.                                               *)

RingFollowed == TypeOK /\ RingInv /\ RingIsTheQueue

LEMMA FollowedInitially == PathInit => RingFollowed
  <1>1. PathInit => TypeOK /\ RingInv
    BY InitType, RingInitially DEF PathInit
  <1>2. PathInit => RingIsTheQueue
    BY DEF PathInit, RingIsTheQueue, RingInit, Init, Waiting
  <1>3. QED
    BY <1>1, <1>2 DEF RingFollowed

\* A step of the composition is one of both parts, or leaves one of them alone.
LEMMA PathStep ==
  ASSUME TypeOK, [PathNext]_path
  PROVE  [Next]_vars /\ ([RingNext]_ring) /\ (RingFollows \/ UNCHANGED path)
  <1>1. [Next]_vars /\ (RingFollows \/ UNCHANGED path)
    BY DEF PathNext, path, Next
  <1>2. queue' \in Seq(Queued)
    BY <1>1, NextType DEF TypeOK
  <1>3. ASSUME Len(queue') > 0 PROVE queue'[Len(queue')] \in Entry
    BY <1>2, <1>3, PathAssumption, ElementOfSeq, LenProperties
  <1>4. ASSUME RingFollows PROVE [RingNext]_ring
    <2>1. CASE queue' = queue /\ UNCHANGED ring
      BY <2>1
    <2>2. CASE Len(queue') > Len(queue) /\ Put(queue'[Len(queue')])
      <3>1. Len(queue') > 0
        BY <1>2, <2>2, LenProperties DEF TypeOK
      <3>2. QED
        BY <1>3, <2>2, <3>1 DEF RingNext
    <2>3. CASE Len(queue') < Len(queue) /\ TakeOldest
      BY <2>3 DEF RingNext
    <2>4. CASE /\ Len(queue') = Len(queue) /\ queue' # queue
               /\ AmendNewest(queue'[Len(queue')])
      <3>1. Len(queue') > 0
        BY <1>2, <2>4, LenProperties, EmptySeq DEF TypeOK
      <3>2. QED
        BY <1>3, <2>4, <3>1 DEF RingNext
    <2>5. QED
      BY <1>4, <2>1, <2>2, <2>3, <2>4 DEF RingFollows
  <1>5. QED
    BY <1>1, <1>4 DEF path

LEMMA FollowedStep == RingFollowed /\ [PathNext]_path => RingFollowed'
  <1> SUFFICES ASSUME RingFollowed, [PathNext]_path PROVE RingFollowed'
    OBVIOUS
  <1>1. [Next]_vars /\ ([RingNext]_ring) /\ (RingFollows \/ UNCHANGED path)
    BY PathStep DEF RingFollowed
  <1>2. TypeOK' /\ RingInv'
    BY <1>1, NextType, RingStep DEF RingFollowed
  <1>3. [F!Next]_queue
    BY <1>1, QueueStep DEF RingFollowed
  <1>4. Waiting = queue /\ queue \in Seq(Queued) /\ queue' \in Seq(Queued)
    BY <1>2 DEF RingFollowed, RingIsTheQueue, TypeOK
  <1>5. Waiting' = queue'
    <2>1. CASE queue' = queue /\ UNCHANGED ring
      BY <1>4, <2>1 DEF ring, Waiting
    <2>2. CASE Len(queue') > Len(queue) /\ Put(queue'[Len(queue')])
      <3>1. PICK e \in Queued : queue' = Append(queue, e)
        BY <1>3, <1>4, <2>2, LenProperties, EmptySeq, HeadTailProperties
        DEF F!Next, F!Push, F!Amend, F!Pop
      <3>2. queue'[Len(queue')] = e
        BY <1>4, <3>1, AppendProperties
      <3>3. RingFifo!Push(e)
        BY <2>2, <3>2, EnqueuePushes, PathAssumption DEF RingFollowed
      <3>4. QED
        BY <1>4, <3>1, <3>3 DEF RingFifo!Push
    <2>3. CASE Len(queue') < Len(queue) /\ TakeOldest
      <3>1. queue' = Tail(queue)
        BY <1>3, <1>4, <2>3, LenProperties, AppendProperties
        DEF F!Next, F!Push, F!Amend, F!Pop
      <3>2. RingFifo!Pop
        BY <2>3, DequeuePops DEF RingFollowed
      <3>3. QED
        BY <1>4, <3>1, <3>2 DEF RingFifo!Pop
    <2>4. CASE /\ Len(queue') = Len(queue) /\ queue' # queue
               /\ AmendNewest(queue'[Len(queue')])
      <3>1. PICK e \in Queued : queue # << >> /\ queue' = [queue EXCEPT ![Len(queue)] = e]
        BY <1>3, <1>4, <2>4, LenProperties, AppendProperties, EmptySeq, HeadTailProperties
        DEF F!Next, F!Push, F!Amend, F!Pop
      <3>2. Len(queue) \in DOMAIN queue
        BY <1>4, <3>1, EmptySeq, LenProperties
      <3>3. queue'[Len(queue')] = e
        BY <2>4, <3>1, <3>2
      <3>4. RingFifo!Amend(e)
        BY <2>4, <3>3, AggregateAmends, PathAssumption DEF RingFollowed
      <3>5. QED
        BY <1>4, <3>1, <3>4 DEF RingFifo!Amend
    <2>5. CASE UNCHANGED path
      BY <1>4, <2>5 DEF path, vars, ring, Waiting
    <2>6. QED
      BY <1>1, <2>1, <2>2, <2>3, <2>4, <2>5 DEF RingFollows
  <1>6. QED
    BY <1>2, <1>5 DEF RingFollowed, RingIsTheQueue

\* For every size, the slots of outgoing_reports between head and tail hold the
\* reports that process_mapping() queued and amended and send_report() has not
\* taken, in that order: what is proved of the sequence is true of the array.
THEOREM RingHoldsTheQueue == PathSpec => []RingIsTheQueue
  <1>1. RingFollowed => RingIsTheQueue
    BY DEF RingFollowed
  <1>2. QED
    BY <1>1, FollowedInitially, FollowedStep, PTL DEF PathSpec

\* The composition is a behaviour of the pipeline and one of the ring, so each
\* keeps the promises proved of it alone.
THEOREM PathKeepsBoth == PathSpec => Spec /\ RingSpec
  <1>1. PathInit => Init /\ RingInit
    BY DEF PathInit
  <1>2. RingFollowed /\ [PathNext]_path => [Next]_vars /\ ([RingNext]_ring)
    BY PathStep DEF RingFollowed
  <1>3. QED
    BY <1>1, <1>2, FollowedInitially, FollowedStep, PTL DEF PathSpec, Spec, RingSpec
=============================================================================
