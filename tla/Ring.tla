-------------------------------- MODULE Ring --------------------------------
(***************************************************************************)
(* The ring buffer that both report queues of the firmware are: the        *)
(* reports for the host (outgoing_reports, or_head, or_tail, or_items in   *)
(* remapper.cc) and the reports for the attached devices                   *)
(* (outgoing_out_reports, oor_* in out_report.cc).  Only the first amends  *)
(* its newest entry.  ReportPath has it under OutgoingReports.             *)
(***************************************************************************)
EXTENDS Integers, Sequences

CONSTANTS Entry,  \* what a slot holds
          Size,   \* OR_BUFSIZE, OOR_BUFSIZE
          Blank   \* the content of a slot never written (static storage)

ASSUME SizeAssumption == Size \in Nat \ {0}
ASSUME BlankAssumption == Blank \in Entry

VARIABLES slots, head, tail, items
ring == <<slots, head, tail, items>>

Index == 0 .. Size - 1

RingInit == /\ slots = [i \in Index |-> Blank]
            /\ head = 0 /\ tail = 0 /\ items = 0

\* A full ring refuses the new entry ("overflow!").
Put(e) == /\ items # Size
          /\ slots' = [slots EXCEPT ![tail] = e]
          /\ tail' = (tail + 1) % Size
          /\ items' = items + 1
          /\ UNCHANGED head

\* The index of the entry written last.
Newest == (tail + Size - 1) % Size

AmendNewest(e) == /\ items > 0
                  /\ slots' = [slots EXCEPT ![Newest] = e]
                  /\ UNCHANGED <<head, tail, items>>

\* Mutant: the count goes down, the read position stays.
TakeWithoutAdvance == /\ items > 0
                      /\ items' = items - 1
                      /\ UNCHANGED <<slots, head, tail>>

TakeOldest == /\ items > 0
              /\ head' = (head + 1) % Size
              /\ items' = items - 1
              /\ UNCHANGED <<slots, tail>>

RingNext == \/ \E e \in Entry : Put(e) \/ AmendNewest(e)
            \/ TakeOldest

RingSpec == RingInit /\ [][RingNext]_ring
-----------------------------------------------------------------------------
RingTypeOK == /\ slots \in [Index -> Entry]
              /\ head \in Index
              /\ tail \in Index
              /\ items \in 0 .. Size

\* The three counters are redundant, and remapper.cc and out_report.cc update
\* them separately: the write position is the read position plus the count.
CountersAgree == tail = (head + items) % Size

\* The waiting entries, oldest first.
Waiting == [i \in 1 .. items |-> slots[(head + i - 1) % Size]]

RingFifo == INSTANCE Fifo WITH queue <- Waiting, Capacity <- Size

\* The ring hands reports on in the order they were queued, each once and
\* whole, however often the indices wrap: it is a first-in first-out queue.
ImplementsFifo == RingFifo!Spec
=============================================================================
