--------------------------- MODULE OutgoingReports ---------------------------
(***************************************************************************)
(* From the mapped inputs to the reports the host receives: the second     *)
(* half of process_mapping() and send_report() in remapper.cc, with the    *)
(* SUSPEND and RESUME commands (config.cc) and the main loop's part in     *)
(* them (main.cc).                                                         *)
(*                                                                         *)
(* A report has an absolute part, the set of its controls that are on, and *)
(* a relative field, a signed number of Span values.  Movement accumulates *)
(* in fractions: Unit of them make one step of the field (1000 in the      *)
(* code).  The descriptor-specific hooks (sanitize_report, clear_report)   *)
(* are left out, and neutral is the empty report.  Its queue is a           *)
(* sequence here; ReportPath has the array and counters of the code.       *)
(***************************************************************************)
EXTENDS Integers, Sequences

CONSTANTS ReportIds,  \* the sequence report_ids: the order of the send loop
          Relative,   \* the ids of the reports with a relative field
          Controls,   \* the absolute controls of a report
          Moves,      \* the movements one input can add, in fractions
          Unit,       \* fractions per step of a relative field
          Half,       \* the field holds -Half .. Half - 1
          Capacity    \* OR_BUFSIZE

Ids == {ReportIds[i] : i \in 1 .. Len(ReportIds)}

ASSUME ReportIdsAssumption ==
  /\ ReportIds \in Seq(Ids) /\ ReportIds # << >>
  /\ \A i, j \in 1 .. Len(ReportIds) : ReportIds[i] = ReportIds[j] => i = j
ASSUME SizesAssumption ==
  /\ Unit \in Nat \ {0} /\ Half \in Nat \ {0} /\ Capacity \in Nat \ {0}
ASSUME MovesAssumption == Moves \subseteq Int /\ Relative \subseteq Ids

VARIABLES
  mapped,       \* id -> the controls the current input and mapping turn on
  accumulated,  \* id -> movement not yet put into a report
  reports,      \* id -> the report under construction
  prev_reports, \* id -> absolute part of the last report queued
  queue,        \* outgoing_reports, oldest first
  cursor,       \* position in the loop over report_ids, 0 outside of it
  suspended,    \* the configuration tool asked for silence
  described,    \* our_descriptor is the one our_descriptor_number selects
  view,         \* id -> absolute part of the last report the host got
  lost,         \* history: ids whose newest report the host did not get
  owed          \* history: movement taken in and not yet handed over, modulo

vars == <<mapped, accumulated, reports, prev_reports, queue, cursor,
          suspended, described, view, lost, owed>>

Span == 2 * Half
Field == -Half .. Half - 1
Report == [abs : SUBSET Controls, rel : Field]
Queued == [id : Ids, abs : SUBSET Controls, rel : Field]
Neutral == [abs |-> {}, rel |-> 0]

\* put_bits() and the sign extension after get_bits(): what remains of a
\* number in a signed field.
Truncate(n) == ((n + Half) % Span) - Half

\* C's division rounds towards zero.
Quotient(n) == IF n >= 0 THEN n \div Unit ELSE -((-n) \div Unit)

Modulus == Unit * Span
-----------------------------------------------------------------------------
Init == /\ mapped = [r \in Ids |-> {}]
        /\ accumulated = [r \in Ids |-> 0]
        /\ reports = [r \in Ids |-> Neutral]
        /\ prev_reports = [r \in Ids |-> {}]
        /\ queue = << >>
        /\ cursor = 0
        /\ suspended = FALSE
        /\ described = TRUE
        /\ view = [r \in Ids |-> {}]
        /\ lost = {}
        /\ owed = [r \in Ids |-> 0]

\* A report from an attached device changes what is mapped to report r.
ReceiveInput(r) ==
  /\ cursor = 0
  /\ \E c \in SUBSET Controls : mapped' = [mapped EXCEPT ![r] = c]
  /\ UNCHANGED <<accumulated, reports, prev_reports, queue, cursor, suspended,
                 described, view, lost, owed>>

\* Only controls that are on are written: put_bits() never turns one off, so
\* what an earlier frame left in the report stays.
Overlay(r, sum) == [abs |-> reports[r].abs \cup mapped[r],
                    rel |-> Truncate(reports[r].rel + Quotient(sum))]

\* moved: the movement received since the last frame.
BeginFrame(moved) ==
  LET sum == [r \in Ids |-> accumulated[r] + moved[r]] IN
  /\ cursor = 0 /\ ~suspended
  /\ reports' = [r \in Ids |-> Overlay(r, sum[r])]
  /\ accumulated' = [r \in Ids |-> sum[r] - Unit * Quotient(sum[r])]
  /\ owed' = [r \in Ids |-> (owed[r] + moved[r]) % Modulus]
  /\ cursor' = 1
  /\ UNCHANGED <<mapped, prev_reports, queue, suspended, described, view, lost>>

Movements == {m \in [Ids -> Moves \cup {0}] : \A r \in Ids \ Relative : m[r] = 0}

Frame == \E m \in Movements : BeginFrame(m)
-----------------------------------------------------------------------------
(* The loop over report_ids.                                               *)

Current == ReportIds[cursor]

NeedsToBeSent(r) == \/ reports[r].rel # 0
                    \/ reports[r].abs # prev_reports[r]

\* Mutant: the absolute controls are not compared.
CanAggregateAnyState(r) == /\ queue # << >>
                           /\ queue[Len(queue)].id = r

\* The report waiting last is of the same kind and equal on absolute controls.
CanAggregate(r) == /\ queue # << >>
                   /\ queue[Len(queue)].id = r
                   /\ queue[Len(queue)].abs = reports[r].abs

Advance == cursor' = IF cursor = Len(ReportIds) THEN 0 ELSE cursor + 1

ClearReport(r) == reports' = [reports EXCEPT ![r] = Neutral]

Skip(r) == /\ ~NeedsToBeSent(r)
           /\ ClearReport(r) /\ Advance
           /\ UNCHANGED <<prev_reports, queue>>

\* Mutant: the reports of an overflowing frame are cleared like the others.
OverflowAndClear(r) == /\ NeedsToBeSent(r)
                       /\ Len(queue) = Capacity
                       /\ cursor' = 0
                       /\ ClearReport(r)
                       /\ UNCHANGED <<prev_reports, queue>>

\* "overflow!": the loop ends here; this report and the ones behind it keep
\* what they hold and are tried again by the next frame.
Overflow(r) == /\ NeedsToBeSent(r)
               /\ Len(queue) = Capacity
               /\ cursor' = 0
               /\ UNCHANGED <<reports, prev_reports, queue>>

\* Mutant: the newer movement replaces the waiting one.
AggregateByReplacing(r) ==
  /\ NeedsToBeSent(r) /\ Len(queue) # Capacity /\ CanAggregate(r)
  /\ queue' = [queue EXCEPT ![Len(queue)].rel = reports[r].rel]
  /\ ClearReport(r) /\ Advance
  /\ UNCHANGED prev_reports

Aggregate(r) ==
  /\ NeedsToBeSent(r) /\ Len(queue) # Capacity /\ CanAggregate(r)
  /\ queue' = [queue EXCEPT ![Len(queue)].rel = Truncate(@ + reports[r].rel)]
  /\ ClearReport(r) /\ Advance
  /\ UNCHANGED prev_reports

\* Mutant: what was queued is not remembered.
EnqueueForgetting(r) ==
  /\ NeedsToBeSent(r) /\ Len(queue) # Capacity /\ ~CanAggregate(r)
  /\ queue' = Append(queue, [id |-> r, abs |-> reports[r].abs, rel |-> reports[r].rel])
  /\ ClearReport(r) /\ Advance
  /\ UNCHANGED prev_reports

Enqueue(r) ==
  /\ NeedsToBeSent(r) /\ Len(queue) # Capacity /\ ~CanAggregate(r)
  /\ queue' = Append(queue, [id |-> r, abs |-> reports[r].abs, rel |-> reports[r].rel])
  /\ prev_reports' = [prev_reports EXCEPT ![r] = reports[r].abs]
  /\ ClearReport(r) /\ Advance

QueueReport ==
  /\ cursor # 0
  /\ \/ Skip(Current) \/ Overflow(Current)
     \/ Aggregate(Current) \/ Enqueue(Current)
  /\ UNCHANGED <<mapped, accumulated, suspended, described,
                 view, lost, owed>>
-----------------------------------------------------------------------------
(* Towards the host.                                                       *)

\* send_report() takes the oldest report off the queue whatever becomes of it.
\* It is not handed over while the enumerated descriptor is not the selected
\* one; and on a bus the host has suspended, which it may do at any time, it
\* wakes the host instead of reaching it, or the USB stack does not take it.
SendReport ==
  /\ cursor = 0 /\ ~suspended /\ queue # << >>
  /\ queue' = Tail(queue)
  /\ LET q == Head(queue) IN
       /\ owed' = [owed EXCEPT ![q.id] = (@ - Unit * q.rel) % Modulus]
       /\ \/ /\ described
             /\ view' = [view EXCEPT ![q.id] = q.abs]
             /\ lost' = lost \ {q.id}
          \/ /\ lost' = lost \cup {q.id}
             /\ UNCHANGED view
  /\ UNCHANGED <<mapped, accumulated, reports, prev_reports, cursor, suspended,
                 described>>

-----------------------------------------------------------------------------
(* Commands of the configuration tool.                                     *)

Suspend == /\ cursor = 0 /\ suspended' = TRUE
           /\ UNCHANGED <<mapped, accumulated, reports, prev_reports,
                          queue, cursor, described, view, lost, owed>>

\* SET_CONFIG can select another emulated device; the descriptor in use only
\* changes at the next start.
SelectDescriptor ==
  /\ cursor = 0
  /\ described' \in BOOLEAN
  /\ UNCHANGED <<mapped, accumulated, reports, prev_reports, queue,
                 cursor, suspended, view, lost, owed>>

\* RESUME: reset_state(), and in the same turn of the main loop the end of the
\* silence and set_mapping_from_config(), which forgets all input.
Resume == /\ cursor = 0
          /\ suspended' = FALSE
          /\ accumulated' = [r \in Ids |-> 0]
          /\ owed' = [r \in Ids |-> (owed[r] - accumulated[r]) % Modulus]
          /\ mapped' = [r \in Ids |-> {}]
          /\ UNCHANGED <<reports, prev_reports, queue, cursor, described,
                         view, lost>>

Next == \/ \E r \in Ids : ReceiveInput(r)
        \/ Frame \/ QueueReport \/ SendReport
        \/ Suspend \/ SelectDescriptor \/ Resume

Spec == Init /\ [][Next]_vars

\* Frames keep coming and their loop ends; the host polls again and again,
\* each time with the main loop between two frames.
Fairness == WF_vars(Frame) /\ WF_vars(QueueReport) /\ SF_vars(SendReport)

FairSpec == Spec /\ Fairness
-----------------------------------------------------------------------------
(* Properties.                                                             *)

TypeOK == /\ mapped \in [Ids -> SUBSET Controls]
          /\ accumulated \in [Ids -> -(Unit - 1) .. Unit - 1]
          /\ reports \in [Ids -> Report]
          /\ prev_reports \in [Ids -> SUBSET Controls]
          /\ queue \in Seq(Queued) /\ Len(queue) <= Capacity
          /\ cursor \in 0 .. Len(ReportIds)
          /\ suspended \in BOOLEAN /\ described \in BOOLEAN
          /\ view \in [Ids -> SUBSET Controls]
          /\ lost \subseteq Ids
          /\ owed \in [Ids -> 0 .. Modulus - 1]

Waits(r) == {i \in 1 .. Len(queue) : queue[i].id = r}

\* prev_reports, the only thing a new report is compared with, is what the
\* host has or will have seen of report r once the queue has drained: the
\* absolute part of the last one waiting or, when none waits, of the last one
\* delivered, unless the USB side lost that one.  Were it to drift from that, a
\* key would stay pressed on the host or a press would never get there.
PrevIsWhatHostWillSee ==
  \A r \in Ids :
    IF Waits(r) = {}
    THEN r \in lost \/ prev_reports[r] = view[r]
    ELSE \A i \in Waits(r) :
           (\A j \in Waits(r) : j <= i) => prev_reports[r] = queue[i].abs

MovementOf(r, entry) == IF entry.id = r THEN entry.rel ELSE 0

QueuedMovement(r, q) ==
  LET upto[i \in 0 .. Len(q)] ==
        IF i = 0 THEN 0 ELSE upto[i - 1] + MovementOf(r, q[i])
  IN upto[Len(q)]

\* Movement is neither lost nor made up on the way from the inputs to the
\* host, through rounding, aggregation and overflow: what was taken in and is
\* not yet handed over is in the accumulator, in the report under construction
\* or in the queue, exactly, up to the wrap of the field.
MovementIsConserved ==
  \A r \in Ids :
    (accumulated[r] + Unit * (reports[r].rel + QueuedMovement(r, queue)) - owed[r])
      % Modulus = 0

\* The loop never drops a change of a report's absolute part: the report it
\* passes stays as it is or has just been put into the queue.
ChangesAreQueued ==
  [][\A r \in Ids :
       (cursor # 0 /\ r = Current /\ reports[r].abs # prev_reports[r])
         => \/ reports' = reports
            \/ /\ Len(queue') = Len(queue) + 1
               /\ queue'[Len(queue')].id = r
               /\ queue'[Len(queue')].abs = reports[r].abs]_vars

\* The loop uses the queue as a bounded first-in first-out queue whose newest
\* entry may be amended.
F == INSTANCE Fifo WITH Entry <- Queued
UsesFifo == F!Spec

\* A press that reaches the first report of the loop is seen by the host, even
\* if it is released while the queue is full: the loop cannot starve it.
First == ReportIds[1]
PressReachesHost ==
  \A c \in Controls :
    (cursor = 1 /\ c \in reports[First].abs)
      ~> (c \in view[First] \/ First \in lost \/ suspended)

\* When the controls stop changing, the host ends up with their state for every
\* report, however much movement keeps coming, unless the USB side lost the
\* last report.
HostCatchesUp ==
  (<>[](~suspended) /\ <>[][mapped' = mapped]_vars)
    => <>[](\A r \in Ids : view[r] = mapped[r] \/ r \in lost)
=============================================================================
