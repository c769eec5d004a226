----------------------------- MODULE ReportPath -----------------------------
(***************************************************************************)
(* The report path as the firmware has it: process_mapping() and           *)
(* send_report() work on the array outgoing_reports and its counters.      *)
(* OutgoingReports says which report is queued, amended or taken; here     *)
(* each of its steps does the same to the slots and counters of Ring.      *)
(***************************************************************************)
EXTENDS OutgoingReports, Ring

\* outgoing_reports has OR_BUFSIZE slots for reports with their ids.
ASSUME PathAssumption == Entry = Queued /\ Size = Capacity

path == <<vars, ring>>

\* What happens to the ring when the queue changes.
RingFollows ==
  \/ queue' = queue /\ UNCHANGED ring
  \/ Len(queue') > Len(queue) /\ Put(queue'[Len(queue')])
  \/ Len(queue') < Len(queue) /\ TakeOldest
  \/ Len(queue') = Len(queue) /\ queue' # queue /\ AmendNewest(queue'[Len(queue')])

PathInit == Init /\ RingInit

PathNext ==
  \/ (\E r \in Ids : ReceiveInput(r)) /\ RingFollows
  \/ Frame /\ RingFollows
  \/ QueueReport /\ RingFollows
  \/ SendReport /\ RingFollows
  \/ (Suspend \/ SelectDescriptor \/ Resume) /\ RingFollows

PathSpec == PathInit /\ [][PathNext]_path

FairPathSpec == PathSpec /\ Fairness
-----------------------------------------------------------------------------
\* What waits in the slots from head on is what the sequence of OutgoingReports
\* holds: counters and slots, updated one by one, never drift from it.
RingIsTheQueue == Waiting = queue
=============================================================================
