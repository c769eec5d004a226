------------------------- MODULE MCOutgoingReports -------------------------
(* Two reports: a keyboard and a mouse with one button and one axis; a      *)
(* queue of two.                                                            *)
EXTENDS ReportPath
CONSTANTS keyboard, mouse, button
MCReportIds == <<mouse, keyboard>>
MCRelative == {mouse}
MCControls == {button}
MCMoves == {-3}
MCEntry == Queued
MCBlank == [id |-> keyboard, abs |-> {}, rel |-> 0]
=============================================================================
