---------------------------- MODULE MCSerialMouse ----------------------------
(* The state of the decoder is finite; the runs differ in what the line and *)
(* the mouse do.                                                            *)
EXTENDS SerialMouse
=============================================================================
