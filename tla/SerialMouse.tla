----------------------------- MODULE SerialMouse -----------------------------
(***************************************************************************)
(* The decoder for serial mice (remapper_serial.cc): packets of three      *)
(* bytes, of which the first has a bit of its own to be known by, and a    *)
(* middle button that is only told by a packet that tells nothing else.    *)
(*                                                                         *)
(* Of a byte the model has the bit 0x40 (sync), the two below it, which    *)
(* are the buttons in a first byte, and whether any of the other four is   *)
(* set.  Movement is no movement or some.                                  *)
(***************************************************************************)
EXTENDS Integers, Sequences

CONSTANTS Lossy,    \* bytes can get lost on the line
          Trailing  \* the mouse sends a fourth byte behind each packet

ASSUME LineAssumption == Lossy \in BOOLEAN /\ Trailing \in BOOLEAN

Buttons == [left : BOOLEAN, right : BOOLEAN, middle : BOOLEAN]

VARIABLES
  mouse,     \* the buttons of the mouse, as of its last packet
  moved,     \* whether that packet tells of movement
  packet,    \* the bytes of it on their way
  whole,     \* history: none of them got lost
  byte_number, new_left, new_right,
  delta,     \* dx or dy is not zero
  left, right, middle,
  report,    \* the last report handed on
  synced     \* history: the first byte used for it had the bit

decoder == <<byte_number, new_left, new_right, delta, left, right, middle,
             report, synced>>
serial == <<mouse, moved, packet, whole, decoder>>

\* The value -1 in a variable of type uint8_t.
None == 255
Released == [left |-> FALSE, right |-> FALSE, middle |-> FALSE]

SerialInit == /\ mouse = Released /\ moved = FALSE /\ packet = << >> /\ whole = TRUE
              /\ byte_number = None /\ new_left = FALSE /\ new_right = FALSE
              /\ delta = FALSE
              /\ left = FALSE /\ right = FALSE /\ middle = FALSE
              /\ report = [buttons |-> Released, moved |-> FALSE]
              /\ synced = TRUE
-----------------------------------------------------------------------------
Data(set) == [sync |-> FALSE, left |-> FALSE, right |-> FALSE, low |-> set]

\* The mouse sends a packet because it has moved or a button has changed; the
\* middle button changes alone.
MouseReports ==
  /\ packet = << >>
  /\ \E now \in Buttons, low, x, y \in BOOLEAN :
       /\ now # mouse \/ low \/ x \/ y
       /\ now.middle # mouse.middle =>
            now.left = mouse.left /\ now.right = mouse.right /\ ~low /\ ~x /\ ~y
       /\ mouse' = now
       /\ moved' = (low \/ x \/ y)
       /\ packet' = <<[sync |-> TRUE, left |-> now.left, right |-> now.right,
                       low |-> low], Data(x), Data(y)>>
                    \o IF Trailing THEN <<Data(FALSE)>> ELSE << >>
  /\ whole' = TRUE
  /\ UNCHANGED decoder

Lose == /\ Lossy /\ packet # << >>
        /\ packet' = Tail(packet) /\ whole' = FALSE
        /\ UNCHANGED <<mouse, moved, decoder>>

\* Mutant: a first byte that comes early is counted like any other.
NumberCounted(c) == IF c.sync /\ byte_number \notin {0, 1} THEN 0
                    ELSE (byte_number + 1) % 256

\* What byte_number becomes: the test for a packet under way, byte_number >= 0,
\* is always true of its type.
Number(c) == IF c.sync THEN 0 ELSE (byte_number + 1) % 256

\* "no movement and no change in left/right buttons means that middle button
\* was pressed or released"
MiddleChanges(c) ==
  left = new_left /\ right = new_right /\ ~(delta \/ c.left \/ c.right \/ c.low)

FirstByte(c) ==
  /\ Number(c) = 0
  /\ byte_number' = 0
  /\ new_left' = c.left /\ new_right' = c.right /\ delta' = c.low
  /\ synced' = c.sync
  /\ UNCHANGED <<left, right, middle, report>>

SecondByte(c) ==
  /\ Number(c) = 1
  /\ byte_number' = 1
  /\ delta' = (delta \/ c.left \/ c.right \/ c.low)
  /\ UNCHANGED <<new_left, new_right, left, right, middle, report, synced>>

ThirdByte(c) ==
  /\ Number(c) = 2
  /\ byte_number' = None
  /\ delta' = (delta \/ c.left \/ c.right \/ c.low)
  /\ middle' = (middle # MiddleChanges(c))
  /\ left' = new_left /\ right' = new_right
  /\ report' = [buttons |-> [left |-> left', right |-> right', middle |-> middle'],
                moved |-> delta']
  /\ UNCHANGED <<new_left, new_right, synced>>

ReadReport ==
  /\ packet # << >>
  /\ packet' = Tail(packet)
  /\ LET c == Head(packet) IN FirstByte(c) \/ SecondByte(c) \/ ThirdByte(c)
  /\ UNCHANGED <<mouse, moved, whole>>

SerialNext == MouseReports \/ Lose \/ ReadReport

SerialSpec == SerialInit /\ [][SerialNext]_serial
-----------------------------------------------------------------------------
(* Properties.                                                             *)

\* Whatever got lost before, a packet that arrives whole tells the state of the
\* left and the right button and whether there was movement.  (The middle
\* button has no such repair: a lost packet leaves it the wrong way round.)
WholePacketsAreUnderstood ==
  (packet = << >> /\ whole) =>
    /\ report.buttons.left = mouse.left /\ report.buttons.right = mouse.right
    /\ report.moved = moved

\* Bytes outside of a packet are ignored: that is what the first value of
\* byte_number and the test for byte_number >= 0 are there for.  A report is
\* then only made of bytes that begin with a first byte.
ReportsStartWithFirstByte == [][report' # report => synced]_serial
=============================================================================
