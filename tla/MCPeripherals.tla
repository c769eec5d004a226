--------------------------- MODULE MCPeripherals ---------------------------
(***************************************************************************)
(* Four parts of the firmware around its core, one of them at work in a    *)
(* behaviour: the pins, macros on their way to the host, the link between  *)
(* the chips of the dual variant, and the decoder for serial mice.  They   *)
(* share no state.  Any byte to the decoder can get lost, and its packets  *)
(* have a fourth byte.                                                     *)
(***************************************************************************)
EXTENDS Gpio, SerialMouse, Macros, DualLink

CONSTANTS key1, key2,  \* keys of macros
          x            \* a byte that is not escaped

VARIABLE part          \* the part at work

peripherals == <<part, vars, macros, link, serial>>
-----------------------------------------------------------------------------
\* A macro of one entry, and one with two equal entries and one without keys.
MCMacroKeys == {key1, key2}
MCMacroList == << <<{key1}>>, <<{key2}, {key2}, {}>> >>

\* One byte of data and one of checksum in a message.  A sends what has to arrive, B what
\* may be dropped; a message of either has a byte to escape.
MCBytes == {x, END, ESC, ESC_END, ESC_ESC}
MCMessages == [A |-> {<<x, END>>}, B |-> {<<ESC, x>>}]
MCDroppable == MCMessages.B
-----------------------------------------------------------------------------
PeripheralsInit ==
  /\ part \in {"pins", "macros", "link", "serial"}
  /\ Init /\ MacrosInit /\ LinkInit /\ SerialInit
  /\ part # "pins" => mode = 0 /\ outside = [p \in Pins |-> FALSE]

\* A step of one part leaves the others as they are.

PinsStep == part = "pins" /\ Next /\ UNCHANGED <<part, macros, link, serial>>
OfMacros(step) == part = "macros" /\ step /\ UNCHANGED <<part, vars, link, serial>>
LinkStep == part = "link" /\ LinkNext /\ UNCHANGED <<part, vars, macros, serial>>
SerialStep == part = "serial" /\ SerialNext /\ UNCHANGED <<part, vars, macros, link>>

PeripheralsNext == PinsStep \/ OfMacros(MacrosNext) \/ LinkStep \/ SerialStep

PeripheralsSpec == /\ PeripheralsInit /\ [][PeripheralsNext]_peripherals
                   /\ WF_peripherals(OfMacros(Frame))
                   /\ SF_peripherals(OfMacros(SendReport))
=============================================================================
