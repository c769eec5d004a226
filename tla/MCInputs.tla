------------------------------ MODULE MCInputs ------------------------------
(***************************************************************************)
(* The state of inputs and the expressions that fetch it, one of the two   *)
(* at work in a behaviour: they share no variable, an expression takes any *)
(* value for that of an input.                                             *)
(*                                                                         *)
(* The devices: a keyboard that carries a usage both as a bit and in its   *)
(* array, with a second interface that has it as a bit, and another device *)
(* with it in an array.  There are two bits: the last one is shared when   *)
(* all three interfaces are attached.  The expressions: programs of a few  *)
(* elements on a small stack.                                              *)
(***************************************************************************)
EXTENDS InputState, Expressions, TLC

CONSTANTS keyboard, keypad, itf1, itf2, itf3, port1, port2, none, A

VARIABLE part  \* the part at work

inputs == <<part, vars, expression_state>>
-----------------------------------------------------------------------------
MCDevices == {keyboard, keypad}
MCInterfaces == {itf1, itf2, itf3}
MCDeviceOf == (itf1 :> keyboard) @@ (itf2 :> keyboard) @@ (itf3 :> keypad)
MCPorts == {port1, port2}
MCUsages == {A}
MCPlain == (itf1 :> {A}) @@ (itf2 :> {A}) @@ (itf3 :> {})
MCListed == (itf1 :> {A}) @@ (itf2 :> {}) @@ (itf3 :> {A})
MCSymmetry == Permutations({port1, port2})

\* Any two operations on a stack of any height.
Plainly(op) == [op |-> op, val |-> 0]
OnAnyHeight ==
  {[i \in 1..h |-> Plainly("PUSH")] \o ops :
     h \in 0..STACK_SIZE, ops \in {<< >>} \cup {<<Plainly(o)>> : o \in Ops}
                                  \cup {<<Plainly(o), Plainly(q)>> : o, q \in Ops}}

\* Programs written while frames run, with fetches from inputs that come and go.
Writing == {"PUSH_USAGE", "TIME", "PORT", "INPUT_STATE", "HOLD_STATE"}
-----------------------------------------------------------------------------
\* A program stays empty while the devices are at work.
InputsInit == /\ part \in {"devices", "expressions"}
              /\ Init /\ ExpressionsInit
              /\ part = "devices" => program = << >>

DevicesStep == part = "devices" /\ Next /\ UNCHANGED <<part, expression_state>>
ExpressionsStep == part = "expressions" /\ ExpressionsNext /\ UNCHANGED <<part, vars>>

InputsNext == DevicesStep \/ ExpressionsStep

InputsSpec == InputsInit /\ [][InputsNext]_inputs
=============================================================================
