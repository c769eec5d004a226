-------------------------------- MODULE Gpio --------------------------------
(***************************************************************************)
(* The pins of the board as inputs and outputs (main.cc): read_gpio() with *)
(* its debouncing, write_gpio(), and the directions of the pins, which     *)
(* follow from the mappings and change with them.                          *)
(*                                                                         *)
(* A level is TRUE when it is high; inputs are pulled up, and a switch     *)
(* that is closed makes its pin low.  The time since a pin was last taken  *)
(* to have changed counts up to the debounce time and no further: later is *)
(* all the same to the code.                                               *)
(***************************************************************************)
EXTENDS Integers

CONSTANTS Pins,     \* gpio_valid_pins_mask
          Debounce  \* gpio_debounce_time, in units of the model's time

ASSUME DebounceAssumption == Debounce \in Nat

VARIABLES
  outside,    \* pin -> the level its circuit gives it when it is an input
  out,        \* the pins whose direction is out
  put,        \* pin -> the level it is driven with when it is an output
  inputs,     \* pins the mappings in force read
  outputs,    \* pins the mappings in force write
  mode,       \* gpio_output_mode: 1 is open drain
  prev,       \* pin -> prev_gpio_state
  age,        \* pin -> time since last_gpio_change
  state,      \* pin -> the input state of its usage
  heard,      \* history: pins whose state was set since all input was forgotten
  suspended,  \* the configuration tool asked for silence
  pending,    \* set_gpio_dir_pending
  steady      \* history: pin -> time since the level to be read changed

vars == <<outside, out, put, inputs, outputs, mode, prev, age, state, heard,
          suspended, pending, steady>>

\* set_gpio_inout_masks(): "if some pin appears as both input and output,
\* input wins"; "we treat all pins except the output ones as input".
OutMask == outputs \ inputs
InMask == Pins \ OutMask

Sampled(p) == p \in InMask /\ IF p \in out THEN put[p] ELSE outside[p]

Init == /\ outside \in [Pins -> BOOLEAN]
        /\ out = {} /\ put = [p \in Pins |-> FALSE]
        /\ inputs = {} /\ outputs = {} /\ mode \in {0, 1}
        /\ prev = [p \in Pins |-> FALSE]
        /\ age = [p \in Pins |-> 0] /\ steady = [p \in Pins |-> 0]
        /\ state = [p \in Pins |-> 0] /\ heard = {}
        /\ suspended = FALSE /\ pending = FALSE

Later(t) == IF t < Debounce THEN t + 1 ELSE t

\* What the change of another variable does to the time a level has lasted.
Timed == steady' = [p \in Pins |-> IF Sampled(p)' = Sampled(p) THEN steady[p] ELSE 0]
-----------------------------------------------------------------------------
(* Around the program.                                                     *)

Switch(p) == /\ outside' = [outside EXCEPT ![p] = ~@]
             /\ UNCHANGED <<out, put, inputs, outputs, mode, prev, age, state,
                            heard, suspended, pending>>
             /\ Timed

TimePasses == /\ age' = [p \in Pins |-> Later(age[p])]
              /\ steady' = [p \in Pins |-> Later(steady[p])]
              /\ UNCHANGED <<outside, out, put, inputs, outputs, mode, prev,
                             state, heard, suspended, pending>>
-----------------------------------------------------------------------------
(* A tick.                                                                 *)

Accepted == {p \in Pins : prev[p] # Sampled(p) /\ age[p] >= Debounce}

\* Mutant: an ignored change restarts the window.
ReadGpioRestarting ==
  /\ prev' = [p \in Pins |-> IF p \in Accepted THEN Sampled(p) ELSE prev[p]]
  /\ age' = [p \in Pins |-> IF prev[p] # Sampled(p) THEN 0 ELSE age[p]]
  /\ state' = [p \in Pins |-> IF p \in Accepted \cap inputs
                              THEN IF Sampled(p) THEN 0 ELSE 1 ELSE state[p]]
  /\ heard' = heard \cup (Accepted \cap inputs)

\* A change within the debounce time of the last one is ignored, and stays to
\* be seen by a later tick.  Only a mapped usage has a state to set.
ReadGpio ==
  /\ prev' = [p \in Pins |-> IF p \in Accepted THEN Sampled(p) ELSE prev[p]]
  /\ age' = [p \in Pins |-> IF p \in Accepted THEN 0 ELSE age[p]]
  /\ state' = [p \in Pins |-> IF p \in Accepted \cap inputs
                              THEN IF Sampled(p) THEN 0 ELSE 1 ELSE state[p]]
  /\ heard' = heard \cup (Accepted \cap inputs)

\* on: the outputs this frame turns on.
WriteGpio(on) ==
  /\ put' = [p \in Pins |-> IF p \in OutMask THEN mode = 0 /\ p \in on ELSE put[p]]
  /\ out' = (out \ OutMask) \cup IF mode = 0 THEN OutMask ELSE OutMask \cap on

Tick ==
  /\ ReadGpio
  /\ IF suspended THEN UNCHANGED <<put, out>> ELSE \E on \in SUBSET OutMask : WriteGpio(on)
  /\ UNCHANGED <<outside, inputs, outputs, mode, suspended, pending>>
  /\ Timed
-----------------------------------------------------------------------------
(* Configuration.                                                          *)

Suspend == /\ suspended' = TRUE
           /\ UNCHANGED <<outside, out, put, inputs, outputs, mode, prev, age,
                          state, heard, pending, steady>>

\* set_mapping_from_config() forgets all input and sets the masks; the
\* directions follow in the same turn of the main loop, unless the tool has
\* asked for silence.
SetMapping(silent) ==
  /\ inputs' \in SUBSET Pins /\ outputs' \in SUBSET Pins
  /\ state' = [p \in Pins |-> 0] /\ heard' = {}
  /\ pending' = silent
  /\ out' = IF silent THEN out ELSE out \ InMask'

\* RESUME, with whatever mappings the tool has sent.
Resume == /\ suspended' = FALSE
          /\ SetMapping(FALSE)
          /\ UNCHANGED <<outside, put, mode, prev, age>>
          /\ Timed

\* The host chooses another protocol: the mappings, which the tool may be in
\* the middle of sending, are put into force.
SwitchProtocol == /\ SetMapping(suspended)
                  /\ UNCHANGED <<outside, put, mode, prev, age, suspended>>
                  /\ Timed

\* SET_CONFIG.
SetMode == /\ mode' \in {0, 1}
           /\ UNCHANGED <<outside, out, put, inputs, outputs, prev, age, state,
                          heard, suspended, pending, steady>>

Next == \/ \E p \in Pins : Switch(p)
        \/ TimePasses \/ Tick
        \/ Suspend \/ Resume \/ SwitchProtocol \/ SetMode

Spec == Init /\ [][Next]_vars
-----------------------------------------------------------------------------
(* Properties.                                                             *)

TypeOK == /\ outside \in [Pins -> BOOLEAN] /\ put \in [Pins -> BOOLEAN]
          /\ out \subseteq Pins /\ inputs \subseteq Pins /\ outputs \subseteq Pins
          /\ mode \in {0, 1} /\ prev \in [Pins -> BOOLEAN]
          /\ age \in [Pins -> 0 .. Debounce] /\ steady \in [Pins -> 0 .. Debounce]
          /\ state \in [Pins -> {0, 1}] /\ heard \subseteq Pins
          /\ suspended \in BOOLEAN /\ pending \in BOOLEAN

\* A level that has lasted for the debounce time is taken over by the next
\* tick, however the pin bounced before and whatever became of its direction:
\* a change that was ignored is not lost.
SteadyLevelIsTaken ==
  [][Tick => \A p \in Pins : steady[p] >= Debounce => prev'[p] = Sampled(p)]_vars

\* The state the mappings see is that of the switch as it was last taken, once
\* the pin has been heard of.  (Until then it is 0: a switch that is closed
\* when the configuration is put into force is seen when it is next closed.)
StateIsTheSwitch ==
  \A p \in heard : state[p] = IF prev[p] THEN 0 ELSE 1

\* Nobody drives a pin that the mappings in force read, except while the tool
\* has asked for silence: a switch is not shorted by the remapper.
InputsAreNotDriven == ~suspended => out \cap InMask = {}
=============================================================================
