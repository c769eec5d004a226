-------------------------- MODULE MappingEvaluation --------------------------
(***************************************************************************)
(* What comes out for what goes in: the whole of process_mapping(), with   *)
(* the expressions (eval_expr()) and the outputs, under the tables that    *)
(* set_mapping_from_config() derives from a configuration.  LayerEngine    *)
(* takes the loop over the layer triggers one step at a time; here a frame *)
(* is one step.                                                            *)
(*                                                                         *)
(* Every input comes from any port and has its slot from the start, unless *)
(* no device has it: mappings of such an input do nothing and are left     *)
(* out.  An absolute output has one bit.  What is true of some inputs is   *)
(* a set of them, and a sticky state a set of pairs.                       *)
(***************************************************************************)
EXTENDS Configurations, FiniteSets, FiniteSetsExt, Bitwise

CONSTANT
  Scenarios  \* name -> a configuration (config); usage -> what its reports can say (inputs);
             \* tap_hold_threshold in ticks (threshold); what frame_counter is known modulo
             \* (period); a bound on the movement received between two frames (most)

Names == DOMAIN Scenarios
ConfigOf(name) == Scenarios[name].config
Operated(name) == DOMAIN Scenarios[name].inputs
MappingsOf(name) == SelectSeq(ConfigOf(name).mappings,
                              LAMBDA m : m.source \in Operated(name) \/ Computed(m.source))

Flagged(m) == m.sticky \/ m.tap \/ m.hold
ToLayer(m) == Page(m.target) = "layer"

ASSUME ScenariosAssumption ==
  \A name \in Names :
    /\ Len(ConfigOf(name).expressions) = NEXPRESSIONS
    /\ IsInjective(ConfigOf(name).mappings)
    /\ \A m \in Range(MappingsOf(name)) :
         Flagged(m) \/ ToLayer(m) => ~IsRelative(m.source) /\ ~Computed(m.source)
ASSUME BoundsAssumption ==
  \A name \in Names : /\ Scenarios[name].threshold \in Nat /\ Scenarios[name].most \in Nat
                      /\ Scenarios[name].period \in Nat \ {0}

VARIABLES
  tables,            \* what is derived from the configuration in force
  input_state,       \* usage -> value
  prev_input_state,  \* ... and the value in the last frame
  age,               \* usage -> ticks since pressed_at, up to Threshold
  tap, hold,         \* tap_hold_state
  sticky,            \* sticky_state: pairs of a usage and a layer
  layers,            \* layer_state_mask
  registers,
  frame_counter,
  accumulated,       \* relative target -> thousandths not sent yet
  ran,               \* a frame has run since the tables were made
  pressed, moved     \* what the last such frame put into the reports

inputs == <<input_state, prev_input_state>>
engine == <<age, tap, hold, sticky>>
outputs == <<ran, pressed, moved>>
vars == <<tables, inputs, engine, layers, registers, frame_counter, accumulated, outputs>>
-----------------------------------------------------------------------------
(* set_mapping_from_config()                                               *)

\* The layer a trigger is forced to be present on, or is taken to be.
NLAYERS == 4
Forced(m) == {m.target[2]} \cap 0..NLAYERS - 1

\* The layers a mapping is present on.
Effective(m) == CASE ~ToLayer(m) -> m.layers
                  [] ToLayer(m) /\ m.sticky -> m.layers \ {m.target[2]}
                  [] ToLayer(m) /\ ~m.sticky -> m.layers \cup Forced(m)
InForce(m) == [m EXCEPT !.layers = Effective(m)]

\* What a mapping maps: its source, and what its expression reads.
MappedBy(name, m) ==
  LET program == ConfigOf(name).expressions[m.source[2]]
  IN {m.source} \cup IF Page(m.source) = "expr"
                     THEN {program[i].val :
                             i \in {j \in DOMAIN program : program[j].op = "PUSH_USAGE"}}
                     ELSE {}

MappingsFrom(name, usage) == {m \in Range(MappingsOf(name)) : usage \in MappedBy(name, m)}

\* Mutant: a sticky trigger comes out on the layer that it has switched on.
MappedWherePresent(name, usage) == UNION {Effective(m) : m \in MappingsFrom(name, usage)}

\* A trigger of a layer counts as mapped there, even if it is sticky.
MappedOn(name, usage) ==
  UNION {Effective(m) \cup (IF ToLayer(m) /\ m.source = usage THEN Forced(m) ELSE {}) :
           m \in MappingsFrom(name, usage)}

PassedOn(name) ==
  {Map(usage, usage, ConfigOf(name).passthrough \ MappedOn(name, usage)) :
     usage \in Operated(name)}

ReverseMapping(name) ==
  {InForce(m) : m \in {n \in Range(MappingsOf(name)) : ~ToLayer(n)} \cup PassedOn(name)}

Triggers(name) ==
  LET chosen == SelectSeq(MappingsOf(name), LAMBDA m : Flagged(m) \/ ToLayer(m))
  IN [i \in DOMAIN chosen |-> InForce(chosen[i])]

\* What the firmware works with.  reverse_mapping: the mappings that have an output, as
\* they are in force; triggers: those the layer logic has to do with, in its order;
\* targets: the outputs; timed: tap_hold_usages; forgotten: the input states once they
\* have been zeroed.
TablesOf(name) ==
  [name |-> name,
   expressions |-> ConfigOf(name).expressions,
   reverse_mapping |-> ReverseMapping(name),
   triggers |-> Triggers(name),
   targets |-> {m.target : m \in ReverseMapping(name)} \ {Nothing},
   timed |-> {m.source : m \in {n \in Range(MappingsOf(name)) : n.tap \/ n.hold}},
   forgotten |-> [usage \in Operated(name) \cup {m.source : m \in Range(MappingsOf(name))}
                    |-> 0],
   inputs |-> Scenarios[name].inputs, threshold |-> Scenarios[name].threshold,
   period |-> Scenarios[name].period, most |-> Scenarios[name].most]

\* The tables are not recomputed in every step: they are a part of the state.
loaded == tables.name
Threshold == tables.threshold
-----------------------------------------------------------------------------
(* What is left of a state after all the steps, as the set that has it for *)
(* its only element.  In blocks, so that no recursion is deep.             *)
Block == 32
Folded(start, steps, After(_, _)) ==
  LET Within(s, first) ==
        LET after[i \in first - 1..first + Block - 1] ==
              IF i < first THEN {s}
              ELSE IF i > Len(steps) THEN after[i - 1]
              ELSE {After(t, steps[i]) : t \in after[i - 1]}
        IN after[first + Block - 1]
      blocks[b \in 0..Len(steps) \div Block + 1] ==
        IF b = 0 THEN {start}
        ELSE UNION {Within(s, (b - 1) * Block + 1) : s \in blocks[b - 1]}
  IN blocks[Len(steps) \div Block + 1]

On(usage) == input_state[usage] # 0
WasOn(usage) == prev_input_state[usage] # 0
PressedNow(usage) == On(usage) /\ ~WasOn(usage)
ReleasedNow(usage) == ~On(usage) /\ WasOn(usage)
-----------------------------------------------------------------------------
(* Taps, holds, sticky states and layers, ticks after the last frame.      *)

Capped(n) == IF n < Threshold THEN n ELSE Threshold
Aged(ticks) == [usage \in DOMAIN age |->
                  IF PressedNow(usage) THEN 0 ELSE Capped(age[usage] + ticks)]
Taps(ages) == {usage \in DOMAIN ages : ReleasedNow(usage) /\ ages[usage] < Threshold}
Holds(ages) == {usage \in DOMAIN ages : On(usage) /\ ages[usage] >= Threshold}

\* What makes a sticky mapping toggle, with the taps and holds of this frame.
ByPress(m) == ~m.tap /\ ~m.hold /\ PressedNow(m.source)
ByTap(m, taps) == m.tap /\ m.source \in taps
\* Mutant: every frame of a hold acts, not only its first.
ByEveryHold(m, holds) == m.hold /\ m.source \in holds
ByHold(m, holds) == m.hold /\ m.source \in holds \ hold
Engaged(m, taps, holds) == ByPress(m) \/ ByTap(m, taps) \/ ByHold(m, holds)

Toggle(s, t) == (s \ t) \cup (t \ s)
Bits(ms) == UNION {{m.source} \X (m.layers \cap layers) : m \in ms}
Toggled(taps, holds) ==
  LET StickyIf(Acts(_)) == Bits({m \in Range(tables.triggers) : m.sticky /\ Acts(m)})
  IN Toggle(Toggle(Toggle(sticky, StickyIf(ByPress)),
                   StickyIf(LAMBDA m : ByTap(m, taps))),
            StickyIf(LAMBDA m : ByHold(m, holds)))

Own(m) == {m.source} \X m.layers

\* The layer that a sticky trigger has switched on goes off when it acts again.
TurnsOff(m, stuck, taps, holds) ==
  Engaged(m, taps, holds) /\ stuck \cap Own(m) # {} /\ m.target[2] \in layers

\* The sticky states and the layers switched on, after the trigger m.
AfterTrigger(s, m, taps, holds) ==
  LET kept == IF TurnsOff(m, s.sticky, taps, holds) THEN s.sticky \ Own(m) ELSE s.sticky
      acts == IF m.hold THEN m.source \in holds ELSE On(m.source)
  IN CASE ~ToLayer(m) -> s
       [] ToLayer(m) /\ m.sticky ->
            [sticky |-> kept,
             on |-> IF kept \cap Own(m) # {} THEN s.on \cup {m.target[2]} ELSE s.on]
       [] ToLayer(m) /\ ~m.sticky ->
            [s EXCEPT !.on = IF acts /\ m.layers \cap layers # {}
                             THEN @ \cup {m.target[2]} ELSE @]

Switched(taps, holds) ==
  Folded([sticky |-> Toggled(taps, holds), on |-> {}], tables.triggers,
         LAMBDA s, m : AfterTrigger(s, m, taps, holds))
OrDefault(on) == IF on = {} THEN {0} ELSE on
-----------------------------------------------------------------------------
(* eval_expr()                                                             *)

Bit(condition) == IF condition THEN 1 ELSE 0
Truth(condition) == 1000 * Bit(condition)

\* Division of C: towards zero.
Magnitude(n) == IF n < 0 THEN -n ELSE n
Quotient(a, b) == LET q == Magnitude(a) \div Magnitude(b)
                  IN IF (a < 0) = (b < 0) THEN q ELSE -q
Remainder(a, b) == a - b * Quotient(a, b)

\* Inputs without a slot read 0.
Read(state, usage) == IF usage \in DOMAIN state THEN state[usage] ELSE 0

\* One element on a machine with a stack, the inputs, the registers and the taps and
\* holds of this frame.
Step(machine, e) ==
  LET stack == machine.stack
      At(depth) == stack[Len(stack) - depth]
      top == At(0)
      under == At(1)
      Put(taken, value) ==
        [machine EXCEPT !.stack = Append(SubSeq(stack, 1, Len(stack) - taken), value)]
      number == Quotient(top, 1000)
  IN CASE e.op \in {"PUSH", "PUSH_USAGE"} -> Put(0, e.val)
       [] e.op = "INPUT_STATE" -> Put(1, 1000 * Read(machine.input, top))
       [] e.op = "INPUT_STATE_BINARY" -> Put(1, Truth(Read(machine.input, top) # 0))
       [] e.op = "PREV_INPUT_STATE" -> Put(1, 1000 * Read(prev_input_state, top))
       [] e.op = "PREV_INPUT_STATE_BINARY" -> Put(1, Truth(Read(prev_input_state, top) # 0))
       [] e.op = "HOLD_STATE" -> Put(1, Truth(top \in machine.holds))
       [] e.op = "TAP_STATE" -> Put(1, Truth(top \in machine.taps))
       [] e.op = "TIME" -> Put(0, 1000 * machine.time)
       [] e.op = "ADD" -> Put(2, under + top)
       [] e.op = "SUB" -> Put(2, under - top)
       [] e.op = "MUL" -> Put(2, Quotient(under * top, 1000))
       [] e.op = "MOD" -> Put(2, Remainder(under, top))
       [] e.op = "EQ" -> Put(2, Truth(under = top))
       [] e.op = "GT" -> Put(2, Truth(under > top))
       [] e.op = "LT" -> Put(2, Truth(under < top))
       [] e.op = "NOT" -> Put(1, Truth(top = 0))
       [] e.op = "BITWISE_OR" -> Put(2, under | top)
       [] e.op = "DUP" -> Put(0, top)
       [] e.op = "CLAMP" ->
            Put(3, IF At(2) < under THEN IF under > top THEN top ELSE under
                   ELSE IF At(2) > top THEN top ELSE At(2))
       [] e.op = "RECALL" -> IF number \in 1..NREGISTERS
                             THEN Put(1, machine.registers[number]) ELSE machine
       [] e.op = "STORE" ->
            [machine EXCEPT !.stack = SubSeq(@, 1, Len(@) - 2),
                            !.registers = IF number \in 1..NREGISTERS
                                          THEN [@ EXCEPT ![number] = under] ELSE @]

\* The result of expression n goes to its state, if it is the source of a mapping.
Finished(machine, n) ==
  LET result == IF machine.stack = << >> THEN 0 ELSE Last(machine.stack)
  IN [machine EXCEPT !.stack = << >>,
                     !.input = IF Expr(n) \in DOMAIN @ THEN [@ EXCEPT ![Expr(n)] = result]
                               ELSE @]
Evaluated(machine, n) ==
  {Finished(m, n) : m \in Folded(machine, tables.expressions[n], Step)}

\* All expressions in order, then the registers that are sources.
WithThose(machine, values) ==
  [machine EXCEPT !.input = [usage \in DOMAIN @ |-> IF Page(usage) = "register"
                                                    THEN values[usage[2]] ELSE @[usage]]]
WithRegisters(machine) == WithThose(machine, machine.registers)
AfterExpressions(taps, holds, time) ==
  LET after[n \in 0..NEXPRESSIONS] ==
        IF n = 0
        THEN {[stack |-> << >>, input |-> input_state, registers |-> registers,
               taps |-> taps, holds |-> holds, time |-> time]}
        ELSE UNION {Evaluated(m, n) : m \in after[n - 1]}
  IN {WithRegisters(m) : m \in after[NEXPRESSIONS]}
-----------------------------------------------------------------------------
(* The outputs after the expressions, in thousandths for a relative target *)
(* and in units for an absolute one.                                       *)

Stuck(m, stuck) == stuck \cap Own(m) # {}

Absent(m, present) == present \cap m.layers = {}

Pushes(m, v) == Bit(v * m.scaling > 0)

Units(m, v) == IF Computed(m.source) THEN Quotient(v, 1000) ELSE v

Moves(m, machine, stuck, present) ==
  CASE m.sticky -> m.scaling * Bit(Stuck(m, stuck))
    [] ~m.sticky /\ Absent(m, present) -> 0
    [] OTHER -> Units(m, m.scaling * IF m.hold THEN Bit(m.source \in machine.holds)
                                     ELSE machine.input[m.source])

Presses(m, machine, stuck, present) ==
  CASE m.sticky -> Quotient(m.scaling, 1000) * Bit(Stuck(m, stuck))
    [] ~m.sticky /\ Absent(m, present) -> 0
    [] ~m.sticky /\ ~Absent(m, present) /\ (m.tap \/ m.hold) ->
         Quotient(m.scaling, 1000) * Bit(\/ m.tap /\ m.source \in machine.taps
                                         \/ m.hold /\ m.source \in machine.holds)
    [] OTHER -> IF IsRelative(m.source) THEN Pushes(m, machine.input[m.source])
                ELSE Units(m, Quotient(m.scaling * machine.input[m.source], 1000))

SourcesTo(target) == {m \in tables.reverse_mapping : m.target = target}
Moved(target, machine, stuck, present) ==
  accumulated[target] + MapThenSumSet(LAMBDA m : Moves(m, machine, stuck, present),
                                      SourcesTo(target))
Pushed(target, machine, stuck, present) ==
  MapThenSumSet(LAMBDA m : Presses(m, machine, stuck, present), SourcesTo(target))

Pressed(machine, stuck, present) ==
  {target \in tables.targets :
     ~IsRelative(target) /\ Pushed(target, machine, stuck, present) > 0}

\* Mutant: what is less than a unit is dropped.
SettledLossy(n) == 0
Settled(n) == n - 1000 * Quotient(n, 1000)
-----------------------------------------------------------------------------
NoRegisters == [n \in 1..NREGISTERS |-> 0]
Still == [target \in tables.targets \cap {X, Y, Wheel} |-> 0]
LongPast == [usage \in tables.timed |-> Threshold]

Init == /\ tables \in {TablesOf(name) : name \in Names}
        /\ input_state = tables.forgotten /\ prev_input_state = tables.forgotten
        /\ age = LongPast /\ tap = {} /\ hold = {} /\ sticky = {}
        /\ layers = {0}
        /\ registers = NoRegisters /\ frame_counter = 0
        /\ accumulated = Still
        /\ ran = FALSE /\ pressed = {} /\ moved = Still

\* A report sets the state of an absolute input and adds to that of a relative one.
ReceiveInput(usage, value) ==
  /\ input_state' = [input_state EXCEPT ![usage] = IF IsRelative(usage) THEN @ + value ELSE value]
  /\ IsRelative(usage) => Magnitude(input_state'[usage]) =< tables.most
  /\ UNCHANGED <<tables, prev_input_state, engine, layers, registers, frame_counter,
                 accumulated, outputs>>

\* process_mapping(), ticks after the last time.
Frame(ticks) ==
  /\ age' = Aged(ticks)
  /\ tap' = Taps(Aged(ticks))
  /\ hold' = Holds(Aged(ticks))
  /\ frame_counter' = (frame_counter + 1) % tables.period
  /\ \E shift \in Switched(tap', hold') :
     \E present \in {OrDefault(shift.on)} :
     \E machine \in AfterExpressions(tap', hold', frame_counter') :
       /\ sticky' = shift.sticky
       /\ layers' = present
       /\ registers' = machine.registers
       /\ prev_input_state' = machine.input
       /\ input_state' = [usage \in DOMAIN input_state |->
                            IF IsRelative(usage) THEN 0 ELSE machine.input[usage]]
       /\ pressed' = Pressed(machine, shift.sticky, present)
       /\ \E sums \in {[target \in DOMAIN moved |->
                          Moved(target, machine, shift.sticky, present)]} :
            /\ moved' = [target \in DOMAIN moved |-> Quotient(sums[target], 1000)]
            /\ accumulated' = [target \in DOMAIN moved |-> Settled(sums[target])]
  /\ ran' = TRUE
  /\ UNCHANGED tables

\* set_mapping_from_config(): the input, tap, hold and sticky states are zeroed.
SetMapping ==
  /\ input_state' = tables.forgotten /\ prev_input_state' = tables.forgotten
  /\ age' = LongPast /\ tap' = {} /\ hold' = {} /\ sticky' = {}
  /\ ran' = FALSE /\ pressed' = {} /\ moved' = Still
  /\ UNCHANGED tables

\* RESUME after the tool has written the configuration once more: reset_state() and
\* set_mapping_from_config().  (With another one it leads to an initial state.)
Resume ==
  /\ SetMapping
  /\ layers' = {0} /\ registers' = NoRegisters /\ frame_counter' = 0
  /\ accumulated' = Still

\* The host switches between boot and report protocol.
SwitchProtocol == /\ SetMapping
                  /\ UNCHANGED <<layers, registers, frame_counter, accumulated>>

Reports == \E usage \in DOMAIN tables.inputs :
             \E value \in tables.inputs[usage] : ReceiveInput(usage, value)
Tick == \E ticks \in 1..Threshold + 1 : Frame(ticks)

Next == Reports \/ Tick \/ Resume \/ SwitchProtocol

Spec == Init /\ [][Next]_vars
-----------------------------------------------------------------------------
(* Properties.                                                             *)

\* The step is a frame (if period is 2 or more).
FrameRuns == ran' /\ frame_counter' # frame_counter

\* The inputs the last frame saw to be on.
Seen == {usage \in DOMAIN tables.inputs : WasOn(usage)}
=============================================================================
