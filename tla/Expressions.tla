----------------------------- MODULE Expressions -----------------------------
(***************************************************************************)
(* An expression of the firmware (remapper.cc): written into memory        *)
(* element by element by the configuration tool, checked once by           *)
(* is_expr_valid() when the configuration takes effect, and evaluated in   *)
(* every frame by eval_expr(), which relies on the check and looks at no   *)
(* bound of its stack.  Elements that read an input keep a pointer to its  *)
(* state from one evaluation to the next.                                  *)
(*                                                                         *)
(* Of the values only those that are not computed are known: the result of *)
(* arithmetic, of a register or of an input is any value.                  *)
(***************************************************************************)
EXTENDS Integers, Sequences, FiniteSets

CONSTANTS
  STACK_SIZE,
  Values,      \* what can be on the stack, usages and port numbers included
  PortNumbers, \* values that are port numbers, 0 for all ports
  Offered,     \* operations that programs are written with
  Literals,    \* values that programs push
  Shipped,     \* programs that may be in memory from the start
  MaxLength,   \* bound on programs written
  MaxSlots,    \* MAX_INPUT_STATES
  None

\* By what they take from the stack and put there, eval_expr().
Constant == {"PUSH", "PUSH_USAGE"}
Source == {"AUTO_REPEAT", "TIME", "SCALING", "LAYER_STATE", "TIME_SEC", "PLUGGED_IN"}
RawFetch == {"INPUT_STATE", "PREV_INPUT_STATE", "INPUT_STATE_FP32", "PREV_INPUT_STATE_FP32"}
ScaledFetch == {"INPUT_STATE_BINARY", "PREV_INPUT_STATE_BINARY", "INPUT_STATE_SCALED",
                "PREV_INPUT_STATE_SCALED"}
StateFetch == {"STICKY_STATE", "TAP_STATE", "HOLD_STATE"}
Fetch == RawFetch \cup ScaledFetch \cup StateFetch
Unary == {"NOT", "ABS", "SIN", "COS", "RELU", "BITWISE_NOT", "RECALL", "SQRT", "ROUND", "SIGN"}
Binary == {"ADD", "MUL", "EQ", "MOD", "GT", "BITWISE_OR", "BITWISE_AND", "ATAN2", "MIN", "MAX",
           "DIV", "SUB", "LT"}
Ternary == {"CLAMP", "IFTE"}
Sink == {"STORE", "MONITOR", "PRINT_IF"}
Inert == {"DEBUG", "EOL"}
Ops == Constant \cup Source \cup Fetch \cup Unary \cup Binary \cup Ternary \cup Sink \cup Inert
       \cup {"DUP", "SWAP", "PORT", "DPAD", "DEADZONE", "DEADZONE2"}

Taken(op) == CASE op \in Constant \cup Source \cup Inert -> 0
               [] op \in Fetch \cup Unary \cup {"DUP", "PORT"} -> 1
               [] op \in Binary \cup Sink \cup {"SWAP"} -> 2
               [] op \in Ternary \cup {"DEADZONE"} -> 3
               [] OTHER -> 4

Put(op) == CASE op \in Sink \cup Inert \cup {"PORT"} -> 0
             [] op \in {"DUP", "SWAP", "DEADZONE", "DEADZONE2"} -> 2
             [] OTHER -> 1

\* As is_expr_valid() has it: values an operation needs, by how many it changes the
\* stack, and the operations whose result needs room.
Required(op) == CASE op \in Constant \cup Source \cup Inert -> 0
                  [] op \in Fetch \cup Unary \cup {"DUP", "PORT"} -> 1
                  [] op \in Binary \cup Sink \cup {"SWAP"} -> 2
                  [] op \in Ternary \cup {"DEADZONE"} -> 3
                  [] OTHER -> 4

ChangeLoose(op) == CASE op \in Constant \cup Source \cup {"DUP"} -> 1
                     [] op \in Binary \cup {"PORT", "DEADZONE"} -> -1
                     [] op \in Ternary \cup Sink -> -2
                     [] op = "DPAD" -> -3
                     [] OTHER -> 0
Change(op) == CASE op \in Constant \cup Source \cup {"DUP"} -> 1
                [] op \in Binary \cup {"PORT", "DEADZONE"} -> -1
                [] op \in Ternary \cup Sink \cup {"DEADZONE2"} -> -2
                [] op = "DPAD" -> -3
                [] OTHER -> 0

NeedsRoomUnlessDup == Constant \cup Source
NeedsRoom == Constant \cup Source \cup {"DUP"}

Written == [op : Offered \cap Constant, val : Literals] \cup [op : Offered \ Constant, val : {0}]
Element == [op : Ops, val : Values]
Slot == [usage : Values, port : PortNumbers, raw : BOOLEAN]

ASSUME StackAssumption == STACK_SIZE \in Nat \ {0}
ASSUME ProgramsAssumption == Offered \subseteq Ops /\ Shipped \subseteq Seq(Element)
ASSUME ValuesAssumption == Literals \subseteq Values /\ PortNumbers \subseteq Values /\ 0 \in PortNumbers
ASSUME LimitsAssumption == MaxLength \in Nat /\ MaxSlots \in Nat /\ None \notin Slot

VARIABLES
  program,         \* expressions[expr]: the elements ...
  pointers,        \* ... and the pointer each keeps, as the slot it points to
  expression_valid,
  phase,           \* what runs: "none", is_expr_valid() or eval_expr()
  pc,              \* elements done
  on_stack, stack, \* of is_expr_valid() and of eval_expr()
  heights,         \* on_stack before and after each element of the last check
  port_register,
  slots,           \* usage_state_ptr: inputs that have a slot
  session,         \* the tool is between SUSPEND and RESUME
  suspended, resume_pending,
  unchecked        \* program was changed after the check

memory == <<program, pointers>>
checker == <<on_stack, heights>>
evaluator == <<stack, port_register>>
protocol == <<session, suspended, resume_pending>>
expression_state ==
  <<memory, expression_valid, phase, pc, checker, evaluator, slots, protocol, unchecked>>
-----------------------------------------------------------------------------
(* The configuration session, between the firmware's own steps.            *)

Idle == phase = "none"

SuspendFrames ==
  /\ Idle /\ ~session /\ session' = TRUE /\ suspended' = TRUE
  /\ UNCHANGED <<memory, expression_valid, phase, pc, checker, evaluator, slots, resume_pending,
                 unchecked>>

ClearExpression ==
  /\ Idle /\ session
  /\ program' = << >> /\ pointers' = << >> /\ unchecked' = TRUE
  /\ UNCHANGED <<expression_valid, phase, pc, checker, evaluator, slots, protocol>>

AppendToExpression(elem) ==
  /\ Idle /\ session /\ Len(program) < MaxLength
  /\ program' = Append(program, elem) /\ pointers' = Append(pointers, None)
  /\ unchecked' = TRUE
  /\ UNCHANGED <<expression_valid, phase, pc, checker, evaluator, slots, protocol>>

ResumeFrames ==
  /\ Idle /\ session /\ session' = FALSE /\ resume_pending' = TRUE
  /\ UNCHANGED <<memory, expression_valid, phase, pc, checker, evaluator, slots, suspended,
                 unchecked>>
-----------------------------------------------------------------------------
(* set_mapping_from_config(), called by the main loop: every expression is *)
(* checked, and the slots are given out anew.                              *)

ForgottenPointers == pointers
Forgotten == [i \in DOMAIN pointers |-> None]

StartCheck ==
  /\ Idle /\ resume_pending
  /\ resume_pending' = FALSE /\ suspended' = FALSE
  /\ phase' = "checking" /\ pc' = 0 /\ on_stack' = 0 /\ heights' = <<0>>
  /\ pointers' = Forgotten /\ slots' = {} /\ unchecked' = FALSE
  /\ UNCHANGED <<program, expression_valid, evaluator, session>>

Accepts(op) == /\ on_stack >= Required(op)
               /\ op \in NeedsRoom => on_stack < STACK_SIZE

CheckElement ==
  /\ phase = "checking" /\ pc < Len(program)
  /\ LET op == program[pc + 1].op
     IN IF Accepts(op)
        THEN /\ on_stack' = on_stack + Change(op) /\ pc' = pc + 1
             /\ heights' = Append(heights, on_stack')
             /\ UNCHANGED <<expression_valid, phase>>
        ELSE /\ expression_valid' = FALSE /\ phase' = "none"
             /\ UNCHANGED <<on_stack, pc, heights>>
  /\ UNCHANGED <<memory, evaluator, slots, protocol, unchecked>>

EndCheck ==
  /\ phase = "checking" /\ pc = Len(program)
  /\ expression_valid' = TRUE /\ phase' = "none"
  /\ UNCHANGED <<memory, pc, checker, evaluator, slots, protocol, unchecked>>
-----------------------------------------------------------------------------
(* eval_expr(), called by process_mapping(); the expressions before this   *)
(* one may have left any port in the register.                             *)

StartEvaluation ==
  /\ Idle /\ ~suspended /\ ~resume_pending /\ expression_valid
  /\ phase' = "evaluating" /\ pc' = 0 /\ stack' = << >>
  /\ port_register' \in PortNumbers
  /\ UNCHANGED <<memory, expression_valid, checker, slots, protocol, unchecked>>

Evaluating == phase = "evaluating" /\ pc < Len(program)
Elem == program[pc + 1]
Op == Elem.op

\* Within the stack; beyond it anything may happen, see StackStaysInBounds.
InBounds == /\ Len(stack) >= Taken(Op)
            /\ Len(stack) - Taken(Op) + Put(Op) =< STACK_SIZE

Below(n) == SubSeq(stack, 1, Len(stack) - n)
FromTop(n) == stack[Len(stack) - n]

\* get_state_ptr() with assign_if_absent.
Asked == [usage |-> FromTop(0), port |-> port_register, raw |-> Op \in RawFetch]

Pointer == IF pointers[pc + 1] # None THEN pointers[pc + 1]
           ELSE IF Asked \in slots \/ Cardinality(slots) < MaxSlots THEN Asked
           ELSE None

Next1(values, port) ==
  /\ \E v \in values : stack' = Below(Taken(Op)) \o v
  /\ port_register' = port /\ pc' = pc + 1
  /\ UNCHANGED <<program, expression_valid, phase, checker, protocol, unchecked>>

FetchState ==
  /\ Evaluating /\ InBounds /\ Op \in Fetch
  /\ IF Pointer = None
     THEN Next1({IF Op \in StateFetch THEN <<FromTop(0)>> ELSE <<0>>}, port_register)
     ELSE Next1({<<v>> : v \in Values}, port_register)
  /\ pointers' = [pointers EXCEPT ![pc + 1] = Pointer]
  /\ slots' = slots \cup ({Pointer} \ {None})

\* A port number the firmware does not know means all ports.
Port(v) == IF v \in PortNumbers THEN v ELSE 0

SetPort ==
  /\ Evaluating /\ InBounds /\ Op = "PORT"
  /\ Next1({<< >>}, Port(FromTop(0)))
  /\ UNCHANGED <<pointers, slots>>

Results == CASE Op \in Constant -> {<<Elem.val>>}
             [] Op = "DUP" -> {<<FromTop(0), FromTop(0)>>}
             [] Op = "SWAP" -> {<<FromTop(0), FromTop(1)>>}
             [] Op = "IFTE" -> {<<IF FromTop(2) # 0 THEN FromTop(1) ELSE FromTop(0)>>}
             [] OTHER -> [1..Put(Op) -> Values]

Compute ==
  /\ Evaluating /\ InBounds /\ Op \notin Fetch \cup {"PORT"}
  /\ Next1(Results, port_register)
  /\ UNCHANGED <<pointers, slots>>

\* What is left behind is not looked at again; the port is any at the next start.
EndEvaluation ==
  /\ phase = "evaluating" /\ pc = Len(program) /\ phase' = "none"
  /\ stack' = << >> /\ pc' = 0 /\ port_register' = 0
  /\ UNCHANGED <<memory, expression_valid, checker, slots, protocol, unchecked>>
-----------------------------------------------------------------------------
ExpressionsInit ==
  /\ program \in Shipped \cup {<< >>} /\ pointers = [i \in 1..Len(program) |-> None]
  /\ expression_valid = FALSE /\ phase = "none" /\ pc = 0
  /\ on_stack = 0 /\ heights = <<0>> /\ stack = << >> /\ port_register = 0 /\ slots = {}
  /\ session = FALSE /\ suspended = FALSE /\ resume_pending = TRUE
  /\ unchecked = FALSE

ExpressionsNext ==
  \/ SuspendFrames \/ ClearExpression \/ ResumeFrames
  \/ \E elem \in Written : AppendToExpression(elem)
  \/ StartCheck \/ CheckElement \/ EndCheck
  \/ StartEvaluation \/ FetchState \/ SetPort \/ Compute \/ EndEvaluation

ExpressionsSpec == ExpressionsInit /\ [][ExpressionsNext]_expression_state
-----------------------------------------------------------------------------
(* Properties.                                                             *)

ExpressionsTypeOK ==
  /\ program \in Seq(Element) /\ pointers \in [1..Len(program) -> Slot \cup {None}]
  /\ {expression_valid, session, suspended, resume_pending, unchecked} \subseteq BOOLEAN
  /\ phase \in {"none", "checking", "evaluating"}
  /\ pc \in Nat /\ on_stack \in 0..STACK_SIZE /\ heights \in Seq(0..STACK_SIZE)
  /\ stack \in Seq(Values) /\ Len(stack) =< STACK_SIZE
  /\ port_register \in PortNumbers /\ slots \subseteq Slot

\* eval_expr() never reads below its stack nor writes above it, although it checks
\* nothing itself: the static check is strict enough for every operation.  Exempt is a
\* program changed after it was checked, which SUSPEND keeps from being run, unless it
\* is handled in the same turn of the main loop as the RESUME before it.
StackStaysInBounds == Evaluating /\ ~unchecked => InBounds

\* No element keeps a pointer into slots that were given out anew since.
PointersAreCurrent == \A i \in DOMAIN pointers : pointers[i] # None => pointers[i] \in slots

\* What the evaluator's own table says of a program: the height of its stack after
\* each element, and whether it stays in bounds.
Heights(p) ==
  LET after[i \in 0..Len(p)] ==
        IF i = 0 THEN 0 ELSE after[i - 1] - Taken(p[i].op) + Put(p[i].op)
  IN after
Fits(p) == \A i \in 1..Len(p) : /\ Heights(p)[i - 1] >= Taken(p[i].op)
                                /\ Heights(p)[i] =< STACK_SIZE

\* The check accepts the programs that run within the stack and no others, although
\* it has tables of its own and looks for room before some operations only.
CheckIsExact == Idle /\ ~unchecked /\ ~resume_pending => expression_valid = Fits(program)
==============================================================================
