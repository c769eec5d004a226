--------------------------- MODULE Configurations ---------------------------
(***************************************************************************)
(* How configurations are written down in this project: usages by page and *)
(* number, mappings, and expressions as sequences of elements (types.h,    *)
(* and mapping and expression as code.js has them).  Numbers are the       *)
(* fixed-point values of the configuration, 1000 for 1.                    *)
(***************************************************************************)
EXTENDS Integers, Sequences, SequencesExt

Key(n) == <<"keyboard", n>>
Button(n) == <<"button", n>>
Desktop(n) == <<"desktop", n>>
Led(n) == <<"led", n>>
Layer(n) == <<"layer", n>>
Expr(n) == <<"expr", n>>
Register(n) == <<"register", n>>
Nothing == <<"nothing", 0>>

Page(usage) == usage[1]
Computed(usage) == Page(usage) \in {"expr", "register"}

X == Desktop(\h30)
Y == Desktop(\h31)
Wheel == Desktop(\h38)
IsRelative(usage) == usage \in {X, Y, Wheel}

\* A mapping on the given layers.
Scaled(source, target, scaling, layers) ==
  [source |-> source, target |-> target, scaling |-> scaling, layers |-> layers,
   sticky |-> FALSE, tap |-> FALSE, hold |-> FALSE]
Map(source, target, layers) == Scaled(source, target, 1000, layers)
Sticky(mapping) == [mapping EXCEPT !.sticky = TRUE]
Tap(mapping) == [mapping EXCEPT !.tap = TRUE]
Hold(mapping) == [mapping EXCEPT !.hold = TRUE]

NEXPRESSIONS == 8
NREGISTERS == 32
AllLayers == 0..7

\* passthrough: the layers on which inputs that are not mapped are passed on.
Config(mappings, expressions, passthrough) ==
  [mappings |-> mappings, passthrough |-> passthrough,
   expressions |-> expressions \o [n \in 1..NEXPRESSIONS - Len(expressions) |-> << >>]]
-----------------------------------------------------------------------------
(* Pieces of expressions.                                                  *)

Element(op, val) == <<[op |-> op, val |-> val]>>
Push(n) == Element("PUSH", n)
Op(op) == Element(op, 0)
Do(ops) == FlattenSeq([i \in DOMAIN ops |-> Op(ops[i])])
Of(usage, op) == Element("PUSH_USAGE", usage) \o Op(op)

Value(usage) == Of(usage, "INPUT_STATE")
Down(usage) == Of(usage, "INPUT_STATE_BINARY")
WasDown(usage) == Of(usage, "PREV_INPUT_STATE_BINARY")
Recall(n) == Push(1000 * n) \o Op("RECALL")
Store(n) == Push(1000 * n) \o Op("STORE")

Negated == Op("NOT")
Mul == Op("MUL")
Add == Op("ADD")
BitOr == Op("BITWISE_OR")
Dup == Op("DUP")
Eq(n) == Push(n) \o Op("EQ")
Clamp(low, high) == Push(low) \o Push(high) \o Op("CLAMP")
Times(n) == Push(n) \o Mul
\* On for the second half of every period.
Blink(period, half) == Op("TIME") \o Push(period) \o Op("MOD") \o Push(half) \o Op("GT")
=============================================================================
