---------------------------- MODULE ChunkTransfer ----------------------------
(***************************************************************************)
(* Macros and expressions do not fit into one request.  The web tool cuts  *)
(* them up and the firmware puts them together when a configuration is     *)
(* saved; the firmware cuts them up, in other places, and the tool puts    *)
(* them together when it is loaded (code.js, config.cc).                   *)
(*                                                                         *)
(* A macro is a sequence of entries, an entry a sequence of usages; on the *)
(* wire it is one sequence in which Separator stands between the entries.  *)
(* An expression is a sequence of elements, some of which take Wide bytes  *)
(* and the others one.                                                     *)
(***************************************************************************)
EXTENDS Integers, Sequences

CONSTANTS NMACROS, NEXPRESSIONS,
          MACRO_ITEMS_IN_PACKET,
          SendBytes,    \* elem_data of append_to_expr_t: 24
          ReplyBytes,   \* elem_data of get_expr_response_t: 27
          Wide,         \* bytes of an element with a number: 5
          Separator,    \* 0 among the usages
          Macros,       \* macros to try
          Expressions,  \* expressions to try, elements are [wide, number]
          OldMacro, OldExpression  \* what the firmware holds before

SizesAssumption ==
  /\ NMACROS \in Nat \ {0} /\ NEXPRESSIONS \in Nat \ {0}
  /\ MACRO_ITEMS_IN_PACKET \in Nat \ {0}
  /\ SendBytes \in Nat /\ ReplyBytes \in Nat /\ Wide \in Nat \ {0}
  /\ SendBytes >= Wide /\ ReplyBytes >= Wide
\* The page keeps usages of 0, which stand for nothing, out of macros (code.js 1340-1354).
ContentsAssumption ==
  /\ Macros \cup {OldMacro} \subseteq Seq(Seq(Nat \ {Separator}))
  /\ Expressions \cup {OldExpression} \subseteq Seq([wide : BOOLEAN, number : Nat])

VARIABLES
  config,   \* the tool's configuration: [macros, expressions]
  stored,   \* the firmware's
  result,   \* what the tool has read back
  stage,    \* the part of save_to_device() or load_from_device() under way
  index,    \* macro_i or expr_i
  rest,     \* what is left to send of the current macro or expression
  offset    \* i: how much of it has been read

vars == <<config, stored, result, stage, index, rest, offset>>

MacroIds == 1 .. NMACROS
ExpressionIds == 1 .. NEXPRESSIONS
Nothing == [macros |-> [m \in MacroIds |-> << >>],
            expressions |-> [e \in ExpressionIds |-> << >>]]
-----------------------------------------------------------------------------
(* Macros on the wire.                                                     *)

\* The items of a macro's first k entries, with a separator behind each.
ItemsUpTo(macro) ==
  LET upto[k \in 0 .. Len(macro)] ==
        IF k = 0 THEN << >> ELSE upto[k - 1] \o macro[k] \o <<Separator>>
  IN upto
Items(macro) == ItemsUpTo(macro)[Len(macro)]

\* flat_zero_separated: no separator behind the last entry.
Separated(macro) == SubSeq(Items(macro), 1, Len(Items(macro)) - 1)

\* One item of a chunk, added to a macro that has an entry.
AddItem(macro, item) ==
  IF item = Separator THEN Append(macro, << >>)
  ELSE [macro EXCEPT ![Len(macro)] = Append(@, item)]

\* APPEND_TO_MACRO: a macro without entries gets its first one.
AddChunk(macro, items) ==
  LET added[k \in 0 .. Len(items)] ==
        IF k = 0 THEN IF macro = << >> THEN << << >> >> ELSE macro
        ELSE AddItem(added[k - 1], items[k])
  IN added[Len(items)]

\* Mutant: the separator behind the last entry is given out too.
GiveAllItems(macro, first) ==
  LET all == Items(macro)
      last == IF first + MACRO_ITEMS_IN_PACKET < Len(all)
              THEN first + MACRO_ITEMS_IN_PACKET ELSE Len(all)
  IN SubSeq(all, first + 1, last)

\* GET_MACRO: a separator is written behind every entry; the one behind the
\* last entry is taken back, if the loop has got as far as that entry with
\* room left.
GiveItems(macro, first) ==
  LET all == Items(macro)
      last == IF first + MACRO_ITEMS_IN_PACKET < Len(all)
              THEN first + MACRO_ITEMS_IN_PACKET ELSE Len(all)
      given == SubSeq(all, first + 1, last)
      beforeLastEntry == Len(all) - Len(macro[Len(macro)]) - 1
      exhausted == beforeLastEntry - first < MACRO_ITEMS_IN_PACKET
  IN IF given # << >> /\ exhausted /\ given[Len(given)] = Separator
     THEN SubSeq(given, 1, Len(given) - 1) ELSE given
-----------------------------------------------------------------------------
(* Expressions on the wire.                                                *)

Width(elem) == IF elem.wide THEN Wide ELSE 1

\* The bytes of the first k elements.
BytesUpTo(elems) ==
  LET upto[k \in 0 .. Len(elems)] == IF k = 0 THEN 0 ELSE upto[k - 1] + Width(elems[k])
  IN upto

\* How many elements go into a packet: as many as fit.
Fitting(elems, bytes) ==
  CHOOSE n \in 0 .. Len(elems) :
    /\ BytesUpTo(elems)[n] <= bytes
    /\ n < Len(elems) => BytesUpTo(elems)[n + 1] > bytes

\* GET_EXPRESSION.
GiveElements(expression, first) ==
  LET wanted == SubSeq(expression, first + 1, Len(expression))
  IN SubSeq(wanted, 1, Fitting(wanted, ReplyBytes))

\* APPEND_TO_EXPRESSION reads on while the bytes of the packet last.
TakeElements(expression, elems) ==
  expression \o SubSeq(elems, 1, Fitting(elems, SendBytes))
-----------------------------------------------------------------------------
Init == /\ config \in [macros : [MacroIds -> Macros],
                       expressions : [ExpressionIds -> Expressions]]
        /\ stored = [macros |-> [m \in MacroIds |-> OldMacro],
                     expressions |-> [e \in ExpressionIds |-> OldExpression]]
        /\ result = Nothing
        /\ stage = "clear macros" /\ index = 1 /\ rest = << >> /\ offset = 0

ClearMacros ==
  /\ stage = "clear macros"
  /\ stored' = [stored EXCEPT !.macros = [m \in MacroIds |-> << >>]]
  /\ stage' = "send macros" /\ index' = 1 /\ rest' = Separated(config.macros[1])
  /\ UNCHANGED <<config, result, offset>>

AppendToMacro ==
  /\ stage = "send macros" /\ rest # << >>
  /\ LET n == IF Len(rest) < MACRO_ITEMS_IN_PACKET
              THEN Len(rest) ELSE MACRO_ITEMS_IN_PACKET
     IN /\ stored' = [stored EXCEPT !.macros[index] =
                        AddChunk(@, SubSeq(rest, 1, n))]
        /\ rest' = SubSeq(rest, n + 1, Len(rest))
  /\ UNCHANGED <<config, result, stage, index, offset>>

NextMacro ==
  /\ stage = "send macros" /\ rest = << >>
  /\ IF index < NMACROS
     THEN /\ index' = index + 1 /\ rest' = Separated(config.macros[index + 1])
          /\ UNCHANGED stage
     ELSE /\ stage' = "clear expressions" /\ index' = 1
          /\ UNCHANGED rest
  /\ UNCHANGED <<config, stored, result, offset>>

ClearExpressions ==
  /\ stage = "clear expressions"
  /\ stored' = [stored EXCEPT !.expressions = [e \in ExpressionIds |-> << >>]]
  /\ stage' = "send expressions" /\ rest' = config.expressions[1]
  /\ UNCHANGED <<config, result, index, offset>>

AppendToExpression ==
  /\ stage = "send expressions" /\ rest # << >>
  /\ LET n == Fitting(rest, SendBytes)
     IN /\ stored' = [stored EXCEPT !.expressions[index] =
                        TakeElements(@, SubSeq(rest, 1, n))]
        /\ rest' = SubSeq(rest, n + 1, Len(rest))
  /\ UNCHANGED <<config, result, stage, index, offset>>

NextExpression ==
  /\ stage = "send expressions" /\ rest = << >>
  /\ IF index < NEXPRESSIONS
     THEN /\ index' = index + 1 /\ rest' = config.expressions[index + 1]
          /\ UNCHANGED <<stage, offset>>
     ELSE /\ stage' = "get macros" /\ index' = 1 /\ offset' = 0
          /\ UNCHANGED rest
  /\ UNCHANGED <<config, stored, result>>

\* A chunk that is not full is the last one.
GetMacro ==
  /\ stage = "get macros"
  /\ LET items == GiveItems(stored.macros[index], offset) IN
       /\ result' = [result EXCEPT !.macros[index] =
                       IF @ = << >> /\ items = << >> THEN @
                       ELSE AddChunk(@, items)]
       /\ IF Len(items) = MACRO_ITEMS_IN_PACKET
          THEN /\ offset' = offset + MACRO_ITEMS_IN_PACKET
               /\ UNCHANGED <<stage, index>>
          ELSE /\ offset' = 0
               /\ IF index < NMACROS
                  THEN index' = index + 1 /\ UNCHANGED stage
                  ELSE stage' = "get expressions" /\ index' = 1
  /\ UNCHANGED <<config, stored, rest>>

\* An empty chunk ends an expression.
GetExpression ==
  /\ stage = "get expressions"
  /\ LET elems == GiveElements(stored.expressions[index], offset) IN
       IF elems # << >>
       THEN /\ result' = [result EXCEPT !.expressions[index] = @ \o elems]
            /\ offset' = offset + Len(elems)
            /\ UNCHANGED <<stage, index>>
       ELSE /\ offset' = 0
            /\ IF index < NEXPRESSIONS
               THEN index' = index + 1 /\ UNCHANGED stage
               ELSE stage' = "done" /\ index' = 1
            /\ UNCHANGED result
  /\ UNCHANGED <<config, stored, rest>>

Next == \/ ClearMacros \/ AppendToMacro \/ NextMacro
        \/ ClearExpressions \/ AppendToExpression \/ NextExpression
        \/ GetMacro \/ GetExpression

Spec == Init /\ [][Next]_vars
-----------------------------------------------------------------------------
(* Properties.                                                             *)

\* What the wire can tell apart: a macro of one empty entry has no items.
Same(macro) == IF macro = << << >> >> THEN << >> ELSE macro

\* What the tool reads back is what it has sent, wherever the ends of entries
\* and elements fall among the ends of the packets of either direction.  The
\* exception is a macro of one empty entry, which comes back without entries:
\* it does nothing but take the time of one entry when it is run.
ReadsBackWhatWasSent ==
  stage = "done" =>
    /\ \A m \in MacroIds : result.macros[m] = Same(config.macros[m])
    /\ \A e \in ExpressionIds : result.expressions[e] = config.expressions[e]
=============================================================================
