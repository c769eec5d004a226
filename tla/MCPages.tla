------------------------------ MODULE MCPages -------------------------------
(* Model checking Pages: constants.                                        *)
EXTENDS Pages

CONSTANT A  \* a usage for macros

(* Mappings.                                                               *)

Expression == <<"expr", 1>>
ToLayer1 == <<"layer", 1>>
MCRank == [usage \in {Nothing, Expression, ToLayer1} |->
             CASE usage = Nothing -> 0 [] usage = ToLayer1 -> 1 [] usage = Expression -> 2]

MCSources == {Nothing, Expression}
MCTargets == {Nothing, ToLayer1}

Read(source, target, flags, layers) ==
  [source |-> source, target |-> target, source_port |-> 0, flags |-> flags, layers |-> layers,
   source_name |-> Unnamed]
Named(m) == [m EXCEPT !.source_name = <<m.source, 2>>]

\* A fresh page; a trigger that is not on its layer, with a name, and a sticky one that is;
\* an expression that is sticky.
MCFiles == {<<Read(Nothing, Nothing, {}, {0})>>,
            <<Named(Read(Nothing, ToLayer1, {}, {0})), Read(Nothing, ToLayer1, {"sticky"}, {0, 1})>>,
            <<Read(Expression, ToLayer1, {"sticky"}, {0, 1})>>}
-----------------------------------------------------------------------------
(* Macros: two of up to two entries of up to two usages.  An entry with    *)
(* nothing in it is a pause.                                               *)

MCUsages == {A, NoUsage}
MCMacroFiles == {<<<< <<A>>, << >> >>, << >> >>, << << >>, << <<A, A>> >> >>}
-----------------------------------------------------------------------------
(* Expressions, of words.                                                  *)

Number(n) == [word |-> "number", value |-> n]
Word(word) == [word |-> word, value |-> 0]

\* Numbers that are rounded up, down, to an even and to an odd thousandth, and to nothing.
MCTexts == {<< >>, <<Number(15000), Word("op")>>, <<Number(12345), Word("comment"), Word("eol")>>,
            <<Number(-5)>>, <<Number(-6)>>, <<Number(4), Word("push")>>, <<Word("other")>>}
Uploaded == {<< >>, <<Number(1500), Word("comment"), Word("op")>>, <<Number(-1), Word("eol")>>,
             <<Word("usage"), Word("push")>>, <<Word("other")>>}
MCExpressionFiles == Uploaded \X Uploaded
MCDevices == {<<<< >>, <<Number(1), Word("usage"), Word("op"), Word("eol")>>>>,
              <<<<Number(-2500)>>, << >>>>}
-----------------------------------------------------------------------------
(* Macros of up to three entries, of sizes around the packet's six items;  *)
(* expressions of elements that are narrow and wide in turns: 24 bytes     *)
(* hold four wide and four narrow ones, 27 bytes five wide and two narrow  *)
(* ones.  No two usages and no two elements are alike.                     *)

Numbered(sizes) == [k \in 1..Len(sizes) |-> [j \in 1..sizes[k] |-> 10 * k + j]]
MCSomeMacros == {Numbered(sizes) : sizes \in BoundedSeq({0, 5, 6}, 3)}

Elements(runs) ==
  LET widths == FlattenSeq([k \in 1..Len(runs) |-> [j \in 1..runs[k] |-> k % 2 = 0]])
  IN [k \in 1..Len(widths) |-> [wide |-> widths[k], number |-> k]]
MCSomeExpressions == {Elements(runs) : runs \in {0, 4} \X {0, 4, 5} \X {0, 4} \X {0, 1, 2}}

MCOldMacro == << <<99>>, <<98>> >>
MCOldExpression == Elements(<<0, 1>>)

\* Two macros of any shape, or two expressions.
MCTried ==
  {[macros |-> m, expressions |-> << << >>, << >> >>] : m \in MCSomeMacros \X MCSomeMacros}
    \cup {[macros |-> << << >>, << >> >>, expressions |-> e] :
            e \in MCSomeExpressions \X MCSomeExpressions}
=============================================================================
