--------------------------- MODULE ExpressionsPage ---------------------------
(***************************************************************************)
(* The expressions tab of the web configuration tool (code.js).  The page  *)
(* shows decimal fractions and line breaks where the configuration has     *)
(* thousandths and "eol"; what the user types is turned into the           *)
(* configuration's form at every keystroke, and a configuration that is    *)
(* loaded into the page's form.                                            *)
(*                                                                         *)
(* A text is a sequence of words, told apart as far as the code does:      *)
(* whitespace and the case of letters are left out.                        *)
(***************************************************************************)
EXTENDS Integers, Sequences, SequencesExt

CONSTANTS
  NEXPRESSIONS,
  Texts,          \* what the user types
  Files,          \* expressions in files and examples: what a user may have written there
  Devices         \* expressions read from a device

\* A number on the page is known in ten-thousandths, one more digit than is kept.
Number(n) == [word |-> "number", value |-> n]
Word(word) == [word |-> word, value |-> 0]
Words == {Word(w) : w \in {"usage", "op", "eol", "comment", "push", "other"}}
Text == Seq(Words \cup [word : {"number"}, value : Int])

TextsAssumption ==
  /\ NEXPRESSIONS \in Nat
  /\ Texts \subseteq Text
  /\ \A file \in Files \cup Devices : Len(file) = NEXPRESSIONS /\ file \in Seq(Text)

VARIABLES
  expressions,  \* config['expressions']
  shown,        \* the texts on the page
  is_invalid    \* the texts marked as invalid
vars == <<expressions, shown, is_invalid>>
-----------------------------------------------------------------------------
(* ui_to_json() and json_to_ui(), applied to every word.                   *)

\* The two operators that carry a value are not for the user to write.
Valid(text) == \A i \in DOMAIN text : text[i].word \notin {"push", "other"}

\* Math.round() of a number on the page times 1000.
Rounded(n) == (n + 5) \div 10

ToConfig(text) ==
  [i \in DOMAIN text |-> IF text[i].word = "number" THEN Number(Rounded(text[i].value))
                         ELSE text[i]]

ToPage(expression) ==
  [i \in DOMAIN expression |->
     IF expression[i].word = "number" THEN Number(10 * expression[i].value) ELSE expression[i]]

\* expression_onchange(): what it makes of a text.
Entered(n, text) == IF Valid(text) THEN ToConfig(text) ELSE << >>

-----------------------------------------------------------------------------
Init == /\ expressions = [n \in 1..NEXPRESSIONS |-> << >>]
        /\ shown = [n \in 1..NEXPRESSIONS |-> << >>]
        /\ is_invalid = {}

ExpressionOnchange(n, text) ==
  /\ shown' = [shown EXCEPT ![n] = text]
  /\ expressions' = [expressions EXCEPT ![n] = Entered(n, text)]
  /\ is_invalid' = IF Valid(text) THEN is_invalid \ {n} ELSE is_invalid \cup {n}

\* set_expressions_ui_state(), which leaves the marks alone.
Display(config) == shown' = [n \in 1..NEXPRESSIONS |-> ToPage(config[n])]

\* Then validate_ui_expressions(), as if every text on the page had just been typed.
Validated(config) ==
  /\ Display(config)
  /\ expressions' = [n \in 1..NEXPRESSIONS |-> Entered(n, ToPage(config[n]))]
  /\ is_invalid' = {n \in 1..NEXPRESSIONS : ~Valid(ToPage(config[n]))}

\* A file or an example; a load from a device.
FileUploaded(file) == Validated(file)
LoadedFromDevice(device) == Validated(device)

\* Another descriptor: the labels change, and the page is made anew.
DescriptorOnchange == Display(expressions) /\ UNCHANGED <<expressions, is_invalid>>

Next == \/ \E n \in 1..NEXPRESSIONS, text \in Texts : ExpressionOnchange(n, text)
        \/ \E file \in Files : FileUploaded(file)
        \/ \E device \in Devices : LoadedFromDevice(device)
        \/ DescriptorOnchange

Spec == Init /\ [][Next]_vars
-----------------------------------------------------------------------------
(* Properties.                                                             *)

\* The configuration has the expressions that the page shows.  A text that is no
\* expression stands for none, and is marked (a mark can outlive such a text, though:
\* another descriptor makes the page anew and leaves the mark).
ExpressionsAgree ==
  \A n \in 1..NEXPRESSIONS :
    /\ expressions[n] = IF Valid(shown[n]) THEN ToConfig(shown[n]) ELSE << >>
    /\ ~Valid(shown[n]) => n \in is_invalid
=============================================================================
