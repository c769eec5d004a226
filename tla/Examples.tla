------------------------------ MODULE Examples ------------------------------
(***************************************************************************)
(* Example configurations that the configuration tool offers               *)
(* (examples.js): mappings, expressions and the layers of the unmapped     *)
(* passthrough.  The other settings have their defaults.  Comments and     *)
(* ends of lines are elements that do nothing and are left out.            *)
(***************************************************************************)
EXTENDS Configurations

LeftButton == Button(1)
RightButton == Button(2)
MiddleButton == Button(3)

LeftCtrl == Key(\hE0)
LeftShift == Key(\hE1)
LeftGui == Key(\hE3)
RightCtrl == Key(\hE4)
RightGui == Key(\hE7)
CapsLock == Key(\h39)
TabKey == Key(\h2B)
RightArrow == Key(\h4F)
LeftArrow == Key(\h50)
DownArrow == Key(\h51)
UpArrow == Key(\h52)
Space == Key(\h2C)
Enter == Key(\h28)
Backspace == Key(\h2A)
\* The keys A to Z.
Letter(n) == Key(3 + n)
LetterA == Letter(1)
LetterD == Letter(4)
LetterF == Letter(6)
LetterS == Letter(19)
CapsLockLed == Led(2)
ScrollLockLed == Led(3)

\* Files before version 4: "layer": 0 and passthrough of everything else.
Plain(mappings) == Config(mappings, << >>, {0})
-----------------------------------------------------------------------------
(* Keys and buttons.                                                       *)

CapsLockAsControl == Plain(<<Map(CapsLock, LeftCtrl, {0})>>)

SwappedButtons == Plain(<<Map(LeftButton, RightButton, {0}), Map(RightButton, LeftButton, {0})>>)

CopyAndPasteButtons ==
  Plain(<<Map(MiddleButton, LeftCtrl, {0}), Map(MiddleButton, Letter(3), {0}),
          Map(RightButton, LeftCtrl, {0}), Map(RightButton, Letter(22), {0})>>)

NoWindowsKeys == Plain(<<Map(LeftGui, Nothing, {0}), Map(RightGui, Nothing, {0})>>)

WheelSwitchesTabs ==
  Plain(<<Scaled(Wheel, LeftCtrl, -1000, {0}), Scaled(Wheel, TabKey, -1000, {0}),
          Map(Wheel, LeftCtrl, {0}), Map(Wheel, LeftShift, {0}), Map(Wheel, TabKey, {0})>>)

\* The layer of the left half of the keyboard, each key with the one it stands for.
MirrorPairs ==
  <<<<\h35, \h2A>>, <<\h2C, \h28>>, <<\h14, \h13>>, <<\h1A, \h12>>, <<\h08, \h0C>>, <<\h15, \h18>>,
    <<\h17, \h1C>>, <<\h1C, \h17>>, <<\h04, \h34>>, <<\h16, \h0F>>, <<\h07, \h0E>>, <<\h09, \h0D>>,
    <<\h0A, \h0B>>, <<\h0B, \h0A>>, <<\h1D, \h37>>, <<\h1B, \h36>>, <<\h06, \h10>>, <<\h19, \h11>>>>
MirrorboardLayer == <<Map(CapsLock, Layer(1), {0, 1})>>
Mirrorboard ==
  Config(MirrorboardLayer \o [i \in DOMAIN MirrorPairs |->
                                Map(Key(MirrorPairs[i][1]), Key(MirrorPairs[i][2]), {1})],
         << >>, AllLayers)

Rot13LayerAndLight == <<Sticky(Map(CapsLock, Layer(1), {0})), Map(Expr(1), CapsLockLed, {1})>>
Rot13FirstHalf == [n \in 1..13 |-> Map(Letter(n), Letter(n + 13), {1})]
Rot13SecondHalf == [n \in 1..13 |-> Map(Letter(n + 13), Letter(n), {1})]
Rot13 == Config(Rot13LayerAndLight \o Rot13FirstHalf \o Rot13SecondHalf, <<Push(1000)>>, AllLayers)

LightOnLayer1 ==
  Config(<<Map(Expr(1), CapsLockLed, {1}), Map(LeftShift, Layer(1), {0, 1})>>, <<Push(1000)>>, 0..3)

BlinkingLight ==
  Config(<<Map(Expr(1), CapsLockLed, {0})>>,
         <<Down(CapsLockLed) \o Blink(600000, 200000) \o Mul>>, 0..3)

SwappedLights ==
  Config(<<Map(CapsLockLed, ScrollLockLed, {0}), Map(ScrollLockLed, CapsLockLed, {0})>>,
         << >>, 0..3)
-----------------------------------------------------------------------------
(* Drag-lock: the left button stays pressed without being held.            *)

RightButtonLocks == Plain(<<Sticky(Map(RightButton, LeftButton, {0}))>>)

LongPressLocks ==
  Config(<<Tap(Map(LeftButton, LeftButton, {0})), Sticky(Hold(Map(LeftButton, LeftButton, {0})))>>,
         << >>, AllLayers)

\* Register 1 is the lock, register 2 the hold of the frame before.
AnyClickUnlocks ==
  Config(<<Map(LeftButton, LeftButton, {0}), Map(Register(1), LeftButton, {0}),
           Hold(Map(LeftButton, Nothing, {0}))>>,
         <<Recall(1) \o Recall(2) \o Down(LeftButton) \o Do(<<"NOT", "MUL", "BITWISE_OR">>)
             \o Recall(1) \o WasDown(LeftButton) \o Mul
             \o Down(LeftButton) \o Do(<<"NOT", "MUL", "NOT", "MUL">>) \o Store(1),
           Of(LeftButton, "HOLD_STATE") \o Store(2)>>,
         AllLayers)

Turbo ==
  Config(<<Map(Expr(1), LeftButton, {0})>>,
         <<Down(RightButton) \o Blink(100000, 50000) \o Mul>>, AllLayers)
-----------------------------------------------------------------------------
(* Movement.                                                               *)

PrecisionMode ==
  Plain(<<Map(MiddleButton, Layer(1), {0}), Scaled(X, X, 250, {1}), Scaled(Y, Y, 250, {1})>>)

Rotated90 == Plain(<<Map(X, Y, {0}), Scaled(Y, X, -1000, {0})>>)

Rotated30 ==
  Plain(<<Scaled(X, X, 866, {0}), Scaled(X, Y, -500, {0}),
          Scaled(Y, X, 500, {0}), Scaled(Y, Y, 866, {0})>>)

ArrowsAsMouse ==
  Plain(<<Map(CapsLock, Layer(1), {0}),
          Scaled(LeftArrow, X, -500, {1}), Scaled(RightArrow, X, 500, {1}),
          Scaled(UpArrow, Y, -500, {1}), Scaled(DownArrow, Y, 500, {1}),
          Map(RightCtrl, LeftButton, {1})>>)

CyclingDpi ==
  Config(<<Sticky(Map(MiddleButton, Layer(1), {0})), Sticky(Map(MiddleButton, Layer(2), {1})),
           Scaled(X, X, 500, {1}), Scaled(Y, Y, 500, {1}),
           Scaled(X, X, 250, {2}), Scaled(Y, Y, 250, {2})>>,
         << >>, 0..3)

\* Mutant: a register that was never written is taken at its word.
ZeroMeansZero == << >>
ZeroMeansOne == Dup \o Push(0) \o Op("EQ") \o Add

\* Register 1 is the factor, in thousandths.
WheelAdjustsDpi ==
  Config(<<Map(Expr(2), X, {0}), Map(Expr(3), Y, {0}), Map(Wheel, Nothing, {0})>>,
         <<Recall(1) \o ZeroMeansOne
             \o Value(Wheel) \o Eq(1000) \o Times(1100)
             \o Value(Wheel) \o Eq(-1000) \o Times(900) \o Add
             \o ZeroMeansOne \o Mul \o Clamp(100, 10000) \o Store(1),
           Value(X) \o Recall(1) \o Mul,
           Value(Y) \o Recall(1) \o Mul>>,
         AllLayers)

\* Mutant: what has been typed is not taken off the distance.
ArrowPressesUnpaid(register, threshold, step, low, high, below) ==
  Recall(1) \o Push(threshold) \o Op("GT") \o below \o Store(register)
    \o Op("TIME") \o Push(2000) \o Op("MOD") \o Recall(register) \o Mul

\* Register 1 is the distance left to type.
ArrowPresses(register, threshold, step, low, high, below) ==
  Recall(1) \o Push(threshold) \o Op("GT") \o below \o Store(register)
    \o Recall(1) \o Push(step) \o Add \o Clamp(low, high) \o Recall(register) \o Mul
    \o Recall(1) \o Recall(register) \o Do(<<"NOT", "MUL", "ADD">>) \o Store(1)
    \o Op("TIME") \o Push(2000) \o Op("MOD") \o Recall(register) \o Mul

ArrowsByDistance ==
  Config(<<Map(Expr(2), RightArrow, {0}), Map(Expr(3), LeftArrow, {0})>>,
         <<Value(X) \o Times(100) \o Recall(1) \o Add \o Store(1),
           ArrowPresses(2, 1000, -1000, 0, 1000000, << >>),
           ArrowPresses(3, -1000, 1000, -1000000, 0, Negated)>>,
         {})
-----------------------------------------------------------------------------
(* Opposite keys, A and D.                                                 *)

BothKeys(expressions) ==
  Config(<<Map(Expr(1), LetterA, {0}), Map(Expr(2), LetterD, {0})>>, expressions, AllLayers)

Up(usage) == Down(usage) \o Negated
WasUp(usage) == WasDown(usage) \o Negated
JustPressed(usage) == WasUp(usage) \o Down(usage) \o Mul

\* One is down and the other is not.
Alone(usage, opposite) == Down(usage) \o Up(opposite) \o Mul
Neutral == BothKeys(<<Alone(LetterA, LetterD), Alone(LetterD, LetterA)>>)

\* Mutant: the opposite key does not take the priority away.
LatestForever(register, usage, opposite) ==
  Recall(register) \o WasUp(usage) \o BitOr \o Up(opposite) \o BitOr
    \o Down(usage) \o Mul \o Dup \o Store(register)

\* The register remembers that the key is down and has priority.
Latest(register, usage, opposite) ==
  Recall(register) \o WasUp(usage) \o BitOr \o Up(opposite) \o BitOr
    \o JustPressed(opposite) \o Negated \o Mul
    \o Down(usage) \o Mul \o Dup \o Store(register)
LastInputPriority == BothKeys(<<Latest(1, LetterA, LetterD), Latest(2, LetterD, LetterA)>>)

Earliest(register, usage, opposite) ==
  Recall(register) \o Up(opposite) \o BitOr \o Down(usage) \o Mul \o Dup \o Store(register)
FirstInputPriority == BothKeys(<<Earliest(1, LetterA, LetterD), Earliest(2, LetterD, LetterA)>>)
-----------------------------------------------------------------------------
(* Text.                                                                   *)

Keys(first, last) == [n \in 1..last - first + 1 |-> Key(first + n - 1)]
\* All but the modifiers, in the order in which the expression looks at them.
RegularKeys ==
  Keys(\h04, \h2C) \o Keys(\h39, \h39) \o Keys(\h46, \h53) \o Keys(\h2D, \h31) \o Keys(\h33, \h38)
    \o Keys(\h3A, \h45) \o Keys(\h68, \h73) \o Keys(\h54, \h63) \o Keys(\h67, \h67)
    \o Keys(\h64, \h64) \o Keys(\h32, \h32) \o Keys(\h65, \h66) \o Keys(\h87, \h87)
    \o Keys(\h89, \h8B) \o Keys(\h88, \h88) \o Keys(\h90, \h91)

\* Register 32 is on unless a regular key has just been released; modifier n is latched
\* in register n until then.
JustReleased(usage) == Up(usage) \o WasDown(usage) \o Mul
NoneReleased(keys) ==
  Push(0) \o FlattenSeq([i \in DOMAIN keys |-> JustReleased(keys[i]) \o BitOr])
    \o Negated \o Store(32)
Modifier(n) == Key(\hDF + n)
Latch(n) ==
  Recall(n) \o Down(Modifier(n)) \o WasUp(Modifier(n)) \o Mul \o BitOr
    \o Recall(32) \o Mul \o Store(n)
OneShotMappings == [n \in 1..8 |-> Map(Register(n), Modifier(n), {0})]
OneShot(keys) ==
  Config(OneShotMappings, <<NoneReleased(keys), FlattenSeq([n \in 1..8 |-> Latch(n)])>>, AllLayers)

\* Register 32 gathers the keys of a chord as bits, until all are released; chord n is
\* typed by register n.
ChordKeys == <<Space, LetterF, LetterD, LetterS, LetterA>>
\* Mutant: the keys are numbered instead of being bits.
GatherNumbers == FlattenSeq([i \in 1..5 |-> Down(ChordKeys[i]) \o Times(i) \o BitOr])
Gather == FlattenSeq([i \in 1..5 |-> Down(ChordKeys[i]) \o Times(2^(i - 1)) \o BitOr])
AnyOf(readings) == readings[1] \o FlattenSeq([i \in 1..4 |-> readings[i + 1] \o BitOr])
ChordingExpression ==
  Recall(32) \o Gather \o Store(32)
    \o AnyOf([i \in 1..5 |-> WasDown(ChordKeys[i])]) \o AnyOf([i \in 1..5 |-> Down(ChordKeys[i])])
    \o Op("GT")
    \o Dup \o Recall(32) \o Mul \o Store(31)
    \o Negated \o Recall(32) \o Mul \o Store(32)
    \o FlattenSeq([n \in 1..31 |-> Recall(31) \o Eq(n) \o Store(n)])
ChordLetters == [n \in 1..26 |-> Map(Register(n), Letter(n), {0})]
ChordSigns ==
  <<Map(Register(27), Key(\h36), {0}), Map(Register(28), Key(\h37), {0}),
    Map(Register(29), Key(\h33), {0}), Map(Register(30), LeftShift, {0}),
    Map(Register(30), Key(\h38), {0}), Map(Register(31), Space, {0})>>
Chording == Config(ChordLetters \o ChordSigns, <<ChordingExpression>>, 1..7)

\* Register 32 is the selected letter, register n types letter n and register 27 a
\* space; the previous letter is taken back when the wheel turns on.
Moving == Value(Wheel) \o Eq(0) \o Negated
UnlessClicked == FlattenSeq([b \in 1..3 |-> Up(Button(b)) \o Mul])
TypedLetter(n) ==
  Recall(32) \o Eq(IF n = 27 THEN 0 ELSE 1000 * n) \o Recall(31) \o Mul \o Store(n)
SelectLetter ==
  Recall(32) \o Value(Wheel) \o Add \o Push(27000) \o Add \o Push(27000) \o Op("MOD")
    \o UnlessClicked \o Store(32)
TakeBack ==
  Moving \o Store(31) \o Moving \o Recall(29) \o Mul \o Store(28)
    \o Recall(29) \o Moving \o BitOr \o UnlessClicked \o Store(29)
ScrollTypingExpression ==
  TypedLetter(27) \o FlattenSeq([n \in 1..26 |-> TypedLetter(n)]) \o SelectLetter \o TakeBack
ScrollTypingLetters == [n \in 1..26 |-> Map(Register(n), Letter(n), {0})]
ScrollTypingSigns ==
  <<Map(Register(27), Space, {0}), Map(Register(28), Backspace, {0}),
    Map(MiddleButton, Backspace, {0}), Map(RightButton, Enter, {0})>>
ScrollTyping == Config(ScrollTypingLetters \o ScrollTypingSigns, <<ScrollTypingExpression>>, {})
=============================================================================
