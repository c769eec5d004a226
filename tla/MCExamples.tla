----------------------------- MODULE MCExamples -----------------------------
(* The example configurations, each with a few of its inputs, under the    *)
(* evaluation of the firmware.  Which one is in force is chosen at the     *)
(* start; a property is about the ones it names.                           *)
EXTENDS MappingEvaluation, Examples

CONSTANT Limit  \* bound on the distance left to type

Switchable(usages) == [usage \in usages |-> {0, 1}]
Relative(usages) == [usage \in usages |-> {-1, 1}]

Scenario(config, said, threshold, period, most) ==
  [config |-> config, inputs |-> said, threshold |-> threshold, period |-> period, most |-> most]
ByKeys(config, keys) == Scenario(config, Switchable(keys), 0, 2, 0)
ByMouse(config, said) == Scenario(config, said, 0, 2, 1)
ByLock(config) == Scenario(config, Switchable({LeftButton, RightButton}), 2, 2, 0)
\* A period of 600 frames is one round of the blinking light and six of the turbo button.
Timed(config, usage) == Scenario(config, Switchable({usage}), 0, 600, 0)

\* ROT13 with its letters on layer 4 instead of layer 1.
OnLayer4(m) == [m EXCEPT !.layers = IF 1 \in @ THEN {4} ELSE @,
                         !.target = IF @ = Layer(1) THEN Layer(4) ELSE @]
UpperRot13 == [Rot13 EXCEPT !.mappings = [i \in DOMAIN @ |-> OnLayer4(@[i])]]

\* The part of "one shot sticky modifiers" that is about the keys of this keyboard.
Keyboard == {LetterA, LeftCtrl, LeftShift}
Regular == SelectSeq(RegularKeys, LAMBDA key : key \in Keyboard)

RotatedKeys == {CapsLock, Letter(1), Letter(14), Letter(20)}
Buttons == {LeftButton, RightButton, MiddleButton}
KeyScenarios ==
  [rot13 |-> ByKeys(Rot13, RotatedKeys),
   mirror |-> ByKeys(Mirrorboard, {CapsLock, Key(\h1A), Key(\h12), Key(\h2C)}),
   light |-> ByKeys(LightOnLayer1, {LeftShift, LetterA, CapsLockLed}),
   control |-> ByKeys(CapsLockAsControl, {CapsLock, LeftCtrl, LetterA}),
   buttons |-> ByKeys(SwappedButtons, Buttons),
   copy |-> ByKeys(CopyAndPasteButtons, Buttons),
   windows |-> ByKeys(NoWindowsKeys, {LeftGui, RightGui, LetterA}),
   lights |-> ByKeys(SwappedLights, {CapsLockLed, ScrollLockLed}),
   neutral |-> ByKeys(Neutral, {LetterA, LetterD, Space}),
   last |-> ByKeys(LastInputPriority, {LetterA, LetterD, Space}),
   first |-> ByKeys(FirstInputPriority, {LetterA, LetterD, Space}),
   chords |-> ByKeys(Chording, {Space, LetterF, LetterA}),
   shot |-> ByKeys(OneShot(Regular), Keyboard)]
ButtonScenarios ==
  [right |-> ByLock(RightButtonLocks), long |-> ByLock(LongPressLocks),
   any |-> ByLock(AnyClickUnlocks),
   turbo |-> Timed(Turbo, RightButton), blinking |-> Timed(BlinkingLight, CapsLockLed)]
MouseScenarios ==
  [precision |-> ByMouse(PrecisionMode, Relative({X}) @@ Switchable({MiddleButton})),
   turned |-> ByMouse(Rotated90, Relative({X, Y})),
   slanted |-> ByMouse(Rotated30, [usage \in {X} |-> {1}]),
   moving |-> ByMouse(ArrowsAsMouse, Switchable({CapsLock, LeftArrow, RightArrow, RightCtrl})),
   dpi |-> ByMouse(CyclingDpi, Relative({X}) @@ Switchable({MiddleButton})),
   \* The mappings in the other order.
   idp |-> ByMouse([CyclingDpi EXCEPT !.mappings = Reverse(@)],
                  Relative({X}) @@ Switchable({MiddleButton})),
   speed |-> ByMouse(WheelAdjustsDpi, Relative({Wheel})),
   tabs |-> ByMouse(WheelSwitchesTabs, Relative({Wheel}) @@ Switchable({LeftShift})),
   wheel |-> ByMouse(ScrollTyping, Relative({Wheel}) @@ Switchable({LeftButton})),
   distance |-> Scenario(ArrowsByDistance, [usage \in {X} |-> {-11, 11}], 0, 2, 11)]
MCScenarios == KeyScenarios @@ ButtonScenarios @@ MouseScenarios
UpperScenarios == [upper |-> ByKeys(UpperRot13, RotatedKeys)]

\* The keys seen since the last chord was typed.  A switch of protocol leaves the ones it
\* interrupts.
VARIABLE chord

MCInit == Init /\ chord = {}
MCNext ==
  \/ /\ Tick
     /\ loaded = "distance" => Magnitude(registers'[1]) =< Limit
     /\ chord' = IF loaded # "chords" \/ (Seen # {} /\ Seen' = {}) THEN {} ELSE chord \cup Seen'
  \/ Resume /\ chord' = {}
  \/ (Reports \/ SwitchProtocol) /\ UNCHANGED chord
MCSpec == MCInit /\ [][MCNext]_<<vars, chord>>
-----------------------------------------------------------------------------
(* Keys and buttons.                                                       *)

Rotated(letter) == Letter(IF letter[2] - 3 =< 13 THEN letter[2] + 10 ELSE letter[2] - 16)
Mirrored == (Key(\h1A) :> Key(\h12)) @@ (Key(\h12) :> Key(\h12)) @@ (Key(\h2C) :> Key(\h28))
Turn == prev_input_state[Wheel]
Blinks(period, from) == frame_counter % period > from

\* What an input that is on stands for, by what the examples' descriptions say.
ImageOfOne(usage) ==
  CASE loaded = "control" -> {IF usage = CapsLock THEN LeftCtrl ELSE usage}
    [] loaded = "buttons" -> {CASE usage = LeftButton -> RightButton
                                [] usage = RightButton -> LeftButton
                                [] OTHER -> usage}
    [] loaded = "copy" -> (CASE usage = LeftButton -> {usage}
                            [] usage = RightButton -> {LeftCtrl, Letter(22)}
                            [] usage = MiddleButton -> {LeftCtrl, Letter(3)})
    [] loaded = "windows" -> {usage} \ {LeftGui, RightGui}
    [] loaded = "lights" -> {IF usage = CapsLockLed THEN ScrollLockLed ELSE CapsLockLed}
    [] loaded = "rot13" -> IF usage = CapsLock THEN {}
                           ELSE {IF 1 \in layers THEN Rotated(usage) ELSE usage}
    [] loaded = "mirror" -> (CASE ~WasOn(CapsLock) -> {usage}
                              [] WasOn(CapsLock) /\ usage = CapsLock -> {}
                              [] OTHER -> {Mirrored[usage]})
    [] loaded = "light" -> {usage} \ {LeftShift}
    [] loaded = "moving" -> (CASE ~WasOn(CapsLock) -> {usage}
                              [] WasOn(CapsLock) /\ usage = RightCtrl -> {LeftButton}
                              [] OTHER -> {})
    [] loaded = "tabs" -> (CASE usage # Wheel -> {usage}
                            [] usage = Wheel /\ Turn < 0 -> {LeftCtrl, TabKey}
                            [] OTHER -> {LeftCtrl, LeftShift, TabKey})
    [] loaded = "turbo" -> IF Blinks(100, 50) THEN {LeftButton} ELSE {}
    [] loaded = "blinking" -> IF Blinks(600, 200) THEN {CapsLockLed} ELSE {}
Imaged == {"control", "buttons", "copy", "windows", "lights", "rot13", "mirror", "light", "moving",
           "tabs", "turbo", "blinking"}

\* The caps lock light shows the layer.
Lit == IF loaded \in {"rot13", "light"} /\ 1 \in layers THEN {CapsLockLed} ELSE {}

\* What comes out is what the inputs that are on stand for on the layer that is active
\* now, each of them once: nothing goes through both as itself and as another, nothing
\* stays down when the layer changes under it, an output that several inputs are mapped
\* to is on for as long as one of them is, and the key of a layer is not typed.
OutIsTheImage ==
  ran /\ loaded \in Imaged => pressed = Lit \cup UNION {ImageOfOne(usage) : usage \in Seen}

\* "for unmapped passthrough purposes we pretend they are" present on the layer they
\* trigger: the key of a sticky trigger is not typed there.
TriggersAreMapped == CapsLock \notin pressed

Locked == IF loaded = "any" THEN registers[1] # 0 ELSE sticky # {}
Pressing(button) == button \in Seen' \ Seen
Releasing(button) == button \in Seen \ Seen'
Gesture ==
  CASE loaded = "right" -> Pressing(RightButton)
    [] loaded = "long" -> LeftButton \in hold' \ hold
    [] loaded = "any" -> Releasing(LeftButton) /\ (Locked \/ LeftButton \in hold)

\* A drag-lock goes on and off with its gesture and with nothing else, be it a tap,
\* another button or an unlucky moment: a press of the right button; a long press; a long
\* press to engage and any click to disengage, when the button is let go.  While it is on
\* the button is down, whatever is pressed besides; while it is off the button is down
\* only if an input or a tap accounts for it.  (The frame after a switch of protocol,
\* which forgets what is held, is left out.)
LocksByGesture ==
  [][ran /\ ran' /\ loaded \in {"right", "long", "any"} =>
       /\ Locked' # Locked <=> Gesture
       /\ Locked' => LeftButton \in pressed'
       /\ ~Locked' /\ LeftButton \notin Seen' \cup tap' => LeftButton \notin pressed']_vars
-----------------------------------------------------------------------------
(* The opposite keys A and D.                                              *)

Both == {LetterA, LetterD}
Opposite(key) == IF key = LetterA THEN LetterD ELSE LetterA
DownNow == Seen \cap Both
Typed == pressed \cap Both

\* Of two opposite keys never both come out; one that is down alone does, whatever was
\* pressed before; and with both down neither does, or the one pressed last does and the
\* other gets its place back, or the one pressed first keeps its place.
OppositesAreResolved ==
  [][ran /\ ran' /\ loaded \in {"neutral", "last", "first"} =>
       IF DownNow' # Both THEN Typed' = DownNow'
       ELSE CASE DownNow = Both /\ FrameRuns -> Typed' = Typed
              [] DownNow \in {{LetterA}, {LetterD}} ->
                   LET old == CHOOSE key \in DownNow : TRUE
                   IN Typed' = (CASE loaded = "neutral" -> {}
                                 [] loaded = "last" -> {Opposite(old)}
                                 [] loaded = "first" -> {old})
              [] OTHER -> Cardinality(Typed') =< 1]_vars
-----------------------------------------------------------------------------
(* Text.                                                                   *)

Number(keys) == MapThenSumSet(LAMBDA i : 2^(i - 1), {i \in 1..5 : ChordKeys[i] \in keys})
Sign(n) == IF n =< 26 THEN {Letter(n)}
           ELSE {m.target : m \in {t \in Range(ChordSigns) : t.source = Register(n)}}

Modifiers == {Modifier(n) : n \in 1..8}
Latched == {Modifier(n) : n \in {i \in 1..8 : registers[i] # 0}}

Turned == Turn # 0
Selected == IF registers[32] = 0 THEN Space ELSE Letter(registers[32] \div 1000)
Texts == {Letter(n) : n \in 1..26} \cup {Space}

\* A chord is typed once, in the frame in which its last key is let go, and as the chord
\* of all the keys that were down since the one before, in whatever order they came and
\* went; no part of it is typed.  A modifier that was pressed stays down for as long as
\* the next regular key and goes up with it.  The frame after a notch of the wheel types
\* the letter that is selected now, and no other frame types any: no notch is lost,
\* doubled or typed late.  ("5-key chording keyboard", "one shot sticky modifiers" and
\* typing with the wheel)
TextIsTypedOnce ==
  [][FrameRuns =>
       /\ loaded = "chords" =>
            pressed' = IF Seen # {} /\ Seen' = {} THEN Sign(Number(chord)) ELSE {}
       /\ loaded = "shot" =>
            pressed' = Seen' \cup
              (IF (Seen \ Seen') \ Modifiers # {} THEN {}
               ELSE Latched \cup ((Seen' \ Seen) \cap Modifiers))
       /\ loaded = "wheel" /\ ran =>
            pressed' \cap Texts = IF Turned THEN {Selected} ELSE {}]_<<vars, chord>>
-----------------------------------------------------------------------------
(* Movement.                                                               *)

\* What the frame has seen of a relative or a switchable input.
Saw(usage) == prev_input_state[usage]

\* The movement asked for, in thousandths, from what the frame has seen and the layers
\* that are active with it.
Factor ==
  CASE loaded = "precision" -> IF 1 \in layers THEN 250 ELSE 1000
    [] OTHER -> IF 1 \in layers THEN 500 ELSE IF 2 \in layers THEN 250 ELSE 1000
Asked(target) ==
  CASE loaded \in {"precision", "dpi", "idp"} -> Factor * Saw(X)
    [] loaded = "turned" -> IF target = X THEN -1000 * Saw(Y) ELSE 1000 * Saw(X)
    [] loaded = "slanted" -> Saw(X) * IF target = X THEN 866 ELSE -500
    [] loaded = "moving" -> IF target = X /\ 1 \in layers
                            THEN 500 * (Saw(RightArrow) - Saw(LeftArrow)) ELSE 0

\* No movement is lost or made up in rounding, whatever the layers and signs: what a
\* frame sends and what it leaves to the next is what it was asked and what was left.
MovementIsKept ==
  [][FrameRuns /\ loaded \in {"precision", "dpi", "idp", "turned", "slanted", "moving"} =>
       \A target \in DOMAIN moved :
         1000 * moved'[target] + accumulated'[target] = accumulated[target] + Asked(target)']_vars

Speed == IF registers[1] = 0 THEN 1000 ELSE registers[1]

\* The speed changes with the button or the wheel and with nothing else.  A press of the
\* button goes to the next one, once, however long it is held and whatever the order of
\* the mappings.  A notch of the wheel multiplies it and rounds: it stays in its range
\* and always changes, in the notch's direction, unless it is at that end already.
SpeedsAreAsSet ==
  [][FrameRuns =>
       /\ loaded \in {"dpi", "idp"} /\ ran =>
            layers' = IF MiddleButton \in Seen' \ Seen THEN {(n + 1) % 3 : n \in layers}
                      ELSE layers
       /\ loaded = "speed" =>
            /\ Speed' \in 100..10000
            /\ Turn' = 0 => Speed' = Speed
            /\ Turn' = 1 => Speed' > Speed \/ Speed = 10000
            /\ Turn' = -1 => Speed' < Speed \/ Speed = 100]_vars

\* Distance as presses of the arrow keys: never both at once, and every press takes the
\* distance it stands for off what is left, however often the mouse turns around.
PressesAreEarned ==
  [][FrameRuns /\ loaded = "distance" =>
       /\ ~({LeftArrow, RightArrow} \subseteq pressed')
       /\ pressed' \ pressed # {} =>
            Magnitude(registers[1] + 100 * Saw(X)' - registers'[1]) >= 1000]_vars
=============================================================================
