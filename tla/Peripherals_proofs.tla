-------------------------- MODULE Peripherals_proofs --------------------------
(* Proofs about parts around the core that share no state: the pins, for     *)
(* every set of them and every debounce time, the decoder for serial mice,   *)
(* for every loss on the line, and macros, whose entries reach the host in   *)
(* order, each once, for every list of macros, every duration, every size of *)
(* the queue of reports that has room for both reports, and either order in  *)
(* which the send loop takes them.                                           *)
EXTENDS Gpio, SerialMouse, Macros, WellFoundedInduction, FiniteSetTheorems,
        SequenceTheorems, TLAPS

-----------------------------------------------------------------------------
(* The pins.                                                               *)

\* A level that has been there for longer than the time since the last change
\* that was taken is the level that was taken.
OlderIsTaken == \A p \in Pins : age[p] < steady[p] => prev[p] = Sampled(p)

\* Only pins the mappings in force read have been heard of since they came.
HeardAreInputs == heard \subseteq inputs

PinsInv == /\ TypeOK /\ HeardAreInputs
       /\ StateIsTheSwitch /\ InputsAreNotDriven /\ OlderIsTaken
-----------------------------------------------------------------------------
LEMMA SampledType == TypeOK => \A p \in Pins : Sampled(p) \in BOOLEAN
BY DEF TypeOK, Sampled

\* A tick takes the changes of the pins whose window is over, and only those.
LEMMA ReadPin ==
  ASSUME TypeOK, ReadGpio, NEW p \in Pins
  PROVE  \/ /\ prev[p] # Sampled(p) /\ age[p] >= Debounce
            /\ prev'[p] = Sampled(p) /\ age'[p] = 0
         \/ /\ prev[p] = Sampled(p) \/ age[p] < Debounce
            /\ prev'[p] = prev[p] /\ age'[p] = age[p]
<1>1. CASE p \in Accepted
  BY <1>1 DEF ReadGpio, Accepted
<1>2. CASE p \notin Accepted
  <2>1. prev[p] = Sampled(p) \/ age[p] < Debounce
    BY <1>2, DebounceAssumption DEF Accepted, TypeOK
  <2> QED
    BY <1>2, <2>1 DEF ReadGpio
<1> QED
  BY <1>1, <1>2

\* The time a level has lasted starts again when another one is to be read.
LEMMA TimedPin ==
  ASSUME TypeOK, Timed, NEW p \in Pins
  PROVE  \/ Sampled(p)' = Sampled(p) /\ steady'[p] = steady[p]
         \/ steady'[p] = 0
BY DEF Timed

\* Whatever keeps what was taken and its age keeps the relation between them.
LEMMA OlderStaysTaken ==
  ASSUME TypeOK, OlderIsTaken, Timed, UNCHANGED <<prev, age>>
  PROVE  OlderIsTaken'
<1> SUFFICES ASSUME NEW p \in Pins, age'[p] < steady'[p]
             PROVE  prev'[p] = Sampled(p)'
  BY DEF OlderIsTaken
<1>1. age[p] \in Nat
  BY DebounceAssumption DEF TypeOK
<1>2. CASE Sampled(p)' = Sampled(p) /\ steady'[p] = steady[p]
  BY <1>2 DEF OlderIsTaken
<1>3. CASE steady'[p] = 0
  BY <1>1, <1>3
<1> QED
  BY <1>2, <1>3, TimedPin
-----------------------------------------------------------------------------
LEMMA Initially == Init => PinsInv
<1> SUFFICES ASSUME Init PROVE PinsInv
  OBVIOUS
<1>1. TypeOK
  <2>1. 0 \in 0 .. Debounce
    BY DebounceAssumption
  <2> QED
    BY <2>1 DEF Init, TypeOK
<1>2. OlderIsTaken
  BY DEF Init, OlderIsTaken
<1> QED
  BY <1>1, <1>2 DEF PinsInv, Init, HeardAreInputs, StateIsTheSwitch, InputsAreNotDriven

LEMMA TypeStep == TypeOK /\ [Next]_vars => TypeOK'
<1> SUFFICES ASSUME TypeOK, [Next]_vars PROVE TypeOK'
  OBVIOUS
<1> USE DebounceAssumption
<1>0. Timed => steady' \in [Pins -> 0 .. Debounce]
  BY DEF Timed, TypeOK
<1>1. ASSUME NEW p \in Pins, Switch(p) PROVE TypeOK'
  BY <1>0, <1>1 DEF Switch, TypeOK
<1>2. CASE TimePasses
  BY <1>2 DEF TimePasses, TypeOK, Later
<1>3. CASE Tick
  <2>1. prev' \in [Pins -> BOOLEAN]
    BY <1>3, SampledType DEF Tick, ReadGpio, TypeOK
  <2>2. /\ age' \in [Pins -> 0 .. Debounce] /\ state' \in [Pins -> {0, 1}]
        /\ heard' \subseteq Pins
    BY <1>3 DEF Tick, ReadGpio, TypeOK, Accepted
  <2>3. put' \in [Pins -> BOOLEAN] /\ out' \subseteq Pins
    BY <1>3 DEF Tick, WriteGpio, TypeOK, OutMask
  <2> QED
    BY <1>0, <1>3, <2>1, <2>2, <2>3 DEF Tick, TypeOK
<1>4. CASE Suspend
  BY <1>4 DEF Suspend, TypeOK
<1>5. ASSUME NEW silent \in BOOLEAN, SetMapping(silent)
      PROVE  /\ out' \subseteq Pins /\ inputs' \subseteq Pins /\ outputs' \subseteq Pins
             /\ state' \in [Pins -> {0, 1}] /\ heard' \subseteq Pins
             /\ pending' \in BOOLEAN
  BY <1>5 DEF SetMapping, TypeOK
<1>6. CASE Resume
  BY <1>0, <1>5, <1>6 DEF Resume, TypeOK
<1>7. CASE SwitchProtocol
  <2>1. suspended \in BOOLEAN /\ SetMapping(suspended)
    BY <1>7 DEF SwitchProtocol, TypeOK
  <2> QED
    BY <1>0, <1>5, <1>7, <2>1 DEF SwitchProtocol, TypeOK
<1>8. CASE SetMode
  BY <1>8 DEF SetMode, TypeOK
<1>9. CASE UNCHANGED vars
  BY <1>9 DEF vars, TypeOK
<1> QED
  BY <1>1, <1>2, <1>3, <1>4, <1>6, <1>7, <1>8, <1>9 DEF Next

LEMMA TimedStep == TypeOK /\ OlderIsTaken /\ [Next]_vars => OlderIsTaken'
<1> SUFFICES ASSUME TypeOK, OlderIsTaken, [Next]_vars PROVE OlderIsTaken'
  OBVIOUS
<1>1. ASSUME NEW p \in Pins, Switch(p) PROVE OlderIsTaken'
  BY <1>1, OlderStaysTaken DEF Switch
<1>2. CASE TimePasses
  <2> SUFFICES ASSUME NEW p \in Pins, age'[p] < steady'[p]
               PROVE  prev'[p] = Sampled(p)'
    BY DEF OlderIsTaken
  <2>1. Sampled(p)' = Sampled(p) /\ prev' = prev
    BY <1>2 DEF TimePasses, Sampled, InMask, OutMask
  <2>2. age[p] < steady[p]
    BY <1>2, DebounceAssumption DEF TimePasses, TypeOK, Later
  <2> QED
    BY <2>1, <2>2 DEF OlderIsTaken
<1>3. CASE Tick
  <2> SUFFICES ASSUME NEW p \in Pins, age'[p] < steady'[p]
               PROVE  prev'[p] = Sampled(p)'
    BY DEF OlderIsTaken
  <2>1. ReadGpio /\ Timed
    BY <1>3 DEF Tick
  <2>2. age[p] \in Nat /\ age'[p] \in Nat
    BY <2>1, ReadPin, DebounceAssumption DEF TypeOK
  <2>3. Sampled(p)' = Sampled(p) /\ steady'[p] = steady[p]
    BY <2>1, <2>2, TimedPin
  <2>4. prev'[p] = Sampled(p)
    BY <2>1, <2>3, ReadPin DEF OlderIsTaken
  <2> QED
    BY <2>3, <2>4
<1>4. CASE Resume \/ SwitchProtocol
  BY <1>4, OlderStaysTaken DEF Resume, SwitchProtocol
<1>5. CASE Suspend \/ SetMode \/ UNCHANGED vars
  BY <1>5 DEF Suspend, SetMode, vars, OlderIsTaken, Sampled, InMask, OutMask
<1> QED
  BY <1>1, <1>2, <1>3, <1>4, <1>5 DEF Next

LEMMA HeardStep == HeardAreInputs /\ [Next]_vars => HeardAreInputs'
BY DEF HeardAreInputs, Next, vars, Switch, TimePasses, Tick, ReadGpio, Suspend,
       Resume, SwitchProtocol, SetMode, SetMapping

LEMMA StateStep ==
  TypeOK /\ HeardAreInputs /\ StateIsTheSwitch /\ [Next]_vars => StateIsTheSwitch'
<1> SUFFICES ASSUME TypeOK, HeardAreInputs, StateIsTheSwitch, [Next]_vars
             PROVE  StateIsTheSwitch'
  OBVIOUS
<1>1. CASE Tick
  <2> SUFFICES ASSUME NEW p \in Pins, p \in heard'
               PROVE  state'[p] = IF prev'[p] THEN 0 ELSE 1
    BY <1>1 DEF StateIsTheSwitch, Tick, ReadGpio, Accepted, TypeOK
  <2>1. CASE p \in Accepted \cap inputs
    BY <1>1, <2>1 DEF Tick, ReadGpio
  <2>2. p \in inputs
    BY <1>1 DEF Tick, ReadGpio, HeardAreInputs
  <2>3. CASE p \notin Accepted
    BY <1>1, <2>3 DEF Tick, ReadGpio, StateIsTheSwitch
  <2> QED
    BY <2>1, <2>2, <2>3
<1>2. CASE Resume \/ SwitchProtocol
  BY <1>2 DEF Resume, SwitchProtocol, SetMapping, StateIsTheSwitch
<1>3. CASE TimePasses \/ Suspend \/ SetMode \/ UNCHANGED vars \/ \E p \in Pins : Switch(p)
  BY <1>3 DEF TimePasses, Suspend, SetMode, Switch, vars, StateIsTheSwitch
<1> QED
  BY <1>1, <1>2, <1>3 DEF Next

LEMMA DirectionStep ==
  TypeOK /\ InputsAreNotDriven /\ [Next]_vars => InputsAreNotDriven'
<1> SUFFICES ASSUME TypeOK, InputsAreNotDriven, [Next]_vars PROVE InputsAreNotDriven'
  OBVIOUS
<1>1. CASE Tick
  <2>1. InMask' = InMask /\ suspended' = suspended
    BY <1>1 DEF Tick, InMask, OutMask
  <2>2. suspended \/ out' \subseteq out \cup OutMask
    BY <1>1 DEF Tick, WriteGpio
  <2> QED
    BY <1>1, <2>1, <2>2 DEF InputsAreNotDriven, InMask, Tick
<1>2. CASE Resume
  BY <1>2 DEF Resume, SetMapping, InputsAreNotDriven
<1>3. CASE SwitchProtocol
  BY <1>3 DEF SwitchProtocol, SetMapping, InputsAreNotDriven, TypeOK
<1>4. CASE TimePasses \/ Suspend \/ SetMode \/ UNCHANGED vars \/ \E p \in Pins : Switch(p)
  BY <1>4 DEF TimePasses, Suspend, SetMode, Switch, vars, InputsAreNotDriven,
              InMask, OutMask
<1> QED
  BY <1>1, <1>2, <1>3, <1>4 DEF Next

THEOREM Correct == Spec => []PinsInv
<1>1. PinsInv /\ [Next]_vars => PinsInv'
  BY TypeStep, HeardStep, TimedStep, StateStep, DirectionStep DEF PinsInv
<1> QED
  BY <1>1, Initially, PTL DEF Spec
-----------------------------------------------------------------------------
\* What is read is debounced without being lost, for every debounce time: a
\* level that has lasted that long is taken over by the next tick.
THEOREM LevelsAreTaken == Spec => SteadyLevelIsTaken
<1>1. ASSUME PinsInv, Tick, NEW p \in Pins, steady[p] >= Debounce
      PROVE  prev'[p] = Sampled(p)
  <2>1. TypeOK /\ OlderIsTaken /\ ReadGpio
    BY <1>1 DEF PinsInv, Tick
  <2>2. age[p] \in 0 .. Debounce /\ steady[p] \in 0 .. Debounce
    BY <2>1 DEF TypeOK
  <2>3. CASE age[p] < Debounce
    BY <1>1, <2>1, <2>2, <2>3, ReadPin, DebounceAssumption DEF OlderIsTaken
  <2>4. CASE age[p] >= Debounce
    BY <2>1, <2>2, <2>4, ReadPin, DebounceAssumption
  <2> QED
    BY <2>2, <2>3, <2>4, DebounceAssumption
<1>2. PinsInv /\ [Next]_vars
        => [Tick => \A p \in Pins : steady[p] >= Debounce => prev'[p] = Sampled(p)]_vars
  BY <1>1
<1> QED
  BY <1>2, Correct, PTL DEF Spec, SteadyLevelIsTaken

\* Once a pin has been heard of, the mappings see its switch.
THEOREM StateFollows == Spec => []StateIsTheSwitch
BY Correct, PTL DEF PinsInv

\* No input is driven while the program runs.
THEOREM NoInputIsDriven == Spec => []InputsAreNotDriven
BY Correct, PTL DEF PinsInv

\* The variables keep their types.
THEOREM TypeIsKept == Spec => []TypeOK
BY Correct, PTL DEF PinsInv
-----------------------------------------------------------------------------
(* The decoder for serial mice.                                            *)

\* What is still to come of a packet behind its third byte.
Rest == IF Trailing THEN <<Data(FALSE)>> ELSE << >>

FirstOf(low) == [sync |-> TRUE, left |-> mouse.left, right |-> mouse.right, low |-> low]

\* The packet has been told of.
Understood == /\ report.buttons.left = mouse.left
              /\ report.buttons.right = mouse.right
              /\ report.moved = moved

\* How far a packet of which no byte got lost has come: all of it is on its
\* way, or one, two, three or all bytes have been read, and what was read of
\* buttons and movement is what was sent.  Nothing is asked of byte_number
\* before the first byte: that is what the bit of its own is for.
Progress ==
  \/ \E low, x, y \in BOOLEAN :
       /\ packet = <<FirstOf(low), Data(x), Data(y)>> \o Rest
       /\ moved = (low \/ x \/ y)
  \/ \E x, y \in BOOLEAN :
       /\ packet = <<Data(x), Data(y)>> \o Rest
       /\ byte_number = 0 /\ new_left = mouse.left /\ new_right = mouse.right
       /\ moved = (delta \/ x \/ y)
  \/ \E y \in BOOLEAN :
       /\ packet = <<Data(y)>> \o Rest
       /\ byte_number = 1 /\ new_left = mouse.left /\ new_right = mouse.right
       /\ moved = (delta \/ y)
  \/ packet = Rest /\ byte_number = None /\ Understood
  \/ packet = << >> /\ Understood

DecoderInv == whole => Progress

LEMMA Tails ==
  ASSUME NEW a, NEW b, NEW c
  PROVE  /\ Head(<<a, b, c>> \o Rest) = a /\ Tail(<<a, b, c>> \o Rest) = <<b, c>> \o Rest
         /\ Head(<<b, c>> \o Rest) = b /\ Tail(<<b, c>> \o Rest) = <<c>> \o Rest
         /\ Head(<<c>> \o Rest) = c /\ Tail(<<c>> \o Rest) = Rest
         /\ <<a, b, c>> \o Rest # << >> /\ <<b, c>> \o Rest # << >>
         /\ <<c>> \o Rest # << >>
         /\ Rest # << >> => Head(Rest) = Data(FALSE) /\ Tail(Rest) = << >>
<1>1. CASE Trailing
  <2> DEFINE d == Data(FALSE)  S == {a, b, c, d}
  <2>1. Rest = <<d>>
    BY <1>1 DEF Rest
  <2>2. /\ <<a, b, c>> \in Seq(S) /\ <<b, c>> \in Seq(S) /\ <<c>> \in Seq(S)
        /\ << >> \in Seq(S) /\ d \in S
    BY DEF Data
  <2>3. /\ Head(<<a, b, c>>) = a /\ Tail(<<a, b, c>>) = <<b, c>> /\ <<a, b, c>> # << >>
        /\ Head(<<b, c>>) = b /\ Tail(<<b, c>>) = <<c>> /\ <<b, c>> # << >>
        /\ Head(<<c>>) = c /\ Tail(<<c>>) = << >> /\ <<c>> # << >>
    OBVIOUS
  <2> HIDE DEF d, S
  <2>4. ASSUME NEW s \in Seq(S) PROVE s \o Rest = Append(s, d)
    BY <2>1, <2>2, AppendIsConcat
  <2>5. ASSUME NEW s \in Seq(S), s # << >>
        PROVE  /\ Head(s \o Rest) = Head(s) /\ s \o Rest # << >>
               /\ Tail(s \o Rest) = Append(Tail(s), d)
    BY <2>2, <2>4, <2>5, HeadTailAppend, AppendProperties
  <2>6. /\ Append(<<b, c>>, d) = <<b, c>> \o Rest
        /\ Append(<<c>>, d) = <<c>> \o Rest
        /\ Append(<< >>, d) = Rest
    BY <2>1, <2>2, <2>4
  <2>7. Head(Rest) = d /\ Tail(Rest) = << >>
    BY <2>1
  <2> QED
    BY <2>2, <2>3, <2>5, <2>6, <2>7 DEF d
<1>2. CASE ~Trailing
  BY <1>2 DEF Rest
<1> QED
  BY <1>1, <1>2

LEMMA DecoderInitially == SerialInit => DecoderInv
<1>1. SerialInit => packet = << >>
  BY DEF SerialInit
<1>2. ASSUME SerialInit PROVE Understood
  <2>1. /\ report.buttons = mouse
        /\ report.moved = FALSE /\ moved = FALSE
    BY <1>2, Zenon DEF SerialInit
  <2> QED
    BY <2>1 DEF Understood
<1> QED
  BY <1>1, <1>2 DEF DecoderInv, Progress

\* A byte that is read brings a whole packet one step further.
LEMMA ByteProgresses ==
  ASSUME Progress, ReadReport
  PROVE  Progress'
<1> DEFINE c == Head(packet)
<1>1. /\ packet # << >> /\ packet' = Tail(packet)
      /\ mouse' = mouse /\ moved' = moved
      /\ FirstByte(c) \/ SecondByte(c) \/ ThirdByte(c)
  BY DEF ReadReport
<1>2. ASSUME NEW low \in BOOLEAN, NEW x \in BOOLEAN, NEW y \in BOOLEAN,
             packet = <<FirstOf(low), Data(x), Data(y)>> \o Rest,
             moved = (low \/ x \/ y)
      PROVE  Progress'
  <2>1. c = FirstOf(low) /\ packet' = <<Data(x), Data(y)>> \o Rest
    BY <1>1, <1>2, Tails
  <2>2. Number(c) = 0
    BY <2>1 DEF Number, FirstOf
  <2>3. /\ byte_number' = 0 /\ new_left' = mouse.left /\ new_right' = mouse.right
        /\ delta' = low
    BY <1>1, <2>1, <2>2 DEF FirstByte, SecondByte, ThirdByte, FirstOf
  <2> QED
    BY <1>1, <1>2, <2>1, <2>3 DEF Progress, Rest, Data
<1>3. ASSUME NEW x \in BOOLEAN, NEW y \in BOOLEAN,
             packet = <<Data(x), Data(y)>> \o Rest, byte_number = 0,
             new_left = mouse.left, new_right = mouse.right, moved = (delta \/ x \/ y)
      PROVE  Progress'
  <2>1. c = Data(x) /\ packet' = <<Data(y)>> \o Rest
    BY <1>1, <1>3, Tails
  <2>2. Number(c) = 1
    BY <1>3, <2>1 DEF Number, Data
  <2>3. /\ byte_number' = 1 /\ new_left' = mouse.left /\ new_right' = mouse.right
        /\ delta' = (delta \/ x)
    BY <1>1, <1>3, <2>1, <2>2 DEF FirstByte, SecondByte, ThirdByte, Data
  <2> QED
    BY <1>1, <1>3, <2>1, <2>3 DEF Progress, Rest, Data
<1>4. ASSUME NEW y \in BOOLEAN,
             packet = <<Data(y)>> \o Rest, byte_number = 1,
             new_left = mouse.left, new_right = mouse.right, moved = (delta \/ y)
      PROVE  Progress'
  <2>1. c = Data(y) /\ packet' = Rest
    BY <1>1, <1>4, Tails
  <2>2. Number(c) = 2
    BY <1>4, <2>1 DEF Number, Data
  <2>3. /\ byte_number' = None
        /\ report'.buttons.left = mouse.left /\ report'.buttons.right = mouse.right
        /\ report'.moved = moved
    BY <1>1, <1>4, <2>1, <2>2 DEF FirstByte, SecondByte, ThirdByte, Data
  <2> QED
    BY <1>1, <2>1, <2>3 DEF Progress, Rest, Data, Understood
<1>5. ASSUME packet = Rest, byte_number = None, Understood
      PROVE  Progress'
  <2>1. c = Data(FALSE) /\ packet' = << >>
    BY <1>1, <1>5, Tails
  <2>2. Number(c) = 0
    BY <1>5, <2>1 DEF Number, Data, None
  <2>3. report' = report
    BY <1>1, <2>2 DEF FirstByte, SecondByte, ThirdByte
  <2> QED
    BY <1>1, <1>5, <2>1, <2>3 DEF Progress, Understood
<1> QED
  BY <1>1, <1>2, <1>3, <1>4, <1>5 DEF Progress

LEMMA DecoderStep == DecoderInv /\ [SerialNext]_serial => DecoderInv'
<1> SUFFICES ASSUME DecoderInv, [SerialNext]_serial, whole' PROVE Progress'
  BY DEF DecoderInv
<1>1. CASE MouseReports
  <2>1. PICK now \in Buttons, low \in BOOLEAN, x \in BOOLEAN, y \in BOOLEAN :
           /\ now # mouse \/ low \/ x \/ y
           /\ now.middle # mouse.middle =>
                now.left = mouse.left /\ now.right = mouse.right /\ ~low /\ ~x /\ ~y
           /\ mouse' = now
           /\ moved' = (low \/ x \/ y)
           /\ packet' = <<[sync |-> TRUE, left |-> now.left, right |-> now.right,
                           low |-> low], Data(x), Data(y)>>
                        \o IF Trailing THEN <<Data(FALSE)>> ELSE << >>
    BY <1>1, Zenon DEF MouseReports
  <2>2. FirstOf(low)' = [sync |-> TRUE, left |-> now.left, right |-> now.right, low |-> low]
    BY <2>1 DEF FirstOf
  <2>3. packet' = <<FirstOf(low)', Data(x), Data(y)>> \o Rest
    BY <2>1, <2>2, Zenon DEF Rest
  <2>4. \E l, a, b \in BOOLEAN : /\ packet' = <<FirstOf(l)', Data(a), Data(b)>> \o Rest
                                 /\ moved' = (l \/ a \/ b)
    BY <2>1, <2>3, Zenon
  <2> QED
    BY <2>4, Zenon DEF Progress
<1>2. CASE Lose
  BY <1>2 DEF Lose
<1>3. CASE ReadReport
  BY <1>3, ByteProgresses DEF DecoderInv, ReadReport
<1>4. CASE UNCHANGED serial
  BY <1>4 DEF serial, decoder, DecoderInv, Progress, FirstOf, Understood, Rest, Data
<1> QED
  BY <1>1, <1>2, <1>3, <1>4 DEF SerialNext

\* Whatever was lost before and wherever the decoder stood, a packet that
\* arrives whole tells the left and the right button and the movement it was
\* sent with, on lines with and without a fourth byte.
THEOREM WholePacketsTell == SerialSpec => []WholePacketsAreUnderstood
<1>1. DecoderInv => WholePacketsAreUnderstood
  <2> SUFFICES ASSUME Progress, packet = << >> PROVE Understood
    BY DEF DecoderInv, WholePacketsAreUnderstood, Understood
  <2>1. ASSUME NEW a, NEW b, NEW c
        PROVE  <<a, b, c>> \o Rest # << >> /\ <<b, c>> \o Rest # << >> /\ <<c>> \o Rest # << >>
    BY Tails
  <2> QED
    BY <2>1 DEF Progress
<1> QED
  BY <1>1, DecoderInitially, DecoderStep, PTL DEF SerialSpec
-----------------------------------------------------------------------------
(* Macros.  The invariant: how what waits in the two queues accounts for    *)
(* what the host has still to see.                                          *)

\* The keys of macros in a report.
Mk(r) == r \cap MacroKeys

Entry == [left : Nat, items : SUBSET MacroKeys]
Reports == (SUBSET AllKeys) \cup {Moved}
Displays == Seq(SUBSET MacroKeys) \ {<< >>}

\* Report r takes the host from what is at k of display d to what is at l.
Moves(r, k, d, l) ==
  IF r = Moved THEN l = k ELSE l \in {k, k + 1} /\ d[l] = Mk(r)

\* The reports s, one after the other, take it from a to b.
Tells(s, a, d, b) ==
  \E f \in [0 .. Len(s) -> a .. b] :
    /\ f[0] = a /\ f[Len(s)] = b
    /\ \A i \in 1 .. Len(s) : Moves(s[i], f[i - 1], d, f[i])

\* Nothing in d only repeats what is before it.
Distinct(d) == \A j \in 1 .. Len(d) - 1 : d[j] # d[j + 1]

\* The keys of the entries that wait, as reports.
Waiting(entries) == [j \in 1 .. Len(entries) |-> entries[j].items]

\* The queue takes the host from what it sees to the keys queued last, and the
\* entries that wait take it from there to the end of what it is to see.
Accounted ==
  /\ display[1] = Mk(view)
  /\ \E k \in 1 .. Len(display) :
       /\ display[k] = Mk(prev_keys)
       /\ Tells(queue, 1, display, k)
       /\ Tells(Waiting(macro_queue), k, display, Len(display))

\* What an overflow left in the report is of the entry in front.
KeysOfFront == Mk(keys) \subseteq Items(macro_queue)

MacrosType ==
  /\ keys_first \in BOOLEAN /\ macro_queue \in Seq(Entry)
  /\ held \in SUBSET Keys /\ keys \in SUBSET AllKeys /\ movement \in BOOLEAN
  /\ prev_keys \in SUBSET AllKeys
  /\ queue \in Seq(Reports) /\ Len(queue) <= Capacity
  /\ view \in SUBSET AllKeys /\ display \in Displays

MacrosInv == MacrosType /\ KeysOfFront /\ Distinct(display) /\ Accounted
-----------------------------------------------------------------------------
(* Sequences without repetitions.                                          *)

\* A set of numbers has a least one.
LEMMA LeastNumber ==
  ASSUME NEW T \in SUBSET Nat, T # {}
  PROVE  \E n \in T : \A m \in T : n <= m
<1> DEFINE Below == {ss \in Nat \X Nat : ss[1] < ss[2]}
<1>1. IsWellFoundedOn(Below, Nat)
  BY NatLessThanWellFounded DEF OpToRel
<1>2. \A i, j \in Nat : i < j => <<i, j>> \in Below
  OBVIOUS
<1> HIDE DEF Below
<1>3. PICK n \in T : \A m \in T : ~(<<m, n>> \in Below)
  BY <1>1, WFMin
<1>4. ASSUME NEW m \in T PROVE n <= m
  <2>1. n \in Nat /\ m \in Nat
    OBVIOUS
  <2>2. ~(m < n)
    BY <1>2, <1>3, <2>1
  <2> QED
    BY <2>1, <2>2
<1> QED
  BY <1>4

\* The places of s that differ from the one before, and how many of them there
\* are up to k.
Own(s) == {k \in 1 .. Len(s) : k > 1 => s[k] # s[k - 1]}
Rank(s, k) == Cardinality(Own(s) \cap (1 .. k))

\* Each number up to that of all of them is the rank of one.
Ranked(s) == \A n \in 1 .. Cardinality(Own(s)) : \E k \in Own(s) : Rank(s, k) = n

LEMMA OwnType ==
  ASSUME NEW S, NEW s \in Seq(S)
  PROVE  /\ IsFiniteSet(Own(s)) /\ Own(s) \subseteq 1 .. Len(s)
         /\ Cardinality(Own(s)) \in Nat
         /\ \A k : IsFiniteSet(Own(s) \cap (1 .. k)) /\ Rank(s, k) \in Nat
<1>1. Len(s) \in Nat /\ Own(s) \subseteq 1 .. Len(s)
  BY LenProperties DEF Own
<1>2. IsFiniteSet(1 .. Len(s))
  BY <1>1, FS_Interval
<1>3. IsFiniteSet(Own(s))
  BY <1>1, <1>2, FS_Subset
<1>4. ASSUME NEW k PROVE IsFiniteSet(Own(s) \cap (1 .. k))
  BY <1>3, FS_Subset
<1> QED
  BY <1>1, <1>3, <1>4, FS_CardinalityType DEF Rank

LEMMA RanksDiffer ==
  ASSUME NEW S, NEW s \in Seq(S), NEW j \in Own(s), NEW k \in Own(s), j < k
  PROVE  Rank(s, j) < Rank(s, k)
<1> DEFINE A == Own(s) \cap (1 .. j)  B == Own(s) \cap (1 .. k)
<1>1. j \in Nat /\ k \in Nat /\ k >= 1
  BY OwnType, LenProperties
<1>2. A \subseteq B /\ k \in B /\ k \notin A
  BY <1>1
<1>3. IsFiniteSet(A) /\ IsFiniteSet(B) /\ Rank(s, j) = Cardinality(A)
      /\ Rank(s, k) = Cardinality(B) /\ Rank(s, j) \in Nat /\ Rank(s, k) \in Nat
  BY OwnType DEF Rank
<1> HIDE DEF A, B
<1>4. Cardinality(A) <= Cardinality(B) /\ (Cardinality(B) = Cardinality(A) => B = A)
  BY <1>2, <1>3, FS_Subset
<1> QED
  BY <1>2, <1>3, <1>4

\* The element of rank n.
LEMMA SqueezedAt ==
  ASSUME NEW S, NEW s \in Seq(S), NEW n \in 1 .. Cardinality(Own(s)),
         NEW k \in Own(s), Rank(s, k) = n
  PROVE  Squeezed(s)[n] = s[k]
<1> DEFINE c == CHOOSE i \in Own(s) : Rank(s, i) = n
<1>1. c \in Own(s) /\ Rank(s, c) = n
  OBVIOUS
<1>2. Squeezed(s)[n] = s[c]
  BY Zenon DEF Squeezed, Own, Rank
<1> HIDE DEF c
<1>3. c \in Nat /\ k \in Nat
  BY <1>1, OwnType, LenProperties
<1>4. ~(c < k) /\ ~(k < c)
  BY <1>1, <1>3, RanksDiffer, OwnType
<1> QED
  BY <1>2, <1>3, <1>4

LEMMA SqueezedIs ==
  ASSUME NEW S, NEW s \in Seq(S), Ranked(s)
  PROVE  Squeezed(s) \in Seq(S) /\ Len(Squeezed(s)) = Cardinality(Own(s))
<1> DEFINE N == Cardinality(Own(s))  e == Squeezed(s)
<1>1. N \in Nat
  BY OwnType
<1>2. DOMAIN e = 1 .. N /\ e = [n \in 1 .. N |-> e[n]]
  BY DEF Squeezed, Own
<1>3. ASSUME NEW n \in 1 .. N PROVE e[n] \in S
  <2>1. PICK k \in Own(s) : Rank(s, k) = n
    BY DEF Ranked
  <2>2. e[n] = s[k] /\ k \in 1 .. Len(s)
    BY <2>1, SqueezedAt, OwnType
  <2> QED
    BY <2>2, ElementOfSeq
<1> HIDE DEF e, N
<1>4. e \in [1 .. N -> S]
  BY <1>2, <1>3
<1> QED
  BY <1>1, <1>4 DEF e, N

\* An element more at the end counts if it differs from the one before it.
LEMMA OwnAppend ==
  ASSUME NEW S, NEW s \in Seq(S), NEW x \in S
  PROVE  /\ Own(Append(s, x)) =
              IF s # << >> /\ x = s[Len(s)] THEN Own(s) ELSE Own(s) \cup {Len(s) + 1}
         /\ \A k \in 1 .. Len(s) : Rank(Append(s, x), k) = Rank(s, k)
<1> DEFINE t == Append(s, x)
<1>1. /\ Len(s) \in Nat /\ Len(t) = Len(s) + 1 /\ t[Len(s) + 1] = x
      /\ \A i \in 1 .. Len(s) : t[i] = s[i]
  BY LenProperties, AppendProperties
<1>2. s = << >> <=> Len(s) = 0
  BY EmptySeq
<1> HIDE DEF t
<1>3. ASSUME NEW k \in 1 .. Len(s) PROVE k \in Own(t) <=> k \in Own(s)
  <2>1. k > 1 => t[k - 1] = s[k - 1]
    BY <1>1
  <2> QED
    BY <1>1, <2>1 DEF Own
<1>4. Len(s) + 1 \in Own(t) <=> ~(s # << >> /\ x = s[Len(s)])
  <2>1. CASE Len(s) = 0
    BY <1>1, <1>2, <2>1 DEF Own
  <2>2. CASE Len(s) > 0
    <3>1. t[Len(s) + 1 - 1] = s[Len(s)]
      BY <1>1, <2>2
    <3> QED
      BY <1>1, <1>2, <2>2, <3>1 DEF Own
  <2> QED
    BY <1>1, <2>1, <2>2
<1>5. Own(t) \subseteq 1 .. Len(s) + 1 /\ Own(s) \subseteq 1 .. Len(s)
  BY <1>1 DEF Own
<1> DEFINE repeats == s # << >> /\ x = s[Len(s)]
<1> HIDE DEF repeats
<1>6. Own(t) = IF repeats THEN Own(s) ELSE Own(s) \cup {Len(s) + 1}
  <2>1. \A k \in 1 .. Len(s) + 1 : k \in 1 .. Len(s) \/ k = Len(s) + 1
    BY <1>1
  <2>2. \A k : k \in Own(t) <=> k \in Own(s) \/ (k = Len(s) + 1 /\ ~repeats)
    BY <1>3, <1>4, <1>5, <2>1, Zenon DEF repeats
  <2>3. CASE repeats
    <3>1. \A k : k \in Own(t) <=> k \in Own(s)
      BY <2>2, <2>3
    <3>2. Own(t) = Own(s)
      BY ONLY <3>1
    <3> QED
      BY <2>3, <3>2
  <2>4. CASE ~repeats
    <3>1. \A k : k \in Own(t) <=> k \in Own(s) \cup {Len(s) + 1}
      BY <2>2, <2>4
    <3>2. Own(t) = Own(s) \cup {Len(s) + 1}
      BY ONLY <3>1
    <3> QED
      BY <2>4, <3>2
  <2> QED
    BY <2>3, <2>4
<1>7. ASSUME NEW k \in 1 .. Len(s) PROVE Rank(t, k) = Rank(s, k)
  <2>1. Own(t) \cap (1 .. k) = Own(s) \cap (1 .. k)
    BY <1>1, <1>3, <1>5
  <2> QED
    BY <2>1 DEF Rank
<1> QED
  BY <1>6, <1>7 DEF t, repeats

\* It repeats the one before it and is left out, or comes at the end.
LEMMA SqueezedAppend ==
  ASSUME NEW S, NEW s \in Seq(S), Ranked(s), NEW x \in S
  PROVE  /\ Ranked(Append(s, x))
         /\ s # << >> /\ x = s[Len(s)] => Squeezed(Append(s, x)) = Squeezed(s)
         /\ ~(s # << >> /\ x = s[Len(s)]) =>
              Squeezed(Append(s, x)) = Append(Squeezed(s), x)
<1> DEFINE t == Append(s, x)  N == Cardinality(Own(s))  M == Cardinality(Own(t))
           repeats == s # << >> /\ x = s[Len(s)]
<1>1. /\ t \in Seq(S) /\ Len(s) \in Nat /\ Len(t) = Len(s) + 1 /\ t[Len(s) + 1] = x
      /\ \A i \in 1 .. Len(s) : t[i] = s[i]
  BY LenProperties, AppendProperties
<1>2. /\ Own(t) = IF repeats THEN Own(s) ELSE Own(s) \cup {Len(s) + 1}
      /\ \A k \in 1 .. Len(s) : Rank(t, k) = Rank(s, k)
  BY OwnAppend
<1>3. Own(s) \subseteq 1 .. Len(s) /\ IsFiniteSet(Own(s)) /\ N \in Nat
  BY OwnType
<1> HIDE DEF t, N, M, repeats
<1>4. M = (IF repeats THEN N ELSE N + 1) /\ M \in Nat
  <2>1. CASE repeats
    BY <1>2, <1>3, <2>1 DEF M, N
  <2>2. CASE ~repeats
    <3>1. Len(s) + 1 \notin Own(s)
      BY <1>1, <1>3
    <3>2. Cardinality(Own(s) \cup {Len(s) + 1}) = Cardinality(Own(s)) + 1
      BY <1>3, <3>1, FS_AddElement
    <3>3. Own(t) = Own(s) \cup {Len(s) + 1}
      BY <1>2, <2>2
    <3>4. M = N + 1
      BY <3>2, <3>3 DEF M, N
    <3> QED
      BY <1>3, <2>2, <3>4
  <2> QED
    BY <2>1, <2>2
<1>5. ASSUME NEW n \in 1 .. N
      PROVE  /\ \E k \in Own(t) : Rank(t, k) = n
             /\ Squeezed(t)[n] = Squeezed(s)[n]
  <2>1. PICK k \in Own(s) : Rank(s, k) = n
    BY DEF Ranked, N
  <2>2. k \in 1 .. Len(s) /\ k \in Own(t)
    BY <1>2, <1>3, <2>1
  <2>3. Rank(t, k) = n /\ t[k] = s[k] /\ n \in 1 .. M
    BY <1>1, <1>2, <1>3, <1>4, <2>1, <2>2
  <2>4. Squeezed(s)[n] = s[k]
    BY <2>1, SqueezedAt DEF N
  <2>5. Squeezed(t)[n] = t[k]
    BY <1>1, <2>2, <2>3, SqueezedAt DEF M
  <2> QED
    BY <2>2, <2>3, <2>4, <2>5
<1>6. ASSUME ~repeats
      PROVE  /\ \E k \in Own(t) : Rank(t, k) = N + 1
             /\ Squeezed(t)[N + 1] = x
  <2> DEFINE k == Len(s) + 1
  <2>1. k \in Own(t)
    BY <1>2, <1>6
  <2>2. Own(t) \cap (1 .. k) = Own(t)
    BY <1>1, OwnType
  <2>3. Rank(t, k) = N + 1
    BY <1>4, <1>6, <2>2 DEF Rank, M
  <2>4. N + 1 \in 1 .. M
    BY <1>3, <1>4, <1>6
  <2>5. Squeezed(t)[N + 1] = t[k]
    BY <1>1, <2>1, <2>3, <2>4, SqueezedAt DEF M
  <2> QED
    BY <1>1, <2>1, <2>3, <2>5
<1>7. Ranked(t)
  <2> SUFFICES ASSUME NEW n \in 1 .. M PROVE \E k \in Own(t) : Rank(t, k) = n
    BY DEF Ranked, M
  <2>1. n \in 1 .. N \/ (~repeats /\ n = N + 1)
    BY <1>3, <1>4
  <2> QED
    BY <1>5, <1>6, <2>1
<1>8. /\ Squeezed(s) \in Seq(S) /\ Len(Squeezed(s)) = N
      /\ Squeezed(t) \in Seq(S) /\ Len(Squeezed(t)) = M
  BY <1>1, <1>7, SqueezedIs DEF N, M
<1>9. CASE repeats
  <2>1. Squeezed(t) = Squeezed(s)
    BY <1>4, <1>5, <1>8, <1>9, SeqEqual
  <2> QED
    BY <1>7, <1>9, <2>1 DEF t, repeats
<1>10. CASE ~repeats
  <2> DEFINE e == Append(Squeezed(s), x)
  <2>1. /\ e \in Seq(S) /\ Len(e) = N + 1 /\ e[N + 1] = x
        /\ \A n \in 1 .. N : e[n] = Squeezed(s)[n]
    BY <1>8, AppendProperties
  <2> HIDE DEF e
  <2>2. ASSUME NEW n \in 1 .. Len(Squeezed(t)) PROVE Squeezed(t)[n] = e[n]
    <3>1. n \in 1 .. N \/ n = N + 1
      BY <1>3, <1>4, <1>8, <1>10
    <3> QED
      BY <1>5, <1>6, <1>10, <2>1, <3>1
  <2>3. Squeezed(t) = e
    BY <1>4, <1>8, <1>10, <2>1, <2>2, SeqEqual
  <2> QED
    BY <1>7, <1>10, <2>3 DEF t, e, repeats
<1> QED
  BY <1>9, <1>10

LEMMA SqueezedNothing == Ranked(<< >>) /\ Squeezed(<< >>) = << >>
<1>1. Own(<< >>) = {}
  BY DEF Own
<1>2. Cardinality(Own(<< >>)) = 0
  BY <1>1, FS_EmptySet
<1>3. Squeezed(<< >>) = << >>
  BY <1>2 DEF Squeezed, Own
<1> QED
  BY <1>2, <1>3 DEF Ranked

\* What repeats nothing stays as it is.
LEMMA SqueezedSame ==
  ASSUME NEW S, NEW d \in Seq(S), Distinct(d)
  PROVE  Ranked(d) /\ Squeezed(d) = d
<1> DEFINE T == {n \in Nat : \E s \in Seq(S) : /\ Len(s) = n /\ Distinct(s)
                                              /\ ~(Ranked(s) /\ Squeezed(s) = s)}
<1> SUFFICES ASSUME T # {} PROVE FALSE
  <2>1. Len(d) \in Nat
    BY LenProperties
  <2> QED
    BY <2>1
<1>1. PICK n \in T : \A m \in T : n <= m
  BY LeastNumber, T \in SUBSET Nat
<1>2. PICK s \in Seq(S) : Len(s) = n /\ Distinct(s) /\ ~(Ranked(s) /\ Squeezed(s) = s)
  BY <1>1
<1>3. s # << >>
  BY <1>2, SqueezedNothing
<1>4. PICK c \in Seq(S), x \in S : s = Append(c, x)
  BY <1>3, SequenceEmptyOrAppend
<1>5. /\ Len(c) \in Nat /\ Len(s) = Len(c) + 1 /\ s[Len(c) + 1] = x
      /\ \A i \in 1 .. Len(c) : s[i] = c[i]
  BY <1>4, LenProperties, AppendProperties
<1>6. Distinct(c)
  <2> SUFFICES ASSUME NEW j \in 1 .. Len(c) - 1 PROVE c[j] # c[j + 1]
    BY DEF Distinct
  <2>1. s[j] = c[j] /\ s[j + 1] = c[j + 1] /\ j \in 1 .. Len(s) - 1
    BY <1>5
  <2> QED
    BY <1>2, <2>1 DEF Distinct
<1>7. Ranked(c) /\ Squeezed(c) = c
  <2>1. Len(c) \notin T
    BY <1>1, <1>2, <1>5
  <2> QED
    BY <1>5, <1>6, <2>1
<1>8. ~(c # << >> /\ x = c[Len(c)])
  <2> SUFFICES ASSUME c # << >>, x = c[Len(c)] PROVE FALSE
    OBVIOUS
  <2>1. Len(c) \in 1 .. Len(s) - 1 /\ s[Len(c)] = c[Len(c)]
    BY <1>5, EmptySeq
  <2> QED
    BY <1>2, <1>5, <2>1 DEF Distinct
<1>9. Ranked(s) /\ Squeezed(s) = s
  BY <1>4, <1>7, <1>8, SqueezedAppend
<1> QED
  BY <1>2, <1>9

-----------------------------------------------------------------------------
(* Going through a display report by report.                               *)

LEMMA TellsNothing == ASSUME NEW a \in Nat, NEW d PROVE Tells(<< >>, a, d, a)
<1> DEFINE f == [i \in 0 .. 0 |-> a]
<1>1. f \in [0 .. 0 -> a .. a] /\ f[0] = a
  OBVIOUS
<1>2. Len(<< >>) = 0 /\ 1 .. 0 = {}
  OBVIOUS
<1> HIDE DEF f
<1> QED
  BY <1>1, <1>2 DEF Tells

\* A walk goes forward.
LEMMA TellsForward ==
  ASSUME NEW s \in Seq(Reports), NEW a \in Nat, NEW b \in Nat, NEW d, Tells(s, a, d, b)
  PROVE  a <= b
<1>1. PICK f \in [0 .. Len(s) -> a .. b] : f[0] = a
  BY DEF Tells
<1>2. 0 \in 0 .. Len(s)
  BY LenProperties
<1>3. f[0] \in a .. b
  BY <1>2
<1> QED
  BY <1>1, <1>3

\* A longer display is gone through the same way.
LEMMA TellsLonger ==
  ASSUME NEW s \in Seq(Reports), NEW a \in Nat \ {0}, NEW b \in Nat, NEW d, NEW e,
         \A j \in 1 .. b : e[j] = d[j], Tells(s, a, d, b)
  PROVE  Tells(s, a, e, b)
<1>1. PICK f \in [0 .. Len(s) -> a .. b] :
        /\ f[0] = a /\ f[Len(s)] = b
        /\ \A i \in 1 .. Len(s) : Moves(s[i], f[i - 1], d, f[i])
  BY DEF Tells
<1>2. Len(s) \in Nat
  BY LenProperties
<1>3. ASSUME NEW i \in 1 .. Len(s) PROVE Moves(s[i], f[i - 1], e, f[i])
  <2>1. f[i] \in 1 .. b
    BY <1>2
  <2>2. e[f[i]] = d[f[i]] /\ Moves(s[i], f[i - 1], d, f[i])
    BY <1>1, <2>1
  <2> QED
    BY <2>2 DEF Moves
<1> QED
  BY <1>1, <1>3 DEF Tells

\* A report more at the end.
LEMMA TellsAppend ==
  ASSUME NEW s \in Seq(Reports), NEW a \in Nat, NEW b \in Nat, NEW d, Tells(s, a, d, b),
         NEW r \in Reports, NEW c \in {b, b + 1}, Moves(r, b, d, c)
  PROVE  Tells(Append(s, r), a, d, c)
<1> DEFINE n == Len(s)  t == Append(s, r)
<1>1. n \in Nat /\ Len(t) = n + 1 /\ t[n + 1] = r /\ \A i \in 1 .. n : t[i] = s[i]
  BY LenProperties, AppendProperties
<1>2. PICK f \in [0 .. n -> a .. b] :
        /\ f[0] = a /\ f[n] = b
        /\ \A i \in 1 .. n : Moves(s[i], f[i - 1], d, f[i])
  BY DEF Tells
<1>3. a <= b
  BY TellsForward
<1> DEFINE g == [i \in 0 .. n + 1 |-> IF i = n + 1 THEN c ELSE f[i]]
<1> HIDE DEF n, t
<1>4. ASSUME NEW i \in 0 .. n + 1 PROVE g[i] \in a .. c
  <2>1. CASE i = n + 1
    BY <1>3, <2>1
  <2>2. CASE i \in 0 .. n
    <3>1. g[i] = f[i] /\ f[i] \in a .. b
      BY <1>1, <2>2
    <3> QED
      BY <1>3, <3>1
  <2> QED
    BY <1>1, <2>1, <2>2
<1>5. g \in [0 .. n + 1 -> a .. c]
  BY <1>4
<1>6. g[0] = a /\ g[n + 1] = c /\ \A i \in 0 .. n : g[i] = f[i]
  BY <1>1, <1>2
<1> HIDE DEF g
<1>7. ASSUME NEW i \in 1 .. n + 1 PROVE Moves(t[i], g[i - 1], d, g[i])
  <2>1. CASE i = n + 1
    <3>1. i - 1 = n /\ g[n] = b
      BY <1>1, <1>2, <1>6, <2>1
    <3> QED
      BY <1>1, <1>6, <2>1, <3>1
  <2>2. CASE i \in 1 .. n
    <3>1. g[i] = f[i] /\ g[i - 1] = f[i - 1] /\ t[i] = s[i]
      BY <1>1, <1>6, <2>2
    <3> QED
      BY <1>2, <2>2, <3>1
  <2> QED
    BY <1>1, <2>1, <2>2
<1>8. Tells(t, a, d, c)
  BY <1>1, <1>5, <1>6, <1>7 DEF Tells
<1> QED
  BY <1>8 DEF t

\* The first report, and those behind it.
LEMMA TellsHead ==
  ASSUME NEW s \in Seq(Reports), s # << >>, NEW a \in Nat, NEW b \in Nat, NEW d,
         Tells(s, a, d, b)
  PROVE  \E c \in {a, a + 1} :
           c <= b /\ Moves(Head(s), a, d, c) /\ Tells(Tail(s), c, d, b)
<1> DEFINE n == Len(s)  t == Tail(s)
<1>1. /\ n \in Nat \ {0} /\ Len(t) = n - 1 /\ \A i \in 1 .. n - 1 : t[i] = s[i + 1]
      /\ Head(s) = s[1]
  BY EmptySeq, HeadTailProperties
<1>2. PICK f \in [0 .. n -> a .. b] :
        /\ f[0] = a /\ f[n] = b
        /\ \A i \in 1 .. n : Moves(s[i], f[i - 1], d, f[i])
  BY DEF Tells
<1> HIDE DEF n, t
<1>3. ASSUME NEW i \in 1 .. n
      PROVE  /\ f[i] \in {f[i - 1], f[i - 1] + 1} /\ f[i] \in Nat /\ f[i - 1] \in Nat
             /\ f[i - 1] <= f[i] /\ f[i] <= b
  <2>1. f[i] \in a .. b /\ f[i - 1] \in a .. b
    BY <1>1
  <2>2. f[i] \in {f[i - 1], f[i - 1] + 1}
    BY <1>2 DEF Moves
  <2> QED
    BY <2>1, <2>2
<1> DEFINE c == f[1]  g == [i \in 0 .. n - 1 |-> f[i + 1]]
<1>4. c \in {a, a + 1} /\ c <= b /\ c \in Nat /\ Moves(Head(s), a, d, c)
  <2>1. 1 \in 1 .. n /\ 1 - 1 = 0
    BY <1>1
  <2> QED
    BY <1>1, <1>2, <1>3, <2>1
<1>5. ASSUME NEW i \in 1 .. n PROVE c <= f[i]
  <2> DEFINE T == {j \in Nat : j \in 1 .. n /\ ~(c <= f[j])}
  <2>0. i \notin T => c <= f[i]
    BY <1>1
  <2> SUFFICES ASSUME T # {} PROVE FALSE
    BY <2>0
  <2>1. PICK m \in T : \A j \in T : m <= j
    BY LeastNumber, T \in SUBSET Nat
  <2>2. m # 1 /\ m \in 1 .. n
    BY <1>3, <2>1
  <2>3. m - 1 \in 1 .. n /\ m - 1 \notin T
    BY <1>1, <2>1, <2>2
  <2>4. c <= f[m - 1] /\ f[m - 1] <= f[m] /\ f[m] \in Nat /\ f[m - 1] \in Nat
    BY <1>3, <2>2, <2>3
  <2> QED
    BY <1>4, <2>1, <2>4
<1>6. g \in [0 .. n - 1 -> c .. b]
  <2> SUFFICES ASSUME NEW i \in 0 .. n - 1 PROVE f[i + 1] \in c .. b
    OBVIOUS
  <2>1. i + 1 \in 1 .. n
    BY <1>1
  <2> QED
    BY <1>3, <1>4, <1>5, <2>1
<1>7. g[0] = c /\ g[n - 1] = b
  BY <1>1, <1>2
<1>8. ASSUME NEW i \in 1 .. n - 1 PROVE Moves(t[i], g[i - 1], d, g[i])
  <2>1. g[i] = f[i + 1] /\ g[i - 1] = f[i] /\ t[i] = s[i + 1] /\ i + 1 \in 1 .. n
    BY <1>1
  <2>2. Moves(s[i + 1], f[(i + 1) - 1], d, f[i + 1])
    BY <1>2, <2>1
  <2>3. (i + 1) - 1 = i
    BY <1>1
  <2> QED
    BY <2>1, <2>2, <2>3
<1> HIDE DEF c, g
<1>9. Tells(t, c, d, b)
  BY <1>1, <1>6, <1>7, <1>8 DEF Tells
<1> QED
  BY <1>4, <1>9 DEF t

\* A report of what is at a before the others.
LEMMA TellsAgain ==
  ASSUME NEW s \in Seq(Reports), s # << >>, NEW a \in Nat, NEW b \in Nat, NEW d,
         Tells(Tail(s), a, d, b), Moves(Head(s), a, d, a)
  PROVE  Tells(s, a, d, b)
<1> DEFINE n == Len(s)  t == Tail(s)
<1>1. /\ n \in Nat \ {0} /\ Len(t) = n - 1 /\ \A i \in 1 .. n - 1 : t[i] = s[i + 1]
      /\ Head(s) = s[1] /\ t \in Seq(Reports)
  BY EmptySeq, HeadTailProperties
<1>2. PICK f \in [0 .. n - 1 -> a .. b] :
        /\ f[0] = a /\ f[n - 1] = b
        /\ \A i \in 1 .. n - 1 : Moves(t[i], f[i - 1], d, f[i])
  BY <1>1 DEF Tells
<1>3. a <= b
  BY <1>1, TellsForward
<1> HIDE DEF n, t
<1> DEFINE g == [i \in 0 .. n |-> IF i = 0 THEN a ELSE f[i - 1]]
<1>4. g \in [0 .. n -> a .. b]
  <2> SUFFICES ASSUME NEW i \in 0 .. n PROVE g[i] \in a .. b
    OBVIOUS
  <2>1. i = 0 \/ i - 1 \in 0 .. n - 1
    BY <1>1
  <2> QED
    BY <1>3, <2>1
<1>5. g[0] = a /\ g[n] = b /\ \A i \in 1 .. n : g[i] = f[i - 1]
  BY <1>1, <1>2
<1> HIDE DEF g
<1>6. ASSUME NEW i \in 1 .. n PROVE Moves(s[i], g[i - 1], d, g[i])
  <2>1. CASE i = 1
    <3>1. g[i] = a /\ g[i - 1] = a
      BY <1>1, <1>2, <1>5, <2>1
    <3> QED
      BY <1>1, <2>1, <3>1
  <2>2. CASE i > 1
    <3> DEFINE j == i - 1
    <3>1. j \in 1 .. n - 1 /\ j \in 1 .. n /\ j + 1 = i
      BY <1>1, <2>2
    <3>2. Moves(t[j], f[j - 1], d, f[j]) /\ t[j] = s[j + 1] /\ g[j] = f[j - 1] /\ g[i] = f[j]
      BY <1>1, <1>2, <1>5, <3>1
    <3> HIDE DEF j
    <3>3. j = i - 1
      BY DEF j
    <3> QED
      BY <3>1, <3>2, <3>3
  <2> QED
    BY <1>1, <2>1, <2>2
<1> QED
  BY <1>1, <1>4, <1>5, <1>6 DEF Tells, n

\* The same when the display has lost what stood first.
LEMMA TellsBehind ==
  ASSUME NEW s \in Seq(Reports), NEW d \in Displays, NEW a \in Nat \ {0}, NEW b \in Nat,
         b + 1 <= Len(d), Tells(s, a + 1, d, b + 1)
  PROVE  Tells(s, a, Tail(d), b)
<1>1. PICK f \in [0 .. Len(s) -> a + 1 .. b + 1] :
        /\ f[0] = a + 1 /\ f[Len(s)] = b + 1
        /\ \A i \in 1 .. Len(s) : Moves(s[i], f[i - 1], d, f[i])
  BY DEF Tells
<1>2. Len(s) \in Nat
  BY LenProperties
<1>3. /\ Len(Tail(d)) = Len(d) - 1 /\ Len(d) \in Nat
      /\ \A j \in 1 .. Len(d) - 1 : Tail(d)[j] = d[j + 1]
  BY HeadTailProperties, LenProperties DEF Displays
<1> DEFINE g == [i \in 0 .. Len(s) |-> f[i] - 1]
<1>4. \A i \in 0 .. Len(s) : f[i] \in a + 1 .. b + 1 /\ g[i] = f[i] - 1
  OBVIOUS
<1>5. g \in [0 .. Len(s) -> a .. b] /\ g[0] = a /\ g[Len(s)] = b
  BY <1>1, <1>2, <1>4
<1> HIDE DEF g
<1>6. ASSUME NEW i \in 1 .. Len(s) PROVE Moves(s[i], g[i - 1], Tail(d), g[i])
  <2>1. i \in 0 .. Len(s) /\ i - 1 \in 0 .. Len(s)
    BY <1>2
  <2>2. Moves(s[i], f[i - 1], d, f[i])
    BY <1>1
  <2> DEFINE x == f[i - 1]  y == f[i]
  <2>3. /\ x \in a + 1 .. b + 1 /\ y \in a + 1 .. b + 1
        /\ g[i - 1] = x - 1 /\ g[i] = y - 1
    BY <1>4, <2>1
  <2> HIDE DEF x, y
  <2>4. Tail(d)[y - 1] = d[y]
    <3>1. y - 1 \in 1 .. Len(d) - 1 /\ (y - 1) + 1 = y
      BY <1>3, <2>3
    <3> QED
      BY <1>3, <3>1
  <2>5. Moves(s[i], x, d, y)
    BY <2>2 DEF x, y
  <2>6. Moves(s[i], x - 1, Tail(d), y - 1)
    BY <2>3, <2>4, <2>5 DEF Moves
  <2> QED
    BY <2>3, <2>6
<1> QED
  BY <1>5, <1>6 DEF Tells

-----------------------------------------------------------------------------
(* What a frame adds to a display.                                         *)

\* Display e goes on from d as far as d with g behind it says, and reports that
\* take the host from a to the end of d take it with g behind them to its end.
Extends(e, d, g, s, a) ==
  /\ e \in Displays /\ Distinct(e) /\ Len(d) <= Len(e)
  /\ \A j \in 1 .. Len(d) : e[j] = d[j]
  /\ e[Len(e)] = (d \o g)[Len(d \o g)]
  /\ Tells(s \o g, a, e, Len(e))

LEMMA KeysAreReports ==
  ASSUME NEW x \in SUBSET MacroKeys
  PROVE  x \in Reports /\ x # Moved /\ Mk(x) = x
BY KeysAssumption DEF Reports, AllKeys, Mk

\* One more is added at the end, or only repeats what is there.
LEMMA OneMore ==
  ASSUME NEW d \in Displays, NEW h \in Seq(SUBSET MacroKeys), NEW x \in SUBSET MacroKeys,
         NEW s \in Seq(Reports), NEW a \in 1 .. Len(d),
         Ranked(d \o h), Extends(Squeezed(d \o h), d, h, s, a)
  PROVE  LET g == Append(h, x) IN Ranked(d \o g) /\ Extends(Squeezed(d \o g), d, g, s, a)
<1> DEFINE g == Append(h, x)  e == Squeezed(d \o h)  e1 == Squeezed(d \o g)
           c == d \o h  S == SUBSET MacroKeys
<1>1. /\ d \in Seq(S) /\ d # << >> /\ Len(d) \in Nat \ {0} /\ a \in Nat \ {0}
      /\ h \in Seq(Reports) /\ x \in S /\ x \in Reports /\ x # Moved /\ Mk(x) = x
  BY KeysAreReports, EmptySeq, SeqMonotonic, LenProperties DEF Displays, Reports, AllKeys
<1>2. /\ d \o g = Append(c, x) /\ s \o g = Append(s \o h, x)
  <2>1. d \o h \in Seq(S) /\ s \o h \in Seq(Reports)
    BY <1>1, ConcatProperties
  <2>2. <<x>> \in Seq(S) /\ <<x>> \in Seq(Reports)
    BY <1>1
  <2>3. g = h \o <<x>> /\ Append(c, x) = c \o <<x>> /\ Append(s \o h, x) = (s \o h) \o <<x>>
    BY <1>1, <2>1, AppendIsConcat
  <2>4. (d \o h) \o <<x>> = d \o (h \o <<x>>)
    <3>1. d \in Seq(S) /\ h \in Seq(S) /\ <<x>> \in Seq(S)
      BY <1>1, <2>2
    <3> QED
      BY ONLY <3>1, ConcatAssociative
  <2>5. (s \o h) \o <<x>> = s \o (h \o <<x>>)
    <3>1. s \in Seq(Reports) /\ h \in Seq(Reports) /\ <<x>> \in Seq(Reports)
      BY <1>1, <2>2
    <3> QED
      BY ONLY <3>1, ConcatAssociative
  <2> QED
    BY <2>3, <2>4, <2>5
<1>3. /\ c \in Seq(S) /\ Len(c) \in Nat \ {0} /\ c # << >> /\ s \o h \in Seq(Reports)
      /\ Append(c, x)[Len(Append(c, x))] = x
  <2>1. c \in Seq(S) /\ Len(c) = Len(d) + Len(h) /\ s \o h \in Seq(Reports) /\ Len(h) \in Nat
    BY <1>1, ConcatProperties, LenProperties
  <2>2. Len(c) \in Nat \ {0}
    BY <1>1, <2>1
  <2> QED
    BY <2>1, <2>2, AppendProperties, EmptySeq
<1>4. /\ Ranked(Append(c, x))
      /\ x = c[Len(c)] => e1 = e
      /\ x # c[Len(c)] => e1 = Append(e, x)
  BY <1>2, <1>3, SqueezedAppend
<1>5. /\ e \in Seq(S) /\ e # << >> /\ Distinct(e) /\ Len(d) <= Len(e) /\ e[Len(e)] = c[Len(c)]
      /\ \A j \in 1 .. Len(d) : e[j] = d[j]
      /\ Tells(s \o h, a, e, Len(e))
  BY DEF Extends, Displays
<1>6. Len(e) \in Nat \ {0}
  BY <1>5, EmptySeq
<1> HIDE DEF c, e, e1, g, S
<1>7. CASE x = c[Len(c)]
  <2>1. Moves(x, Len(e), e, Len(e))
    BY <1>1, <1>5, <1>7 DEF Moves
  <2>2. Tells(Append(s \o h, x), a, e, Len(e))
    BY <1>1, <1>3, <1>5, <1>6, <2>1, TellsAppend
  <2>3. Extends(e1, d, g, s, a)
    BY <1>2, <1>3, <1>4, <1>5, <1>7, <2>2 DEF Extends, Displays, S
  <2> QED
    BY <1>2, <1>4, <2>3 DEF g, e1
<1>8. CASE x # c[Len(c)]
  <2>1. e1 = Append(e, x)
    BY <1>4, <1>8
  <2>2. /\ e1 \in Seq(S) /\ e1 # << >> /\ Len(e1) = Len(e) + 1 /\ e1[Len(e) + 1] = x
        /\ \A j \in 1 .. Len(e) : e1[j] = e[j]
    BY <1>1, <1>5, <2>1, AppendProperties
  <2>3. ASSUME NEW j \in 1 .. Len(e1) - 1 PROVE e1[j] # e1[j + 1]
    <3>1. CASE j = Len(e)
      BY <1>5, <1>6, <1>8, <2>2, <3>1
    <3>2. CASE j # Len(e)
      <4>1. j \in 1 .. Len(e) - 1 /\ e1[j] = e[j] /\ e1[j + 1] = e[j + 1]
        BY <1>6, <2>2, <3>2
      <4> QED
        BY <1>5, <4>1 DEF Distinct
    <3> QED
      BY <3>1, <3>2
  <2>4. Moves(x, Len(e), e1, Len(e) + 1)
    BY <1>1, <2>2 DEF Moves
  <2>5. Tells(s \o h, a, e1, Len(e))
    BY <1>1, <1>3, <1>5, <1>6, <2>2, TellsLonger
  <2>6. Tells(Append(s \o h, x), a, e1, Len(e1))
    BY <1>1, <1>3, <1>6, <2>2, <2>4, <2>5, TellsAppend
  <2>7. Len(d) <= Len(e1) /\ \A j \in 1 .. Len(d) : e1[j] = d[j]
    BY <1>1, <1>5, <1>6, <2>2
  <2>8. Extends(e1, d, g, s, a)
    BY <1>2, <1>3, <2>2, <2>3, <2>6, <2>7 DEF Extends, Displays, Distinct, S
  <2> QED
    BY <1>2, <1>4, <2>8 DEF g, e1
<1> QED
  BY <1>7, <1>8

LEMMA SqueezedExtends ==
  ASSUME NEW d \in Displays, Distinct(d), NEW g \in Seq(SUBSET MacroKeys),
         NEW s \in Seq(Reports), NEW a \in 1 .. Len(d), Tells(s, a, d, Len(d))
  PROVE  Ranked(d \o g) /\ Extends(Squeezed(d \o g), d, g, s, a)
<1> DEFINE Good(h) == Ranked(d \o h) /\ Extends(Squeezed(d \o h), d, h, s, a)
           T == {n \in Nat : \E h \in Seq(SUBSET MacroKeys) : Len(h) = n /\ ~Good(h)}
<1>1. Good(<< >>)
  <2>1. d \in Seq(SUBSET MacroKeys) /\ Len(d) \in Nat
    BY LenProperties DEF Displays
  <2>2. d \o << >> = d /\ s \o << >> = s
    BY <2>1, ConcatEmptySeq
  <2>3. Ranked(d) /\ Squeezed(d) = d
    BY <2>1, SqueezedSame
  <2> QED
    BY <2>1, <2>2, <2>3 DEF Extends
<1>2. ASSUME NEW h \in Seq(SUBSET MacroKeys), NEW x \in SUBSET MacroKeys, Good(h)
      PROVE  Good(Append(h, x))
  BY <1>2, OneMore
<1> HIDE DEF Good
<1> SUFFICES ASSUME T # {} PROVE FALSE
  <2>1. Len(g) \in Nat
    BY LenProperties
  <2>2. Good(g)
    BY <2>1
  <2> QED
    BY <2>2 DEF Good
<1>3. PICK n \in T : \A m \in T : n <= m
  BY LeastNumber, T \in SUBSET Nat
<1>4. PICK h \in Seq(SUBSET MacroKeys) : Len(h) = n /\ ~Good(h)
  BY <1>3
<1>5. PICK c \in Seq(SUBSET MacroKeys), x \in SUBSET MacroKeys : h = Append(c, x)
  BY <1>1, <1>4, SequenceEmptyOrAppend
<1>6. Len(c) \in Nat /\ Len(h) = Len(c) + 1
  BY <1>5, LenProperties, AppendProperties
<1>7. Good(c)
  <2>1. n \in Nat /\ n = Len(c) + 1
    BY <1>4, <1>6
  <2>2. Len(c) \in T => n <= Len(c)
    BY <1>3
  <2>3. Len(c) \notin T
    BY <1>6, <2>1, <2>2
  <2> QED
    BY <1>6, <2>3
<1> QED
  BY <1>2, <1>4, <1>5, <1>7

-----------------------------------------------------------------------------
(* A frame.                                                                *)

LEMMA WaitingIs ==
  ASSUME NEW entries \in Seq(Entry)
  PROVE  /\ Waiting(entries) \in Seq(SUBSET MacroKeys) /\ Waiting(entries) \in Seq(Reports)
         /\ Len(Waiting(entries)) = Len(entries) /\ Len(entries) \in Nat
         /\ entries = << >> <=> Waiting(entries) = << >>
         /\ entries # << >> => Head(Waiting(entries)) = Items(entries)
         /\ Items(entries) \in SUBSET MacroKeys
<1> DEFINE n == Len(entries)  w == Waiting(entries)
<1>1. n \in Nat /\ (entries = << >> <=> n = 0)
  BY LenProperties, EmptySeq
<1>2. w = [j \in 1 .. n |-> entries[j].items]
  BY Zenon DEF Waiting
<1>3. ASSUME NEW j \in 1 .. n PROVE entries[j].items \in SUBSET MacroKeys
  <2>1. entries[j] \in Entry
    BY ElementOfSeq
  <2> QED
    BY <2>1 DEF Entry
<1> HIDE DEF n, w
<1>4. w \in [1 .. n -> SUBSET MacroKeys]
  BY <1>2, <1>3
<1>5. w \in Seq(SUBSET MacroKeys) /\ Len(w) = n
  BY <1>1, <1>4
<1>6. w \in Seq(Reports)
  BY <1>5, SeqMonotonic DEF Reports, AllKeys
<1>7. w = << >> <=> n = 0
  BY <1>1, <1>5, EmptySeq
<1>8. ASSUME entries # << >> PROVE Head(w) = Items(entries) /\ Items(entries) \in SUBSET MacroKeys
  <2>1. 1 \in 1 .. n
    BY <1>1, <1>8
  <2>2. w[1] = entries[1].items /\ Head(w) = w[1] /\ Head(entries) = entries[1]
    BY <1>2, <2>1
  <2>3. Items(entries) = entries[1].items
    BY <1>8, <2>2 DEF Items
  <2> QED
    BY <1>3, <2>1, <2>2, <2>3
<1>9. entries = << >> => Items(entries) = {}
  BY DEF Items
<1> QED
  BY <1>1, <1>5, <1>6, <1>7, <1>8, <1>9 DEF n, w

\* What is triggered waits behind the rest.
LEMMA WaitingTriggered ==
  ASSUME NEW entries \in Seq(Entry), NEW g \in Seq(SUBSET MacroKeys), NEW duration \in Nat
  PROVE  /\ entries \o Triggered(g, duration) \in Seq(Entry)
         /\ Waiting(entries \o Triggered(g, duration)) = Waiting(entries) \o g
<1> DEFINE n == Len(g)  e == Triggered(g, duration)
<1>1. n \in Nat
  BY LenProperties
<1>2. e = [j \in 1 .. n |-> [left |-> duration, items |-> g[j]]]
  BY Zenon DEF Triggered
<1>3. ASSUME NEW j \in 1 .. n
      PROVE  [left |-> duration, items |-> g[j]] \in Entry
  <2>1. g[j] \in SUBSET MacroKeys
    BY ElementOfSeq
  <2> QED
    BY <2>1 DEF Entry
<1> HIDE DEF e, n
<1>4. e \in [1 .. n -> Entry] /\ \A j \in 1 .. n : e[j].items = g[j]
  BY <1>2, <1>3
<1>5. e \in Seq(Entry) /\ Len(e) = n
  BY <1>1, <1>4
<1> DEFINE c == entries \o e  v == Waiting(c)  w == Waiting(entries) \o g
<1>6. /\ c \in Seq(Entry) /\ Len(c) = Len(entries) + n /\ Len(entries) \in Nat
      /\ \A j \in 1 .. Len(entries) + n :
           c[j] = IF j <= Len(entries) THEN entries[j] ELSE e[j - Len(entries)]
  BY <1>5, ConcatProperties, LenProperties
<1> HIDE DEF c
<1>7. v \in Seq(SUBSET MacroKeys) /\ Len(v) = Len(c) /\ \A j \in 1 .. Len(c) : v[j] = c[j].items
  BY <1>6, WaitingIs DEF Waiting
<1>8. /\ w \in Seq(SUBSET MacroKeys) /\ Len(w) = Len(entries) + n
      /\ \A j \in 1 .. Len(entries) + n :
           w[j] = IF j <= Len(entries) THEN entries[j].items ELSE g[j - Len(entries)]
  <2>1. /\ Waiting(entries) \in Seq(SUBSET MacroKeys) /\ Len(Waiting(entries)) = Len(entries)
        /\ \A j \in 1 .. Len(entries) : Waiting(entries)[j] = entries[j].items
    BY WaitingIs DEF Waiting
  <2> QED
    BY <1>1, <1>6, <2>1, ConcatProperties DEF n
<1> HIDE DEF v, w
<1>9. ASSUME NEW j \in 1 .. Len(v) PROVE v[j] = w[j]
  <2>1. j \in 1 .. Len(entries) + n /\ v[j] = c[j].items
    BY <1>6, <1>7
  <2>2. CASE j <= Len(entries)
    BY <1>6, <1>8, <2>1, <2>2
  <2>3. CASE ~(j <= Len(entries))
    <3>1. j - Len(entries) \in 1 .. n
      BY <1>1, <1>6, <2>1, <2>3
    <3>2. c[j] = e[j - Len(entries)] /\ w[j] = g[j - Len(entries)]
      BY <1>6, <1>8, <2>1, <2>3
    <3> QED
      BY <1>4, <2>1, <3>1, <3>2
  <2> QED
    BY <2>2, <2>3
<1>10. v = w
  BY <1>6, <1>7, <1>8, <1>9, SeqEqual
<1> QED
  BY <1>6, <1>10 DEF c, e, v, w

\* The entry in front stays, or goes when no report waits.
LEMMA ExecutedIs ==
  ASSUME NEW entries \in Seq(Entry)
  PROVE  /\ Executed(entries) \in Seq(Entry)
         /\ \/ Waiting(Executed(entries)) = Waiting(entries)
            \/ /\ entries # << >> /\ queue = << >>
               /\ Waiting(Executed(entries)) = Tail(Waiting(entries))
<1> DEFINE after == Executed(entries)  n == Len(entries)
<1>1. n \in Nat /\ entries \in [1 .. n -> Entry] /\ (entries = << >> <=> n = 0)
  BY LenProperties, EmptySeq
<1>2. CASE entries = << >> \/ (~(Head(entries).left > 0) /\ queue # << >>)
  <2>1. after = entries
    BY <1>2 DEF Executed
  <2> QED
    BY <2>1
<1>3. CASE entries # << >> /\ Head(entries).left > 0
  <2>1. 1 \in 1 .. n /\ Head(entries) = entries[1]
    BY <1>1, <1>3
  <2>2. entries[1] \in Entry /\ entries[1].left - 1 \in Nat
    BY <1>1, <1>3, <2>1 DEF Entry
  <2> DEFINE first == [entries[1] EXCEPT !.left = entries[1].left - 1]
  <2>3. first \in Entry /\ first.items = entries[1].items
    BY <2>2 DEF Entry
  <2>4. after = [entries EXCEPT ![1] = first]
    BY <1>3 DEF Executed
  <2> HIDE DEF after, first
  <2>5. after \in [1 .. n -> Entry] /\ \A j \in 1 .. n : after[j].items = entries[j].items
    BY <1>1, <2>1, <2>3, <2>4
  <2>6. after \in Seq(Entry) /\ Len(after) = n
    BY <1>1, <2>5
  <2>7. Waiting(after) = Waiting(entries)
    BY <2>5, <2>6 DEF Waiting, n
  <2> QED
    BY <2>6, <2>7 DEF after
<1>4. CASE entries # << >> /\ ~(Head(entries).left > 0) /\ queue = << >>
  <2>1. after = Tail(entries)
    BY <1>4 DEF Executed
  <2> HIDE DEF after
  <2>2. /\ after \in Seq(Entry) /\ Len(after) = n - 1
        /\ \A j \in 1 .. n - 1 : after[j] = entries[j + 1]
    BY <1>4, <2>1, HeadTailProperties
  <2>3. /\ Waiting(after) \in Seq(SUBSET MacroKeys) /\ Len(Waiting(after)) = n - 1
        /\ \A j \in 1 .. n - 1 : Waiting(after)[j] = entries[j + 1].items
    BY <2>2, WaitingIs DEF Waiting
  <2>4. /\ Tail(Waiting(entries)) \in Seq(SUBSET MacroKeys)
        /\ Len(Tail(Waiting(entries))) = n - 1
        /\ \A j \in 1 .. n - 1 : Tail(Waiting(entries))[j] = entries[j + 1].items
    <3>1. /\ Waiting(entries) \in Seq(SUBSET MacroKeys) /\ Waiting(entries) # << >>
          /\ Len(Waiting(entries)) = n
          /\ \A j \in 1 .. n : Waiting(entries)[j] = entries[j].items
      BY <1>4, WaitingIs DEF Waiting
    <3>2. /\ Tail(Waiting(entries)) \in Seq(SUBSET MacroKeys)
          /\ Len(Tail(Waiting(entries))) = n - 1
          /\ \A j \in 1 .. n - 1 : Tail(Waiting(entries))[j] = Waiting(entries)[j + 1]
      BY <3>1, HeadTailProperties
    <3>3. \A j \in 1 .. n - 1 : j + 1 \in 1 .. n
      BY <1>1
    <3> QED
      BY <3>1, <3>2, <3>3
  <2>5. Waiting(after) = Tail(Waiting(entries))
    BY <2>3, <2>4, SeqEqual
  <2> QED
    BY <1>4, <2>2, <2>5 DEF after
<1> QED
  BY <1>2, <1>3, <1>4

\* The movement a frame queues shows nothing.
LEMMA WithMovementTells ==
  ASSUME NEW q \in Seq(Reports), Len(q) <= Capacity, NEW motion \in BOOLEAN,
         ~MovementWaits(q, motion), NEW n \in Nat, NEW e, Tells(q, 1, e, n)
  PROVE  LET r == WithMovement(q, motion) IN
         /\ r \in Seq(Reports) /\ Len(r) <= Capacity /\ Len(r) <= Len(q) + 1
         /\ Tells(r, 1, e, n)
<1> DEFINE r == WithMovement(q, motion)
<1> SUFFICES /\ r \in Seq(Reports) /\ Len(r) <= Capacity /\ Len(r) <= Len(q) + 1
             /\ Tells(r, 1, e, n)
  OBVIOUS
<1>0. r = q \/ (r = Append(q, Moved) /\ motion)
  BY DEF WithMovement
<1> HIDE DEF r
<1>1. Len(q) \in Nat /\ Capacity \in Nat
  BY LenProperties, SizesAssumption
<1>2. CASE r = q
  BY <1>1, <1>2
<1>3. CASE r = Append(q, Moved) /\ motion
  <2>1. Moved \in Reports /\ Moves(Moved, n, e, n)
    BY DEF Reports, Moves
  <2>2. Len(q) < Capacity
    BY <1>1, <1>3 DEF MovementWaits
  <2>3. /\ Append(q, Moved) \in Seq(Reports) /\ Len(Append(q, Moved)) = Len(q) + 1
    BY <2>1, AppendProperties
  <2>4. Tells(Append(q, Moved), 1, e, n)
    BY <2>1, TellsAppend
  <2> QED
    BY <1>1, <1>3, <2>2, <2>3, <2>4
<1> QED
  BY <1>0, <1>2, <1>3

\* The keys it queues show what comes next, or what is shown already.
LEMMA WithKeysTells ==
  ASSUME NEW q \in Seq(Reports), Len(q) <= Capacity, NEW built \in SUBSET AllKeys,
         ~KeysWait(q, built), NEW n \in Nat, NEW e, Tells(q, 1, e, n)
  PROVE  LET r == WithKeys(q, built) IN
         /\ r \in Seq(Reports) /\ Len(r) <= Capacity
         /\ \A c \in {n, n + 1} :
              e[c] = Mk(built) /\ (built = prev_keys => c = n) => Tells(r, 1, e, c)
<1> DEFINE r == WithKeys(q, built)
<1>1. Len(q) \in Nat /\ Capacity \in Nat
  BY LenProperties, SizesAssumption
<1>2. CASE built = prev_keys
  <2>1. r = q
    BY <1>2 DEF WithKeys
  <2> QED
    BY <1>2, <2>1
<1>3. CASE built # prev_keys
  <2>1. r = Append(q, built) /\ Len(q) < Capacity
    BY <1>1, <1>3 DEF WithKeys, KeysWait
  <2>2. built \in Reports /\ built # Moved
    BY KeysAssumption DEF Reports
  <2>3. Append(q, built) \in Seq(Reports) /\ Len(Append(q, built)) = Len(q) + 1
    BY <2>2, AppendProperties
  <2>4. ASSUME NEW c \in {n, n + 1}, e[c] = Mk(built) PROVE Tells(Append(q, built), 1, e, c)
    <3>1. Moves(built, n, e, c)
      BY <2>2, <2>4 DEF Moves
    <3> QED
      BY <2>2, <3>1, TellsAppend
  <2> QED
    BY <1>1, <2>1, <2>3, <2>4
<1> QED
  BY <1>2, <1>3

\* The send loop leaves the keys under construction, which it does not when it finds
\* the queue empty, or queues them.
LEMMA LoopTells ==
  ASSUME MacrosType, NEW e, NEW n \in Nat, Tells(queue, 1, e, n),
         NEW built \in SUBSET AllKeys, NEW motion \in BOOLEAN, SendLoop(built, motion)
  PROVE  /\ queue' \in Seq(Reports) /\ Len(queue') <= Capacity
         /\ prev_keys' \in SUBSET AllKeys /\ keys' \in SUBSET AllKeys
         /\ movement' \in BOOLEAN
         /\ \/ /\ queue # << >> /\ prev_keys' = prev_keys /\ keys' = built
               /\ Tells(queue', 1, e, n)
            \/ /\ prev_keys' = built /\ keys' = {}
               /\ \A c \in {n, n + 1} :
                    e[c] = Mk(built) /\ (built = prev_keys => c = n) => Tells(queue', 1, e, c)
<1>1. /\ queue \in Seq(Reports) /\ Len(queue) <= Capacity /\ Len(queue) \in Nat
      /\ Capacity \in Nat /\ Capacity > 1 /\ prev_keys \in SUBSET AllKeys
      /\ (queue = << >> => Len(queue) = 0)
  BY LenProperties, SizesAssumption DEF MacrosType
<1>2. CASE keys_first /\ KeysWait(queue, built)
  <2>1. keys' = built /\ movement' = motion /\ queue' = queue /\ prev_keys' = prev_keys
    BY <1>2 DEF SendLoop
  <2>2. queue # << >>
    BY <1>1, <1>2 DEF KeysWait
  <2> QED
    BY <1>1, <2>1, <2>2
<1>3. CASE ~keys_first /\ MovementWaits(queue, motion)
  <2>1. keys' = built /\ movement' = motion /\ queue' = queue /\ prev_keys' = prev_keys
    BY <1>3 DEF SendLoop
  <2>2. queue # << >>
    BY <1>1, <1>3 DEF MovementWaits
  <2> QED
    BY <1>1, <2>1, <2>2
<1>4. CASE keys_first /\ ~KeysWait(queue, built)
  <2> DEFINE q == WithKeys(queue, built)
  <2>1. /\ keys' = {} /\ prev_keys' = built /\ movement' = MovementWaits(q, motion)
        /\ queue' = IF MovementWaits(q, motion) THEN q ELSE WithMovement(q, motion)
    BY <1>4 DEF SendLoop
  <2>2. q \in Seq(Reports) /\ Len(q) <= Capacity
    BY <1>1, <1>4, WithKeysTells
  <2>3. ASSUME NEW c \in {n, n + 1}, e[c] = Mk(built), built = prev_keys => c = n
        PROVE  Tells(q, 1, e, c) /\ c \in Nat
    BY <1>1, <1>4, <2>3, WithKeysTells
  <2>4. movement' \in BOOLEAN
    BY <2>1 DEF MovementWaits
  <2> HIDE DEF q
  <2>5. CASE MovementWaits(q, motion)
    BY <2>1, <2>2, <2>3, <2>4, <2>5
  <2>6. CASE ~MovementWaits(q, motion)
    <3>1. queue' = WithMovement(q, motion)
      BY <2>1, <2>6
    <3>2. ASSUME NEW c \in {n, n + 1}, e[c] = Mk(built), built = prev_keys => c = n
          PROVE  Tells(queue', 1, e, c)
      BY <2>2, <2>3, <2>6, <3>1, <3>2, WithMovementTells
    <3>3. queue' \in Seq(Reports) /\ Len(queue') <= Capacity
      <4>1. WithMovement(q, motion) \in {q, Append(q, Moved)}
            /\ (WithMovement(q, motion) = Append(q, Moved) /\ WithMovement(q, motion) # q => motion)
        BY DEF WithMovement
      <4>2. Len(q) \in Nat /\ (motion => Len(q) < Capacity)
        BY <1>1, <2>2, <2>6, LenProperties DEF MovementWaits
      <4>3. Append(q, Moved) \in Seq(Reports) /\ Len(Append(q, Moved)) = Len(q) + 1
        BY <2>2, AppendProperties, Moved \in Reports DEF Reports
      <4> QED
        BY <1>1, <2>2, <3>1, <4>1, <4>2, <4>3
    <3> QED
      BY <2>1, <2>4, <3>2, <3>3
  <2> QED
    BY <2>5, <2>6
<1>5. CASE ~keys_first /\ ~MovementWaits(queue, motion)
  <2> DEFINE q == WithMovement(queue, motion)
  <2>1. /\ movement' = FALSE
        /\ keys' = IF KeysWait(q, built) THEN built ELSE {}
        /\ prev_keys' = IF KeysWait(q, built) THEN prev_keys ELSE built
        /\ queue' = IF KeysWait(q, built) THEN q ELSE WithKeys(q, built)
    BY <1>5 DEF SendLoop
  <2>2. /\ q \in Seq(Reports) /\ Len(q) <= Capacity /\ Len(q) <= Len(queue) + 1
        /\ Tells(q, 1, e, n)
    BY <1>1, <1>5, WithMovementTells
  <2> HIDE DEF q
  <2>3. CASE KeysWait(q, built)
    <3>1. queue # << >>
      BY <1>1, <2>2, <2>3 DEF KeysWait
    <3> QED
      BY <1>1, <2>1, <2>2, <2>3, <3>1
  <2>4. CASE ~KeysWait(q, built)
    <3>1. /\ WithKeys(q, built) \in Seq(Reports) /\ Len(WithKeys(q, built)) <= Capacity
          /\ \A c \in {n, n + 1} :
               e[c] = Mk(built) /\ (built = prev_keys => c = n)
                 => Tells(WithKeys(q, built), 1, e, c)
      BY <2>2, <2>4, WithKeysTells
    <3> QED
      BY <1>1, <2>1, <2>4, <3>1
  <2> QED
    BY <2>3, <2>4
<1> QED
  BY <1>2, <1>3, <1>4, <1>5 DEF SendLoop

LEMMA FrameStep ==
  ASSUME MacrosInv, NEW g \in Seq(SUBSET MacroKeys), NEW duration \in Nat,
         NEW motion \in BOOLEAN, FrameOf(g, duration, motion)
  PROVE  MacrosInv'
<1> DEFINE entries == macro_queue \o Triggered(g, duration)
           built == keys \cup held \cup Items(entries)
           anyMotion == movement \/ motion
           w == Waiting(macro_queue)
<1>1. /\ MacrosType /\ KeysOfFront /\ Distinct(display) /\ Accounted
      /\ macro_queue \in Seq(Entry) /\ display \in Displays /\ queue \in Seq(Reports)
      /\ held \in SUBSET Keys /\ keys \in SUBSET AllKeys /\ movement \in BOOLEAN
      /\ prev_keys \in SUBSET AllKeys
  BY DEF MacrosInv, MacrosType
<1>2. /\ macro_queue' = Executed(entries) /\ SendLoop(built, anyMotion)
      /\ display' = Squeezed(display \o Shown(entries, g))
      /\ keys_first' = keys_first /\ held' = held /\ view' = view
  BY DEF FrameOf
<1>3. PICK n \in 1 .. Len(display) :
        /\ display[n] = Mk(prev_keys) /\ Tells(queue, 1, display, n)
        /\ Tells(w, n, display, Len(display))
  BY <1>1 DEF Accounted
<1>4. /\ display \in Seq(SUBSET MacroKeys) /\ Len(display) \in Nat \ {0} /\ n \in Nat \ {0}
      /\ display[1] = Mk(view)
  BY <1>1, <1>3, EmptySeq DEF Accounted, Displays
<1>5. /\ entries \in Seq(Entry) /\ Waiting(entries) = w \o g
      /\ w \in Seq(SUBSET MacroKeys) /\ w \in Seq(Reports)
      /\ macro_queue = << >> <=> w = << >>
  BY <1>1, WaitingIs, WaitingTriggered
<1>6. Items(entries) \in SUBSET MacroKeys
  BY <1>5, WaitingIs
<1>7. Items(macro_queue) \subseteq Items(entries)
  <2>1. CASE macro_queue = << >>
    BY <2>1 DEF Items
  <2>2. CASE macro_queue # << >>
    <3>1. /\ Head(w) = Items(macro_queue) /\ Head(w) = w[1] /\ 1 \in 1 .. Len(w)
          /\ Len(w) \in Nat /\ Len(g) \in Nat
      BY <1>1, <1>5, <2>2, WaitingIs, EmptySeq, LenProperties
    <3>2. (w \o g)[1] = w[1] /\ Len(w \o g) = Len(w) + Len(g) /\ w \o g \in Seq(SUBSET MacroKeys)
      BY <1>5, <3>1, ConcatProperties
    <3>3. w \o g # << >> /\ Head(w \o g) = (w \o g)[1]
      BY <3>1, <3>2, EmptySeq
    <3>4. Head(Waiting(entries)) = Items(entries)
      BY <1>5, <3>3, WaitingIs
    <3> QED
      BY <1>5, <3>1, <3>2, <3>3, <3>4
  <2> QED
    BY <2>1, <2>2
<1>8. built \in SUBSET AllKeys /\ Mk(built) = Items(entries) /\ anyMotion \in BOOLEAN
  <2>1. Mk(keys) \subseteq Items(entries)
    BY <1>1, <1>7 DEF KeysOfFront
  <2>2. Mk(held) = {}
    BY <1>1, KeysAssumption DEF Mk
  <2>3. Mk(built) = Mk(keys) \cup Mk(held) \cup Mk(Items(entries))
    BY DEF Mk
  <2>4. Mk(Items(entries)) = Items(entries)
    BY <1>6 DEF Mk
  <2>5. built \in SUBSET AllKeys
    BY <1>1, <1>6 DEF AllKeys
  <2> QED
    BY <1>1, <2>1, <2>2, <2>3, <2>4, <2>5
<1>9. /\ Executed(entries) \in Seq(Entry)
      /\ \/ Waiting(Executed(entries)) = Waiting(entries)
         \/ /\ entries # << >> /\ queue = << >>
            /\ Waiting(Executed(entries)) = Tail(Waiting(entries))
  BY <1>5, ExecutedIs
<1> HIDE DEF entries, built, anyMotion, w
\* What it takes for the next state to be accounted for.
<1>10. ASSUME NEW e, e \in Displays, Distinct(e), display' = e, e[1] = Mk(view),
              NEW m \in 1 .. Len(e), e[m] = Mk(prev_keys'), Tells(queue', 1, e, m),
              Tells(Waiting(macro_queue'), m, e, Len(e)), Mk(keys') \subseteq Items(macro_queue')
       PROVE  MacrosInv'
  <2>1. /\ queue' \in Seq(Reports) /\ Len(queue') <= Capacity
        /\ prev_keys' \in SUBSET AllKeys /\ keys' \in SUBSET AllKeys /\ movement' \in BOOLEAN
    BY <1>1, <1>2, <1>3, <1>4, <1>8, LoopTells
  <2>2. MacrosType'
    BY <1>1, <1>2, <1>9, <1>10, <2>1 DEF MacrosType
  <2>3. Accounted'
    BY <1>2, <1>10 DEF Accounted
  <2>4. KeysOfFront' /\ Distinct(display)'
    BY <1>10 DEF KeysOfFront
  <2> QED
    BY <2>2, <2>3, <2>4 DEF MacrosInv
\* The display e the frame leads to takes in the entry in front, or no keys, next.
<1>11. ASSUME NEW e, e \in Displays, Distinct(e), display' = e, e[1] = Mk(view),
              NEW v \in Seq(Reports), v # << >>, Head(v) = Items(entries),
              n <= Len(e), e[n] = Mk(prev_keys), Tells(queue, 1, e, n), Tells(v, n, e, Len(e)),
              \/ Waiting(entries) = v
              \/ v = << {} >> /\ entries = << >> /\ Mk(prev_keys') = {}
       PROVE  MacrosInv'
  <2>1. Len(e) \in Nat \ {0} /\ Items(entries) # Moved /\ Mk(Items(entries)) = Items(entries)
    BY <1>6, <1>11, EmptySeq, KeysAreReports DEF Displays
  <2>2. PICK c \in {n, n + 1} :
          c <= Len(e) /\ Moves(Head(v), n, e, c) /\ Tells(Tail(v), c, e, Len(e))
    BY <1>4, <1>11, <2>1, TellsHead
  <2>3. c \in 1 .. Len(e) /\ e[c] = Items(entries) /\ e[c] = Mk(built)
    BY <1>4, <1>8, <1>11, <2>1, <2>2 DEF Moves
  <2>4. built = prev_keys => c = n
    <3>1. n \in 1 .. Len(e) - 1 => e[n] # e[n + 1]
      BY <1>11 DEF Distinct
    <3> QED
      BY <1>4, <1>11, <2>1, <2>2, <2>3, <3>1
  <2>5. Tells(v, c, e, Len(e))
    <3>1. Moves(Head(v), c, e, c)
      BY <1>11, <2>1, <2>3 DEF Moves
    <3> QED
      BY <1>11, <2>1, <2>2, <2>3, <3>1, TellsAgain
  <2>6. \/ /\ queue # << >> /\ prev_keys' = prev_keys /\ keys' = built
           /\ Tells(queue', 1, e, n)
        \/ /\ prev_keys' = built /\ keys' = {} /\ Tells(queue', 1, e, c)
    <3>1. /\ MacrosType /\ n \in Nat /\ Tells(queue, 1, e, n) /\ built \in SUBSET AllKeys
          /\ anyMotion \in BOOLEAN /\ SendLoop(built, anyMotion)
      BY <1>1, <1>2, <1>4, <1>8, <1>11
    <3>2. \/ /\ queue # << >> /\ prev_keys' = prev_keys /\ keys' = built
             /\ Tells(queue', 1, e, n)
          \/ /\ prev_keys' = built /\ keys' = {}
             /\ \A i \in {n, n + 1} :
                  e[i] = Mk(built) /\ (built = prev_keys => i = n) => Tells(queue', 1, e, i)
      BY ONLY <3>1, LoopTells
    <3> QED
      BY <2>3, <2>4, <3>2
  <2>7. CASE Waiting(entries) = v
    <3>1. CASE prev_keys' = built /\ keys' = {} /\ Tells(queue', 1, e, c)
      <4>1. Tells(Waiting(macro_queue'), c, e, Len(e))
        BY <1>2, <1>9, <2>2, <2>5, <2>7
      <4> QED
        BY <1>10, <1>11, <2>3, <3>1, <4>1 DEF Mk
    <3>2. CASE /\ queue # << >> /\ prev_keys' = prev_keys /\ keys' = built
               /\ Tells(queue', 1, e, n)
      <4>1. Waiting(macro_queue') = v /\ macro_queue' \in Seq(Entry)
        BY <1>2, <1>9, <2>7, <3>2
      <4>2. Head(Waiting(macro_queue')) = Items(macro_queue')
        BY <1>11, <4>1, WaitingIs
      <4>3. Mk(keys') \subseteq Items(macro_queue')
        BY <1>8, <1>11, <3>2, <4>1, <4>2
      <4>4. n \in 1 .. Len(e)
        BY <1>4, <1>11, <2>1
      <4> QED
        BY <1>10, <1>11, <3>2, <4>1, <4>3, <4>4
    <3> QED
      BY <2>6, <3>1, <3>2
  <2>8. CASE v = << {} >> /\ entries = << >> /\ Mk(prev_keys') = {}
    <3>1. macro_queue' = << >> /\ Items(macro_queue') = {} /\ Items(entries) = {}
      BY <1>2, <2>8 DEF Executed, Items
    <3>2. Waiting(macro_queue') = << >> /\ Tail(v) = << >>
      BY <2>8, <3>1 DEF Waiting
    <3>3. c = Len(e)
      <4>1. Tells(<< >>, c, e, Len(e))
        BY <2>2, <3>2
      <4>2. PICK f \in [0 .. Len(<< >>) -> c .. Len(e)] : f[0] = c /\ f[Len(<< >>)] = Len(e)
        BY <4>1 DEF Tells
      <4> QED
        BY <4>2, Len(<< >>) = 0
    <3>4. Tells(Waiting(macro_queue'), c, e, Len(e))
      BY <2>1, <3>2, <3>3, TellsNothing
    <3>5. CASE prev_keys' = built /\ keys' = {} /\ Tells(queue', 1, e, c)
      BY <1>10, <1>11, <2>3, <3>4, <3>5 DEF Mk
    <3>6. CASE /\ queue # << >> /\ prev_keys' = prev_keys /\ keys' = built
               /\ Tells(queue', 1, e, n)
      <4>1. Mk(keys') = {}
        BY <1>8, <3>1, <3>6
      <4>2. c = n
        <5> SUFFICES ASSUME c # n PROVE FALSE
          OBVIOUS
        <5>1. n \in 1 .. Len(e) - 1 /\ c = n + 1
          BY <1>4, <1>11, <2>1, <2>2
        <5>2. e[n] = {} /\ e[n + 1] = {}
          BY <1>11, <2>3, <2>8, <3>1, <3>6, <5>1
        <5> QED
          BY <1>11, <5>1, <5>2 DEF Distinct
      <4>3. Mk(keys') \subseteq Items(macro_queue') /\ e[n] = Mk(prev_keys') /\ n \in 1 .. Len(e)
        BY <1>11, <2>3, <3>6, <4>1, <4>2
      <4>4. Tells(Waiting(macro_queue'), n, e, Len(e))
        BY <3>4, <4>2
      <4> QED
        BY <1>10, <1>11, <3>6, <4>3, <4>4
    <3> QED
      BY <2>6, <3>5, <3>6
  <2> QED
    BY <1>11, <2>7, <2>8
<1>12. CASE entries # << >>
  <2> DEFINE e == Squeezed(display \o g)
  <2>1. Extends(e, display, g, w, n)
    BY <1>1, <1>3, <1>5, SqueezedExtends
  <2>2. display' = e
    BY <1>2, <1>12 DEF Shown
  <2> HIDE DEF e
  <2>3. /\ e \in Displays /\ Distinct(e) /\ Len(display) <= Len(e) /\ Len(e) \in Nat
        /\ \A j \in 1 .. Len(display) : e[j] = display[j]
        /\ Tells(Waiting(entries), n, e, Len(e))
    BY <1>5, <2>1, LenProperties DEF Extends, Displays
  <2>4. e[1] = Mk(view) /\ e[n] = Mk(prev_keys) /\ n <= Len(e)
    BY <1>3, <1>4, <2>3
  <2>5. Tells(queue, 1, e, n)
    BY <1>1, <1>3, <1>4, <2>3, TellsLonger
  <2>6. /\ Waiting(entries) \in Seq(Reports) /\ Waiting(entries) # << >>
        /\ Head(Waiting(entries)) = Items(entries)
    BY <1>5, <1>12, WaitingIs
  <2> QED
    BY <1>11, <2>2, <2>3, <2>4, <2>5, <2>6
<1>13. CASE entries = << >>
  <2>1. w = << >> /\ Items(entries) = {} /\ macro_queue' = << >>
    <3>1. w \o g = << >>
      BY <1>5, <1>13, WaitingIs
    <3>2. w = << >>
      BY <1>5, <3>1, ConcatSimplifications
    <3> QED
      BY <1>2, <1>13, <3>2 DEF Items, Executed
  <2>2. CASE Mk(prev_keys') = {}
    <3> DEFINE h == << {} >>  e == Squeezed(display \o h)
    <3>1. h \in Seq(SUBSET MacroKeys) /\ h \in Seq(Reports) /\ h # << >> /\ Head(h) = {}
      BY DEF Reports
    <3>2. Extends(e, display, h, w, n)
      BY <1>1, <1>3, <1>5, <3>1, SqueezedExtends
    <3>3. display' = e
      BY <1>2, <1>13, <2>2 DEF Shown, Mk
    <3>4. w \o h = h
      BY <2>1, <3>1, ConcatEmptySeq
    <3> HIDE DEF e
    <3>5. /\ e \in Displays /\ Distinct(e) /\ Len(display) <= Len(e) /\ Len(e) \in Nat
          /\ \A j \in 1 .. Len(display) : e[j] = display[j]
          /\ Tells(h, n, e, Len(e))
      BY <3>2, <3>4, LenProperties DEF Extends, Displays
    <3>6. e[1] = Mk(view) /\ e[n] = Mk(prev_keys) /\ n <= Len(e)
      BY <1>3, <1>4, <3>5
    <3>7. Tells(queue, 1, e, n)
      BY <1>1, <1>3, <1>4, <3>5, TellsLonger
    <3> QED
      BY <1>11, <1>13, <2>1, <2>2, <3>1, <3>3, <3>5, <3>6, <3>7
  <2>3. CASE Mk(prev_keys') # {}
    <3>1. display' = display
      <4>1. display \o << >> = display
        BY <1>4, ConcatEmptySeq
      <4>2. display' = Squeezed(display)
        BY <1>2, <1>13, <2>3, <4>1 DEF Shown, Mk
      <4> QED
        BY <1>1, <1>4, <4>2, SqueezedSame
    <3>2. prev_keys' = prev_keys /\ keys' = built /\ Tells(queue', 1, display, n)
      <4>1. prev_keys' # built
        BY <1>8, <2>1, <2>3
      <4> QED
        BY <1>1, <1>2, <1>3, <1>4, <1>8, <4>1, LoopTells
    <3>3. Mk(keys') = {}
      BY <1>8, <2>1, <3>2
    <3>4. Waiting(macro_queue') = << >>
      BY <2>1 DEF Waiting
    <3>5. Tells(Waiting(macro_queue'), n, display, Len(display))
      BY <1>3, <2>1, <3>4
    <3> QED
      BY <1>1, <1>3, <1>4, <1>10, <3>1, <3>2, <3>3, <3>5
  <2> QED
    BY <2>2, <2>3
<1> QED
  BY <1>12, <1>13

-----------------------------------------------------------------------------
(* A poll, and the steps together.                                         *)

\* What the report at the front of the queue shows is seen already, or comes next.
LEMMA OldestShows ==
  ASSUME MacrosInv, queue # << >>
  PROVE  /\ queue \in Seq(Reports) /\ Head(queue) \in Reports /\ display \in Displays
         /\ display \in Seq(SUBSET MacroKeys) /\ Len(display) \in Nat \ {0}
         /\ Head(display) = Mk(view) /\ display[1] = Mk(view)
         /\ \E k \in 1 .. Len(display), c \in {1, 2} :
              /\ display[k] = Mk(prev_keys) /\ c <= k
              /\ Tells(Waiting(macro_queue), k, display, Len(display))
              /\ Moves(Head(queue), 1, display, c) /\ Tells(Tail(queue), c, display, k)
<1>1. /\ queue \in Seq(Reports) /\ display \in Displays /\ Accounted
  BY DEF MacrosInv, MacrosType
<1>2. display \in Seq(SUBSET MacroKeys) /\ Len(display) \in Nat \ {0}
  BY <1>1, EmptySeq DEF Displays
<1>3. display[1] = Mk(view) /\ Head(display) = display[1] /\ Head(queue) \in Reports
  BY <1>1, <1>2, HeadTailProperties DEF Accounted
<1>4. PICK k \in 1 .. Len(display) :
        /\ display[k] = Mk(prev_keys) /\ Tells(queue, 1, display, k)
        /\ Tells(Waiting(macro_queue), k, display, Len(display))
  BY <1>1 DEF Accounted
<1>5. PICK c \in {1, 1 + 1} :
        c <= k /\ Moves(Head(queue), 1, display, c) /\ Tells(Tail(queue), c, display, k)
  BY <1>1, <1>4, TellsHead
<1> QED
  BY <1>1, <1>2, <1>3, <1>4, <1>5

LEMMA SendStep == MacrosInv /\ SendReport => MacrosInv'
<1> SUFFICES ASSUME MacrosInv, SendReport PROVE MacrosInv'
  OBVIOUS
<1>1. /\ queue # << >> /\ queue' = Tail(queue)
      /\ macro_queue' = macro_queue /\ held' = held /\ keys' = keys /\ movement' = movement
      /\ prev_keys' = prev_keys /\ keys_first' = keys_first
  BY DEF SendReport
<1>2. /\ MacrosType /\ KeysOfFront /\ Distinct(display) /\ macro_queue \in Seq(Entry)
  BY DEF MacrosInv, MacrosType
<1>3. /\ queue \in Seq(Reports) /\ Head(queue) \in Reports /\ display \in Displays
      /\ display \in Seq(SUBSET MacroKeys) /\ Len(display) \in Nat \ {0}
      /\ Head(display) = Mk(view) /\ display[1] = Mk(view)
  BY <1>1, OldestShows
<1>4. PICK k \in 1 .. Len(display), c \in {1, 2} :
        /\ display[k] = Mk(prev_keys) /\ c <= k
        /\ Tells(Waiting(macro_queue), k, display, Len(display))
        /\ Moves(Head(queue), 1, display, c) /\ Tells(Tail(queue), c, display, k)
  BY <1>1, OldestShows
<1>5. queue' \in Seq(Reports) /\ Len(queue') <= Capacity
  BY <1>1, <1>2, <1>3, HeadTailProperties, LenProperties, SizesAssumption DEF MacrosType
<1>6. ASSUME view' \in SUBSET AllKeys, display' \in Displays, Distinct(display)', Accounted'
      PROVE  MacrosInv'
  BY <1>1, <1>2, <1>5, <1>6 DEF MacrosInv, MacrosType, KeysOfFront
<1>7. CASE Head(queue) = Moved
  <2>1. c = 1 /\ view' = view /\ display' = display
    BY <1>4, <1>7 DEF Moves, SendReport
  <2>2. Accounted'
    BY <1>1, <1>3, <1>4, <2>1 DEF Accounted
  <2> QED
    BY <1>2, <1>3, <1>6, <2>1, <2>2 DEF MacrosType
<1>8. CASE Head(queue) # Moved /\ Mk(Head(queue)) = Mk(view)
  <2>1. view' = Head(queue) /\ display' = display
    BY <1>3, <1>8 DEF SendReport, Mk
  <2>2. c = 1
    <3>1. c = 2 => 1 \in 1 .. Len(display) - 1 /\ display[1] = display[1 + 1]
      BY <1>3, <1>4, <1>8 DEF Moves
    <3> QED
      BY <1>2, <3>1 DEF Distinct
  <2>3. Accounted'
    BY <1>1, <1>3, <1>4, <1>8, <2>1, <2>2 DEF Accounted
  <2>4. view' \in SUBSET AllKeys
    BY <1>3, <1>8, <2>1 DEF Reports
  <2> QED
    BY <1>2, <1>3, <1>6, <2>1, <2>3, <2>4
<1>9. CASE Head(queue) # Moved /\ Mk(Head(queue)) # Mk(view)
  <2> DEFINE d == Tail(display)
  <2>1. view' = Head(queue) /\ display' = d /\ view' \in SUBSET AllKeys
    BY <1>3, <1>9 DEF SendReport, Mk, Reports
  <2>2. c = 2 /\ k \in 2 .. Len(display) /\ display[2] = Mk(view')
    BY <1>3, <1>4, <1>9, <2>1 DEF Moves
  <2>3. /\ d \in Seq(SUBSET MacroKeys) /\ Len(d) = Len(display) - 1 /\ Len(d) \in Nat \ {0}
        /\ \A j \in 1 .. Len(display) - 1 : d[j] = display[j + 1]
    BY <1>3, <2>2, HeadTailProperties
  <2> HIDE DEF d
  <2>4. d \in Displays
    BY <2>3, EmptySeq DEF Displays
  <2>5. ASSUME NEW j \in 1 .. Len(d) - 1 PROVE d[j] # d[j + 1]
    <3> DEFINE i == j + 1
    <3>1. /\ d[j] = display[i] /\ d[j + 1] = display[i + 1]
          /\ i \in 1 .. Len(display) - 1
      BY <1>3, <2>3
    <3> HIDE DEF i
    <3> QED
      BY <1>2, <3>1 DEF Distinct
  <2>6. Distinct(d)
    BY <2>5 DEF Distinct
  <2> DEFINE m == k - 1
  <2>7. /\ m \in Nat \ {0} /\ k = m + 1 /\ m \in 1 .. Len(d) /\ Len(display) = Len(d) + 1
        /\ d[m] = display[k] /\ d[1] = Mk(view')
    <3>1. /\ m \in 1 .. Len(display) - 1 /\ m + 1 = k /\ m \in Nat \ {0}
          /\ 1 \in 1 .. Len(display) - 1 /\ m \in 1 .. Len(d)
      BY <1>3, <2>2, <2>3
    <3>2. d[m] = display[m + 1] /\ d[1] = display[1 + 1]
      BY <2>3, <3>1
    <3>3. Len(display) = Len(d) + 1
      BY <1>3, <2>3
    <3> HIDE DEF m
    <3> QED
      BY <2>2, <3>1, <3>2, <3>3
  <2> HIDE DEF m
  <2>8. Tells(Tail(queue), 1, d, m)
    <3> SUFFICES ASSUME NEW a \in Nat \ {0}, a = 1 PROVE Tells(Tail(queue), a, d, m)
      OBVIOUS
    <3>1. a + 1 = c
      BY <2>2
    <3>2. Tail(queue) \in Seq(Reports) /\ Tells(Tail(queue), a + 1, display, m + 1)
      BY <1>1, <1>4, <1>5, <2>7, <3>1
    <3>3. m + 1 <= Len(display)
      BY <2>7
    <3> QED
      BY <1>3, <2>7, <3>2, <3>3, TellsBehind DEF d
  <2>9. Tells(Waiting(macro_queue), m, d, Len(d))
    <3>1. /\ Waiting(macro_queue) \in Seq(Reports)
          /\ Tells(Waiting(macro_queue), m + 1, display, Len(d) + 1)
      BY <1>2, <1>4, <2>7, WaitingIs
    <3>2. Len(d) \in Nat /\ Len(d) + 1 <= Len(display)
      BY <2>3, <2>7
    <3> QED
      BY <1>3, <2>7, <3>1, <3>2, TellsBehind DEF d
  <2>10. Accounted'
    BY <1>1, <1>4, <2>1, <2>7, <2>8, <2>9 DEF Accounted
  <2> QED
    BY <1>6, <2>1, <2>4, <2>6, <2>10
<1> QED
  BY <1>7, <1>8, <1>9

LEMMA MacrosInitially == MacrosInit => MacrosInv
<1> SUFFICES ASSUME MacrosInit PROVE MacrosInv
  OBVIOUS
<1>1. /\ keys_first \in BOOLEAN /\ macro_queue = << >> /\ held = {} /\ keys = {}
      /\ movement = FALSE /\ prev_keys = {} /\ queue = << >> /\ view = {}
      /\ display = << {} >>
  BY DEF MacrosInit
<1>2. Len(<< >>) = 0 /\ Capacity \in Nat /\ Waiting(<< >>) = << >>
  BY SizesAssumption DEF Waiting
<1>3. Len(display) = 1 /\ display[1] = {} /\ display \in Displays /\ Mk({}) = {}
  BY <1>1 DEF Displays, Mk
<1>4. MacrosType
  <2>1. macro_queue \in Seq(Entry) /\ queue \in Seq(Reports) /\ Len(queue) <= Capacity
    <3>1. << >> \in Seq(Entry) /\ << >> \in Seq(Reports)
      BY EmptySeq
    <3> QED
      BY <1>1, <1>2, <3>1
  <2>2. {} \in SUBSET Keys /\ {} \in SUBSET AllKeys
    OBVIOUS
  <2> QED
    BY <1>1, <1>3, <2>1, <2>2 DEF MacrosType
<1>5. KeysOfFront /\ Distinct(display)
  BY <1>1, <1>3 DEF KeysOfFront, Distinct
<1>6. Accounted
  <2>1. Tells(<< >>, 1, display, 1)
    BY TellsNothing
  <2>2. Tells(queue, 1, display, 1) /\ Tells(Waiting(macro_queue), 1, display, Len(display))
    BY <1>1, <1>2, <1>3, <2>1
  <2>3. display[1] = Mk(view) /\ display[1] = Mk(prev_keys) /\ 1 \in 1 .. Len(display)
    BY <1>1, <1>3
  <2> QED
    BY <2>2, <2>3 DEF Accounted
<1> QED
  BY <1>4, <1>5, <1>6 DEF MacrosInv

LEMMA MacrosStep == MacrosInv /\ [MacrosNext]_macros => MacrosInv'
<1> SUFFICES ASSUME MacrosInv, [MacrosNext]_macros PROVE MacrosInv'
  OBVIOUS
<1>1. CASE Press
  <2>1. /\ held' \in SUBSET Keys
        /\ UNCHANGED <<keys_first, macro_queue, keys, movement, prev_keys, queue, view, display>>
    BY <1>1 DEF Press
  <2> QED
    BY <2>1 DEF MacrosInv, MacrosType, KeysOfFront, Accounted
<1>2. CASE SendReport
  BY <1>2, SendStep
<1>3. ASSUME NEW motion \in BOOLEAN, Idle(motion) PROVE MacrosInv'
  <2>1. << >> \in Seq(SUBSET MacroKeys) /\ 0 \in Nat
    BY EmptySeq
  <2> QED
    BY <1>3, <2>1, FrameStep DEF Idle
<1>4. ASSUME NEW i \in DOMAIN MacroList PROVE MacroList[i] \in Seq(SUBSET MacroKeys)
  BY EntriesAssumption, ElementOfSeq
<1>5. ASSUME NEW i \in DOMAIN MacroList, NEW motion \in BOOLEAN, Trigger(i, motion)
      PROVE  MacrosInv'
  <2>1. PICK duration \in Durations : FrameOf(MacroList[i], duration, motion)
    BY <1>5 DEF Trigger
  <2> QED
    BY <1>4, <2>1, FrameStep, SizesAssumption
<1>6. ASSUME NEW i \in DOMAIN MacroList, NEW j \in DOMAIN MacroList, TriggerTwo(i, j)
      PROVE  MacrosInv'
  <2>1. PICK duration \in Durations :
          FrameOf(MacroList[i] \o MacroList[j], duration, FALSE)
    BY <1>6 DEF TriggerTwo
  <2>2. MacroList[i] \o MacroList[j] \in Seq(SUBSET MacroKeys)
    BY <1>4, ConcatProperties
  <2> QED
    BY <2>1, <2>2, FrameStep, SizesAssumption
<1>7. CASE UNCHANGED macros
  BY <1>7 DEF macros, MacrosInv, MacrosType, KeysOfFront, Accounted
<1> QED
  BY <1>1, <1>2, <1>3, <1>5, <1>6, <1>7 DEF MacrosNext, Frame

\* What the host has still to see of macros is what the reports in the queue and the
\* entries in macro_queue go through, in this order and to the end: no entry is
\* lost, added or out of place in between, whatever the macros, the durations, the
\* size of the queue and the order in which the send loop takes the reports.
THEOREM QueuesAccountForMacros == MacrosSpec => [](MacrosType /\ Accounted)
<1>1. MacrosInv => MacrosType /\ Accounted
  BY DEF MacrosInv
<1> QED
  BY <1>1, MacrosInitially, MacrosStep, PTL DEF MacrosSpec

\* The host sees the entries of every macro in the order triggered, each of them
\* once and without the keys of another one, for every list of macros, those of one
\* entry and those that repeat an entry included.
THEOREM EntriesInOrder == MacrosSpec => EntriesAreTypedInOrder
<1>1. MacrosInv /\ [MacrosNext]_macros =>
        [(SendReport /\ Head(queue) # Moved) =>
           LET shown == Head(queue) \cap MacroKeys IN
             \/ shown = view \cap MacroKeys
             \/ Len(display) > 1 /\ shown = display[2]]_macros
  <2> SUFFICES ASSUME MacrosInv, SendReport, Head(queue) # Moved
               PROVE  LET shown == Head(queue) \cap MacroKeys IN
                        \/ shown = view \cap MacroKeys
                        \/ Len(display) > 1 /\ shown = display[2]
    OBVIOUS
  <2>1. queue # << >>
    BY DEF SendReport
  <2>2. /\ display[1] = Mk(view) /\ Len(display) \in Nat
        /\ \E k \in 1 .. Len(display), c \in {1, 2} :
             c <= k /\ Moves(Head(queue), 1, display, c)
    BY <2>1, OldestShows
  <2>3. Mk(Head(queue)) = Mk(view) \/ (Len(display) > 1 /\ Mk(Head(queue)) = display[2])
    BY <2>2 DEF Moves
  <2> QED
    BY <2>3 DEF Mk
<1> QED
  BY <1>1, MacrosInitially, MacrosStep, PTL DEF MacrosSpec, EntriesAreTypedInOrder
=============================================================================
