---------------------------- MODULE Frame_proofs ----------------------------
(* Proofs about parts of a frame that share no state: taps, holds, sticky    *)
(* inputs and layers, for every set of configurations; and expressions, for  *)
(* every size of the stack and set of programs: the check accepts a program  *)
(* if and only if evaluating it stays within the stack.                      *)
EXTENDS LayerEngine, Expressions, SequenceTheorems, WellFoundedInduction, TLAPS

-----------------------------------------------------------------------------
(* Taps, holds, sticky inputs and layers.                                  *)

\* An input in hold has been pressed for the threshold, and the press goes on.
HeldLongEnough ==
  \A u \in Usages :
    hold[u] => /\ age[u] = Threshold
               /\ (cursor = 0 => prev_input[u])
               /\ (cursor # 0 => input[u])

\* The layer that m triggers is one that m is present on.
OnItsLayer(m) == m.target < NLAYERS \/ m.target \in m.layers

\* What the loop owes to each mapping behind it.
Settled(m) ==
  /\ m.sticky /\ Stuck(m, sticky[m.usage]) => m.target \in new_layers
  /\ ~m.sticky /\ OnItsLayer(m) /\ Momentary(m) /\ m.target \in layers
       => m.target \in new_layers
  /\ m.sticky /\ Engaged(m) /\ m.target \in layers => ~Stuck(m, sticky[m.usage])

LoopSettles ==
  \A i \in 1 .. Len(sources) :
    i < cursor /\ sources[i].target \in Layers => Settled(sources[i])

Inv == TypeOK /\ HeldLongEnough /\ LoopSettles /\ StickyLayersAreActive
-----------------------------------------------------------------------------
LEMMA EffectiveType ==
  ASSUME NEW m \in Mapping
  PROVE  Effective(m) \subseteq Layers
BY DEF Effective, Mapping

LEMMA SourceType ==
  ASSUME sources \in Configs, NEW i \in 1 .. Len(sources)
  PROVE  /\ sources[i] \in Mapping
         /\ sources[i] \in Mappings
         /\ Len(sources) \in Nat
BY ConfigsAssumption DEF Mappings

LEMMA MappingsType ==
  ASSUME sources \in Configs
  PROVE  Mappings \subseteq Mapping /\ Len(sources) \in Nat
BY ConfigsAssumption DEF Mappings

LEMMA MaskType ==
  ASSUME sources \in Configs, NEW u
  PROVE  /\ PlainMask(u) \subseteq Layers
         /\ TapMask(u) \subseteq Layers
         /\ HoldMask(u) \subseteq Layers
<1>1. \A m \in Sticky(u) : Effective(m) \subseteq Layers
  BY EffectiveType, MappingsType DEF Sticky
<1> QED
  BY <1>1 DEF PlainMask, TapMask, HoldMask, Mask

LEMMA Initially == Init => Inv
<1> SUFFICES ASSUME Init PROVE Inv
  OBVIOUS
<1>0. Len(sources) \in Nat
  BY MappingsType DEF Init
<1>1. TypeOK
  BY <1>0, LayersAssumption DEF Init, TypeOK, Blank, Layers
<1>2. HeldLongEnough
  BY DEF Init, HeldLongEnough, Blank
<1>3. LoopSettles
  BY <1>0 DEF Init, LoopSettles
<1>4. StickyLayersAreActive
  <2> SUFFICES ASSUME NEW m \in LayerTriggers, Stuck(m, sticky[m.usage])
               PROVE  FALSE
    BY DEF StickyLayersAreActive
  <2>1. m.usage \in Usages
    BY MappingsType DEF LayerTriggers, Init, Mapping
  <2> QED
    BY <2>1 DEF Init, Blank, Stuck
<1> QED
  BY <1>1, <1>2, <1>3, <1>4 DEF Inv

LEMMA ForgetType ==
  ASSUME Forget
  PROVE  /\ input' \in [Usages -> BOOLEAN] /\ prev_input' \in [Usages -> BOOLEAN]
         /\ age' \in [Usages -> 0 .. Threshold]
         /\ tap' \in [Usages -> BOOLEAN] /\ hold' \in [Usages -> BOOLEAN]
         /\ prev_hold' \in [Usages -> BOOLEAN]
         /\ sticky' \in [Usages -> SUBSET Layers]
BY LayersAssumption DEF Forget, Blank

\* Forgetting the input keeps the invariant, whatever becomes of the active
\* layers and the configuration.
LEMMA ForgetKeeps ==
  ASSUME Inv, Forget, cursor = 0, UNCHANGED <<cursor, new_layers>>,
         sources' \in Configs, layers' = layers \/ layers' = {0}
  PROVE  Inv'
<1>0. Len(sources') \in Nat /\ Mappings' \subseteq Mapping
  BY ConfigsAssumption DEF Mappings
<1>1. TypeOK'
  <2>1. layers' \subseteq Layers /\ layers' # {}
    <3>1. {0} \subseteq Layers
      BY LayersAssumption DEF Layers
    <3> QED
      BY <3>1 DEF Inv, TypeOK
  <2>2. new_layers' \subseteq Layers
    BY DEF Inv, TypeOK
  <2>3. cursor' \in 0 .. Len(sources') + 1
    BY <1>0
  <2> QED
    BY <2>1, <2>2, <2>3, ForgetType DEF TypeOK
<1>2. HeldLongEnough'
  BY DEF Forget, HeldLongEnough, Blank
<1>3. LoopSettles'
  BY <1>0 DEF LoopSettles
<1>4. StickyLayersAreActive'
  <2> SUFFICES ASSUME NEW m \in LayerTriggers', Stuck(m, sticky'[m.usage])
               PROVE  FALSE
    BY DEF StickyLayersAreActive, Stuck, Effective
  <2>1. m.usage \in Usages
    BY <1>0 DEF LayerTriggers, Mapping
  <2> QED
    BY <2>1 DEF Forget, Blank, Stuck
<1> QED
  BY <1>1, <1>2, <1>3, <1>4 DEF Inv

LEMMA BeginFrameKeeps ==
  ASSUME Inv, NEW ticks \in 1 .. Threshold + 1, BeginFrame(ticks)
  PROVE  Inv'
<1> USE DEF Inv
<1>1. TypeOK'
  <2>1. age' \in [Usages -> 0 .. Threshold]
    <3>1. \A u \in Usages : Age(u, ticks) \in 0 .. Threshold
      BY LayersAssumption DEF TypeOK, Age, Capped
    <3> QED
      BY <3>1 DEF BeginFrame, TypeOK
  <2>2. /\ tap' \in [Usages -> BOOLEAN] /\ hold' \in [Usages -> BOOLEAN]
        /\ prev_hold' \in [Usages -> BOOLEAN]
    BY DEF BeginFrame, TypeOK
  <2>3. sticky' \in [Usages -> SUBSET Layers]
    <3>1. \A u \in Usages : Toggled(u) \subseteq Layers
      BY MaskType DEF TypeOK, Toggled, Toggle, When
    <3> QED
      BY <3>1 DEF BeginFrame
  <2>4. cursor' \in 0 .. Len(sources) + 1
    BY MappingsType DEF BeginFrame, TypeOK
  <2> QED
    BY <2>1, <2>2, <2>3, <2>4 DEF BeginFrame, TypeOK
<1>2. HeldLongEnough'
  <2> SUFFICES ASSUME NEW u \in Usages, hold'[u]
               PROVE  age'[u] = Threshold /\ input'[u]
    BY DEF HeldLongEnough, BeginFrame
  <2>1. age'[u] \in 0 .. Threshold
    BY <1>1 DEF TypeOK
  <2>2. input[u] /\ age'[u] >= Threshold
    BY Zenon DEF BeginFrame
  <2>3. age'[u] = Threshold
    BY <2>1, <2>2, LayersAssumption
  <2> QED
    BY <2>2, <2>3 DEF BeginFrame
<1>3. LoopSettles'
  BY MappingsType DEF LoopSettles, BeginFrame, TypeOK
<1>4. StickyLayersAreActive'
  BY DEF StickyLayersAreActive, BeginFrame
<1> QED
  BY <1>1, <1>2, <1>3, <1>4

\* A step of the loop settles the mapping it takes.
LEMMA ApplySettles ==
  ASSUME TypeOK, NEW m \in Mapping, m.usage \in Usages,
         UNCHANGED <<input, prev_input, tap_hold_state, layers>>,
         ApplyMomentary(m) \/ ApplySticky(m)
  PROVE  Settled(m)'
<1>1. Engaged(m)' = Engaged(m)
  BY DEF Engaged, Pressed, tap_hold_state
<1>2. Momentary(m)' = Momentary(m)
  BY DEF Momentary, tap_hold_state
<1>3. CASE ApplyMomentary(m)
  <2>1. ~m.sticky
    BY <1>3 DEF ApplyMomentary
  <2>2. OnItsLayer(m) /\ m.target \in layers => Effective(m) \cap layers # {}
    <3> SUFFICES ASSUME OnItsLayer(m), m.target \in layers
                 PROVE  m.target \in Effective(m)
      OBVIOUS
    <3>1. m.target \in Layers
      BY DEF TypeOK
    <3>2. m.target < NLAYERS => m.target \in 0 .. NLAYERS - 1
      BY <3>1, LayersAssumption DEF Layers
    <3> QED
      BY <2>1, <3>1, <3>2 DEF Effective, OnItsLayer
  <2> QED
    BY <1>2, <1>3, <2>1, <2>2 DEF ApplyMomentary, Settled, When
<1>4. CASE ApplySticky(m)
  <2> DEFINE off == Engaged(m) /\ Stuck(m, sticky[m.usage]) /\ m.target \in layers
  <2>1. m.sticky
    BY <1>4 DEF ApplySticky
  <2>2. sticky'[m.usage] = sticky[m.usage] \ When(off, Effective(m))
    BY <1>4 DEF ApplySticky, TypeOK
  <2>3. Stuck(m, sticky'[m.usage]) => m.target \in new_layers'
    BY <1>4 DEF ApplySticky, When
  <2>4. Engaged(m) /\ m.target \in layers => ~Stuck(m, sticky'[m.usage])
    BY <2>2 DEF Stuck, When
  <2> QED
    BY <1>1, <2>1, <2>3, <2>4 DEF Settled, Stuck
<1> QED
  BY <1>3, <1>4

\* What was settled stays so: the loop takes sticky state away and adds layers.
LEMMA SettledStays ==
  ASSUME TypeOK, NEW m \in Mapping, m.usage \in Usages, Settled(m),
         UNCHANGED <<input, prev_input, tap_hold_state, layers>>,
         new_layers \subseteq new_layers',
         sticky'[m.usage] \subseteq sticky[m.usage]
  PROVE  Settled(m)'
<1>1. Engaged(m)' = Engaged(m)
  BY DEF Engaged, Pressed, tap_hold_state
<1>2. Momentary(m)' = Momentary(m)
  BY DEF Momentary, tap_hold_state
<1>3. Stuck(m, sticky'[m.usage]) => Stuck(m, sticky[m.usage])
  BY DEF Stuck
<1> QED
  BY <1>1, <1>2, <1>3 DEF Settled, Stuck

LEMMA ApplyType ==
  ASSUME TypeOK, NEW m \in Mapping, m.usage \in Usages, m.target \in Layers,
         ApplyMomentary(m) \/ ApplySticky(m)
  PROVE  /\ new_layers' \subseteq Layers
         /\ new_layers \subseteq new_layers'
         /\ sticky' \in [Usages -> SUBSET Layers]
         /\ \A u \in Usages : sticky'[u] \subseteq sticky[u]
<1>1. CASE ApplyMomentary(m)
  BY <1>1 DEF ApplyMomentary, When, TypeOK
<1>2. CASE ApplySticky(m)
  BY <1>2 DEF ApplySticky, When, TypeOK
<1> QED
  BY <1>1, <1>2

LEMMA ApplyKeeps ==
  ASSUME Inv, Apply
  PROVE  Inv'
<1> DEFINE m == sources[cursor]
<1>0. m \in Mapping /\ m.usage \in Usages /\ Len(sources) \in Nat
  BY SourceType DEF Apply, Inv, TypeOK, Mapping
<1>1. UNCHANGED <<sources, input, prev_input, tap_hold_state, layers>>
  BY DEF Apply
<1>2. cursor \in 1 .. Len(sources) /\ cursor' = cursor + 1
  BY DEF Apply
<1>3. \/ m.target \notin Layers /\ UNCHANGED <<sticky, new_layers>>
      \/ m.target \in Layers /\ (ApplyMomentary(m) \/ ApplySticky(m))
  BY DEF Apply, SkipOther
<1>4. /\ new_layers' \subseteq Layers
      /\ new_layers \subseteq new_layers'
      /\ sticky' \in [Usages -> SUBSET Layers]
      /\ \A u \in Usages : sticky'[u] \subseteq sticky[u]
  BY <1>0, <1>3, ApplyType DEF Inv, TypeOK
<1>5. TypeOK'
  BY <1>0, <1>1, <1>2, <1>4 DEF Inv, TypeOK, tap_hold_state
<1>6. HeldLongEnough'
  BY <1>1, <1>2 DEF Inv, HeldLongEnough, tap_hold_state
<1>7. LoopSettles'
  <2>1. ASSUME NEW n \in Mapping, NEW i \in 1 .. Len(sources), n = sources[i],
               i < cursor + 1, n.target \in Layers
        PROVE  Settled(n)'
    <3>1. n.usage \in Usages
      BY DEF Mapping
    <3>2. CASE i = cursor
      BY <1>1, <1>3, <2>1, <3>1, <3>2, ApplySettles DEF Inv
    <3>3. CASE i # cursor
      <4>1. i < cursor
        BY <1>2, <2>1, <3>3
      <4>2. Settled(n)
        BY <2>1, <4>1 DEF Inv, LoopSettles
      <4> QED
        BY <1>1, <1>4, <3>1, <4>2, SettledStays DEF Inv
    <3> QED
      BY <3>2, <3>3
  <2>2. \A i \in 1 .. Len(sources) : sources[i] \in Mapping
    BY SourceType DEF Inv, TypeOK
  <2> QED
    BY <1>1, <1>2, <2>1, <2>2
    DEF LoopSettles, Settled, Stuck, Effective, Momentary, Engaged, Pressed, OnItsLayer
<1>8. StickyLayersAreActive'
  BY <1>2 DEF StickyLayersAreActive
<1> QED
  BY <1>5, <1>6, <1>7, <1>8 DEF Inv

\* At the end of the loop every mapping is settled.
LEMMA AllSettled ==
  ASSUME Inv, cursor = Len(sources) + 1, NEW m \in LayerTriggers
  PROVE  Settled(m)
<1>1. PICK i \in 1 .. Len(sources) : m = sources[i] /\ m.target \in Layers
  BY DEF LayerTriggers, Mappings
<1>2. i < cursor
  BY <1>1, MappingsType DEF Inv, TypeOK
<1> QED
  BY <1>1, <1>2 DEF Inv, LoopSettles

LEMMA EndFrameKeeps ==
  ASSUME Inv, EndFrame
  PROVE  Inv'
<1>0. Len(sources) \in Nat /\ cursor # 0 /\ cursor = Len(sources) + 1
  BY MappingsType DEF EndFrame, Inv, TypeOK
<1>1. TypeOK'
  <2>1. {0} \subseteq Layers
    BY LayersAssumption DEF Layers
  <2>2. layers' \subseteq Layers /\ layers' # {}
    BY <2>1 DEF EndFrame, Inv, TypeOK
  <2>3. cursor' \in 0 .. Len(sources) + 1
    BY <1>0 DEF EndFrame
  <2> QED
    BY <2>2, <2>3 DEF EndFrame, Inv, TypeOK, tap_hold_state
<1>2. HeldLongEnough'
  BY <1>0 DEF Inv, HeldLongEnough, EndFrame, tap_hold_state
<1>3. LoopSettles'
  BY <1>0 DEF LoopSettles, EndFrame
<1>4. StickyLayersAreActive'
  <2> SUFFICES ASSUME NEW m \in LayerTriggers, m.sticky, Stuck(m, sticky[m.usage])
               PROVE  m.target \in layers'
    BY DEF EndFrame, StickyLayersAreActive, LayerTriggers, Mappings, Stuck, Effective
  <2>1. m.target \in new_layers
    BY <1>0, AllSettled DEF Settled
  <2> QED
    BY <2>1 DEF EndFrame
<1> QED
  BY <1>1, <1>2, <1>3, <1>4 DEF Inv

LEMMA ReceiveInputKeeps ==
  ASSUME Inv, NEW u \in Usages, ReceiveInput(u)
  PROVE  Inv'
<1>1. TypeOK'
  BY DEF ReceiveInput, Inv, TypeOK, tap_hold_state
<1>2. HeldLongEnough'
  BY DEF ReceiveInput, Inv, HeldLongEnough, tap_hold_state
<1>3. LoopSettles'
  BY MappingsType DEF ReceiveInput, Inv, TypeOK, LoopSettles
<1>4. StickyLayersAreActive'
  BY DEF ReceiveInput, Inv, StickyLayersAreActive, LayerTriggers, Mappings, Stuck,
         Effective
<1> QED
  BY <1>1, <1>2, <1>3, <1>4 DEF Inv

LEMMA StutterKeeps ==
  ASSUME Inv, UNCHANGED vars
  PROVE  Inv'
<1> USE DEF vars, tap_hold_state
<1>1. TypeOK'
  BY DEF Inv, TypeOK
<1>2. HeldLongEnough'
  BY DEF Inv, HeldLongEnough
<1>3. LoopSettles'
  BY DEF Inv, LoopSettles, Settled, Stuck, Effective, Momentary, Engaged, Pressed, OnItsLayer
<1>4. StickyLayersAreActive'
  BY DEF Inv, StickyLayersAreActive, LayerTriggers, Mappings, Stuck, Effective
<1> QED
  BY <1>1, <1>2, <1>3, <1>4 DEF Inv

LEMMA Inductive == Inv /\ [Next]_vars => Inv'
<1> SUFFICES ASSUME Inv, [Next]_vars
             PROVE  Inv'
  OBVIOUS
<1>1. ASSUME NEW u \in Usages, ReceiveInput(u) PROVE Inv'
  BY <1>1, ReceiveInputKeeps
<1>2. CASE Resume
  BY <1>2, ForgetKeeps DEF Resume
<1>3. CASE SwitchProtocol
  BY <1>3, ForgetKeeps DEF SwitchProtocol, Inv, TypeOK
<1>4. CASE Frame
  BY <1>4, BeginFrameKeeps DEF Frame
<1>5. CASE Apply
  BY <1>5, ApplyKeeps
<1>6. CASE EndFrame
  BY <1>6, EndFrameKeeps
<1>7. CASE UNCHANGED vars
  BY <1>7, StutterKeeps
<1> QED
  BY <1>1, <1>2, <1>3, <1>4, <1>5, <1>6, <1>7 DEF Next

LEMMA Invariance == Spec => []Inv
<1> QED
  BY Initially, Inductive, PTL DEF Spec
-----------------------------------------------------------------------------
\* Every variable stays in its type, and at least one layer is always active,
\* for every set of configurations, number of layers and threshold.
THEOREM TypeCorrect == Spec => []TypeOK
<1>1. Inv => TypeOK
  BY DEF Inv
<1> QED
  BY <1>1, Invariance, PTL

\* The sticky state of process_mapping() and its active layers agree between
\* frames, for every configuration.
THEOREM StickyAndLayersAgree == Spec => []StickyLayersAreActive
<1>1. Inv => StickyLayersAreActive
  BY DEF Inv
<1> QED
  BY <1>1, Invariance, PTL

\* Only the last step of the loop ends a frame.
LEMMA OnlyEndFrame ==
  ASSUME Inv, [Next]_vars, FrameEnds
  PROVE  EndFrame
<1>1. cursor \in 0 .. Len(sources) + 1 /\ Len(sources) \in Nat
  BY MappingsType DEF Inv, TypeOK
<1> QED
  BY <1>1 DEF FrameEnds, Next, vars, ReceiveInput, Resume, SwitchProtocol, Frame,
              BeginFrame, Apply

\* The layer masks of set_mapping_from_config() do what they are for: switching
\* a layer never takes away the trigger that holds it, for every layer the
\* function forces a trigger onto and every other that the trigger is present on.
THEOREM MomentaryLayersHold == Spec => MomentaryLayerHolds
<1>1. Inv /\ [Next]_vars =>
        [FrameEnds =>
          \A m \in LayerTriggers :
            m.target < NLAYERS \/ m.target \in m.layers => KeepsItsLayer(m)]_vars
  <2> SUFFICES ASSUME Inv, [Next]_vars, FrameEnds, NEW m \in LayerTriggers,
                      OnItsLayer(m), ~m.sticky, Momentary(m), m.target \in layers
               PROVE  m.target \in layers'
    BY DEF KeepsItsLayer, OnItsLayer
  <2>1. EndFrame
    BY OnlyEndFrame
  <2>2. m.target \in new_layers
    BY <2>1, AllSettled DEF EndFrame, Settled
  <2> QED
    BY <2>1, <2>2 DEF EndFrame
<1> QED
  BY <1>1, Invariance, PTL DEF Spec, MomentaryLayerHolds

\* Whatever other mappings do in the same frame, a second press of a sticky
\* trigger clears the sticky state it had set.
THEOREM StickyPressesTurnOff == Spec => StickyPressTurnsOff
<1>1. Inv /\ [Next]_vars =>
        [FrameEnds =>
          \A m \in LayerTriggers :
            m.sticky /\ Engaged(m) /\ m.target \in layers
              => ~Stuck(m, sticky'[m.usage])]_vars
  <2> SUFFICES ASSUME Inv, [Next]_vars, FrameEnds, NEW m \in LayerTriggers,
                      m.sticky, Engaged(m), m.target \in layers
               PROVE  ~Stuck(m, sticky'[m.usage])
    OBVIOUS
  <2>1. EndFrame
    BY OnlyEndFrame
  <2>2. ~Stuck(m, sticky[m.usage])
    BY <2>1, AllSettled DEF EndFrame, Settled
  <2> QED
    BY <2>1, <2>2 DEF EndFrame
<1> QED
  BY <1>1, Invariance, PTL DEF Spec, StickyPressTurnsOff

\* No press is both a hold and a tap, for any threshold and however irregularly
\* the frames come.
THEOREM TapOrHoldNotBoth == Spec => TapNeverFollowsHold
<1>1. Inv /\ [Next]_vars =>
        [(cursor = 0 /\ cursor' = 1) => \A u \in Usages : ~(tap'[u] /\ hold[u])]_vars
  <2> SUFFICES ASSUME Inv, [Next]_vars, cursor = 0, cursor' = 1,
                      NEW u \in Usages, tap'[u], hold[u]
               PROVE  FALSE
    OBVIOUS
  <2>1. PICK ticks \in 1 .. Threshold + 1 : BeginFrame(ticks)
    BY DEF Next, vars, ReceiveInput, Resume, SwitchProtocol, Frame, Apply, EndFrame
  <2>2. u \in TapHold /\ Released(u) /\ age'[u] < Threshold
    BY <2>1, Zenon DEF BeginFrame
  <2>3. age[u] = Threshold
    BY DEF Inv, HeldLongEnough
  <2>4. age'[u] = Age(u, ticks)
    BY <2>1, <2>2 DEF BeginFrame
  <2>5. Age(u, ticks) = Threshold
    BY <2>2, <2>3, LayersAssumption DEF Age, Capped, Pressed, Released
  <2> QED
    BY <2>2, <2>4, <2>5, LayersAssumption
<1> QED
  BY <1>1, Invariance, PTL DEF Spec, TapNeverFollowsHold
-----------------------------------------------------------------------------
(* Where a layer that comes on comes from.                                 *)

\* What switches the layer of m on acts in this frame.
Acts(m) == IF m.sticky THEN \E n \in Sticky(m.usage) : Engaged(n) ELSE Momentary(m)

\* In a frame, what the sticky state and the loop so far call for was on before
\* or has a trigger that acts.
Explained ==
  cursor # 0 =>
    /\ \A m \in LayerTriggers :
         m.sticky /\ Stuck(m, sticky[m.usage]) => m.target \in layers \/ Acts(m)
    /\ \A l \in new_layers :
         l \in layers \/ \E m \in LayerTriggers : m.target = l /\ Acts(m)

\* Without a sticky trigger that acts, the loops that toggle the sticky state of
\* an input leave it alone.
LEMMA ToggledOnlyByTrigger ==
  ASSUME Inv, NEW ticks \in 1 .. Threshold + 1, BeginFrame(ticks), NEW u \in Usages,
         \A n \in Sticky(u) : ~Engaged(n)'
  PROVE  sticky'[u] = sticky[u]
<1>1. \A n \in Sticky(u) : n.usage = u
  BY DEF Sticky
<1>2. Pressed(u)' = Pressed(u)
  BY DEF BeginFrame, Pressed
<1>3. Pressed(u) => PlainMask(u) = {}
  BY <1>1, <1>2 DEF PlainMask, Mask, Engaged, Pressed
<1>4. tap'[u] => TapMask(u) = {}
  BY <1>1 DEF TapMask, Mask, Engaged
<1>5. hold'[u] /\ ~prev_hold'[u] => HoldMask(u) = {}
  BY <1>1 DEF HoldMask, Mask, Engaged
<1>6. sticky'[u] = Toggled(u)
  BY DEF BeginFrame
<1>7. Toggle(sticky[u], {}) = sticky[u]
  BY DEF Toggle
<1>8. /\ When(Pressed(u), layers \cap PlainMask(u)) = {}
      /\ When(tap'[u], layers \cap TapMask(u)) = {}
      /\ When(hold'[u] /\ ~prev_hold'[u], layers \cap HoldMask(u)) = {}
  BY <1>3, <1>4, <1>5 DEF When
<1> QED
  BY <1>6, <1>7, <1>8 DEF Toggled

\* Within a frame whether a trigger acts does not change.
LEMMA ActsStays ==
  ASSUME UNCHANGED <<sources, input, prev_input, tap_hold_state>>, NEW m
  PROVE  Acts(m)' = Acts(m)
BY DEF Acts, Sticky, Mappings, Engaged, Momentary, Pressed, tap_hold_state

LEMMA TriggersStay ==
  ASSUME UNCHANGED sources
  PROVE  LayerTriggers' = LayerTriggers
BY DEF LayerTriggers, Mappings

LEMMA BeginFrameExplains ==
  ASSUME Inv, NEW ticks \in 1 .. Threshold + 1, BeginFrame(ticks)
  PROVE  Explained'
<1>1. LayerTriggers' = LayerTriggers
  BY TriggersStay DEF BeginFrame
<1>2. ASSUME NEW m \in LayerTriggers, m.sticky, Stuck(m, sticky'[m.usage]),
             ~Acts(m)'
      PROVE  m.target \in layers
  <2>1. m.usage \in Usages
    BY MappingsType DEF Inv, TypeOK, LayerTriggers, Mapping
  <2>2. Sticky(m.usage)' = Sticky(m.usage)
    BY DEF BeginFrame, Sticky, Mappings
  <2>3. \A n \in Sticky(m.usage) : ~Engaged(n)'
    BY <1>2, <2>2 DEF Acts
  <2>4. sticky'[m.usage] = sticky[m.usage]
    BY <2>1, <2>3, ToggledOnlyByTrigger
  <2> QED
    BY <1>2, <2>4 DEF Inv, StickyLayersAreActive, BeginFrame
<1>3. new_layers' = {} /\ layers' = layers
  BY DEF BeginFrame
<1> QED
  BY <1>1, <1>2, <1>3 DEF Explained, Stuck, Effective

LEMMA ApplyExplains ==
  ASSUME Inv, Explained, Apply
  PROVE  Explained'
<1> DEFINE m == sources[cursor]
<1>0. /\ m \in Mapping /\ m \in Mappings /\ m.usage \in Usages
      /\ cursor # 0
  BY SourceType DEF Apply, Inv, TypeOK, Mapping
<1>1. UNCHANGED <<sources, input, prev_input, tap_hold_state, layers>>
  BY DEF Apply
<1>2. \/ m.target \notin Layers /\ UNCHANGED <<sticky, new_layers>>
      \/ m.target \in Layers /\ (ApplyMomentary(m) \/ ApplySticky(m))
  BY DEF Apply, SkipOther
<1>3. LayerTriggers' = LayerTriggers /\ \A n : Acts(n)' = Acts(n)
  BY <1>1, TriggersStay, ActsStays
<1>4. \A u \in Usages : sticky'[u] \subseteq sticky[u]
  BY <1>0, <1>2, ApplyType DEF Inv
<1>5. ASSUME NEW n \in LayerTriggers, n.sticky, Stuck(n, sticky'[n.usage])
      PROVE  n.target \in layers \/ Acts(n)
  <2>1. n.usage \in Usages
    BY MappingsType DEF Inv, TypeOK, LayerTriggers, Mapping
  <2>2. Stuck(n, sticky[n.usage])
    BY <1>4, <1>5, <2>1 DEF Stuck
  <2> QED
    BY <1>0, <1>5, <2>2 DEF Explained
<1>6. ASSUME NEW l \in new_layers', l \notin layers
      PROVE  \E n \in LayerTriggers : n.target = l /\ Acts(n)
  <2>1. CASE l \in new_layers
    BY <1>0, <1>6, <2>1 DEF Explained
  <2>2. CASE l \notin new_layers
    <3>1. m.target = l /\ m \in LayerTriggers
      BY <1>0, <1>2, <2>2, <1>6
      DEF ApplyMomentary, ApplySticky, When, LayerTriggers
    <3>2. CASE ApplyMomentary(m)
      BY <1>6, <2>2, <3>1, <3>2 DEF ApplyMomentary, When, Acts
    <3>3. CASE ApplySticky(m)
      <4>1. m.sticky /\ Stuck(m, sticky'[m.usage])
        BY <1>6, <2>2, <3>3 DEF ApplySticky, When
      <4> QED
        BY <1>5, <1>6, <3>1, <4>1
    <3> QED
      BY <1>2, <1>6, <2>2, <3>2, <3>3
  <2> QED
    BY <2>1, <2>2
<1> QED
  BY <1>1, <1>3, <1>5, <1>6 DEF Explained, Stuck, Effective

LEMMA AlwaysExplained == Spec => []Explained
<1>1. Init => Explained
  BY DEF Init, Explained
<1>2. Inv /\ Explained /\ [Next]_vars => Explained'
  <2> SUFFICES ASSUME Inv, Explained, [Next]_vars
               PROVE  Explained'
    OBVIOUS
  <2>1. CASE cursor' = 0
    BY <2>1 DEF Explained
  <2>2. CASE Frame
    BY <2>2, BeginFrameExplains DEF Frame
  <2>3. CASE Apply
    BY <2>3, ApplyExplains
  <2>4. CASE UNCHANGED vars
    BY <2>4, TriggersStay, ActsStays DEF vars, Explained, Stuck, Effective
  <2> QED
    BY <2>1, <2>2, <2>3, <2>4
    DEF Next, ReceiveInput, Resume, SwitchProtocol, EndFrame
<1> QED
  BY <1>1, <1>2, Invariance, PTL DEF Spec

\* No layer comes on unless a trigger for it acts in that frame, for every
\* configuration, also one where layers switch each other's triggers.
THEOREM LayersComeOnByTriggers == Spec => LayersTurnOnByTrigger
<1>1. Inv /\ Explained /\ [Next]_vars =>
        [FrameEnds =>
           \A l \in (layers' \ layers) \ {0} :
             \E m \in LayerTriggers :
               /\ m.target = l
               /\ IF m.sticky THEN \E n \in Sticky(m.usage) : Engaged(n)
                              ELSE Momentary(m)]_vars
  <2> SUFFICES ASSUME Inv, Explained, [Next]_vars, FrameEnds,
                      NEW l \in (layers' \ layers) \ {0}
               PROVE  \E m \in LayerTriggers : m.target = l /\ Acts(m)
    BY DEF Acts
  <2>1. EndFrame
    BY OnlyEndFrame
  <2>2. l \in new_layers
    BY <2>1 DEF EndFrame
  <2> QED
    BY <2>2 DEF Explained, FrameEnds
<1> QED
  BY <1>1, AlwaysExplained, Invariance, PTL DEF Spec, LayersTurnOnByTrigger
-----------------------------------------------------------------------------
(* Expressions.                                                            *)

\* The two tables of the firmware, the check's and the evaluator's, agree.
LEMMA TablesAgree ==
  ASSUME NEW op \in Ops
  PROVE  /\ Required(op) = Taken(op) /\ Taken(op) \in 0..4 /\ Put(op) \in 0..2
         /\ Change(op) = Put(op) - Taken(op)
         /\ op \in NeedsRoom => Change(op) = 1
         /\ op \notin NeedsRoom => Change(op) =< 0
<1> DEFINE Plus == Constant \cup Source
           One == Fetch \cup Unary
           Rest == {"DUP", "SWAP", "PORT", "DPAD", "DEADZONE", "DEADZONE2"}
<1> USE DEF Required, Taken, Put, Change, NeedsRoom
<1>1. CASE op \in Constant
  BY <1>1, SMTT(30) DEF Constant, Source, Fetch, RawFetch, ScaledFetch, StateFetch, Unary, Binary, Ternary, Sink, Inert
<1>2. CASE op \in Source
  BY <1>2, SMTT(30) DEF Constant, Source, Fetch, RawFetch, ScaledFetch, StateFetch, Unary, Binary, Ternary, Sink, Inert
<1>3. CASE op \in Fetch
  BY <1>3, SMTT(30) DEF Constant, Source, Fetch, RawFetch, ScaledFetch, StateFetch, Unary, Binary, Ternary, Sink, Inert
<1>4. CASE op \in Unary
  BY <1>4, SMTT(30) DEF Constant, Source, Fetch, RawFetch, ScaledFetch, StateFetch, Unary, Binary, Ternary, Sink, Inert
<1>5. CASE op \in Binary
  BY <1>5, SMTT(30) DEF Constant, Source, Fetch, RawFetch, ScaledFetch, StateFetch, Unary, Binary, Ternary, Sink, Inert
<1>6. CASE op \in Ternary
  BY <1>6, SMTT(30) DEF Constant, Source, Fetch, RawFetch, ScaledFetch, StateFetch, Unary, Binary, Ternary, Sink, Inert
<1>7. CASE op \in Sink
  BY <1>7, SMTT(30) DEF Constant, Source, Fetch, RawFetch, ScaledFetch, StateFetch, Unary, Binary, Ternary, Sink, Inert
<1>8. CASE op \in Inert
  BY <1>8, SMTT(30) DEF Constant, Source, Fetch, RawFetch, ScaledFetch, StateFetch, Unary, Binary, Ternary, Sink, Inert
<1>9. CASE op \in Rest
  BY <1>9, SMTT(30) DEF Constant, Source, Fetch, RawFetch, ScaledFetch, StateFetch, Unary, Binary, Ternary, Sink, Inert
<1> QED BY <1>1, <1>2, <1>3, <1>4, <1>5, <1>6, <1>7, <1>8, <1>9 DEF Ops
-----------------------------------------------------------------------------
\* What element i of an accepted program does to the height the check counts.
Passes(i) ==
  /\ heights[i] >= Required(program[i].op)
  /\ program[i].op \in NeedsRoom => heights[i] < STACK_SIZE
  /\ heights[i + 1] = heights[i] + Change(program[i].op)

CheckedUpTo(n) == Len(heights) = n + 1 /\ \A i \in 1..n : Passes(i)

WhileChecking == phase = "checking" =>
  pc =< Len(program) /\ CheckedUpTo(pc) /\ on_stack = heights[pc + 1]
OnceAccepted == phase # "checking" /\ expression_valid /\ ~unchecked =>
  CheckedUpTo(Len(program))
WhileEvaluating == phase = "evaluating" =>
  /\ expression_valid /\ pc =< Len(program)
  /\ ~unchecked => Len(stack) = heights[pc + 1]
HeightsStart == heights # << >> /\ heights[1] = 0

IInv == /\ ExpressionsTypeOK /\ WhileChecking /\ OnceAccepted /\ WhileEvaluating /\ HeightsStart
        /\ PointersAreCurrent

LEMMA InitIInv == ExpressionsInit => IInv
<1> SUFFICES ASSUME ExpressionsInit PROVE IInv
  OBVIOUS
<1> USE StackAssumption, ProgramsAssumption, ValuesAssumption DEF ExpressionsInit
<1>1. program \in Seq(Element)
  OBVIOUS
<1>2. pointers \in [1..Len(program) -> Slot \cup {None}]
  OBVIOUS
<1>3. heights \in Seq(0..STACK_SIZE) /\ stack \in Seq(Values) /\ Len(stack) =< STACK_SIZE
  OBVIOUS
<1>4. ExpressionsTypeOK
  <2>1. {expression_valid, session, suspended, resume_pending, unchecked} \subseteq BOOLEAN
    OBVIOUS
  <2>2. phase \in {"none", "checking", "evaluating"} /\ pc \in Nat /\ on_stack \in 0..STACK_SIZE
    OBVIOUS
  <2>3. port_register \in PortNumbers /\ slots \subseteq Slot
    OBVIOUS
  <2> QED BY <1>1, <1>2, <1>3, <2>1, <2>2, <2>3, Zenon DEF ExpressionsTypeOK
<1>5. PointersAreCurrent
  BY DEF PointersAreCurrent
<1>6. heights # << >> /\ heights[1] = 0
  OBVIOUS
<1> QED BY <1>4, <1>5, <1>6 DEF IInv, WhileChecking, OnceAccepted, WhileEvaluating, HeightsStart

\* An accepted program leaves room for what the element being evaluated does.
LEMMA AcceptedStays ==
  ASSUME IInv, Evaluating, ~unchecked
  PROVE  InBounds
<1> DEFINE i == pc + 1
<1>t. program \in Seq(Element) /\ pc \in Nat /\ heights \in Seq(0..STACK_SIZE)
  BY DEF IInv, ExpressionsTypeOK
<1>1. i \in 1..Len(program) /\ Op \in Ops /\ Op = program[i].op
  <2>1. i \in 1..Len(program)
    BY <1>t DEF Evaluating
  <2>2. program[i] \in Element
    BY <1>t, <2>1
  <2> QED BY <2>1, <2>2 DEF Op, Elem, Element
<1>2. Passes(i) /\ heights[i + 1] \in 0..STACK_SIZE /\ Len(stack) = heights[i]
  <2>1. CheckedUpTo(Len(program)) /\ Len(stack) = heights[pc + 1]
    BY DEF IInv, Evaluating, OnceAccepted, WhileEvaluating
  <2>2. Passes(i)
    <3> HIDE DEF i
    <3> QED BY <1>1, <2>1 DEF CheckedUpTo
  <2>3. heights[i + 1] \in 0..STACK_SIZE
    <3>1. i + 1 \in 1..Len(heights)
      BY <1>1, <1>t, <2>1 DEF CheckedUpTo
    <3> HIDE DEF i
    <3> QED BY <3>1, <1>t, ElementOfSeq
  <2> QED BY <2>1, <2>2, <2>3
<1> HIDE DEF i
<1>3. /\ Taken(Op) = Required(Op) /\ Taken(Op) \in 0..4 /\ Put(Op) \in 0..2
      /\ Change(Op) = Put(Op) - Taken(Op)
  BY <1>1, TablesAgree
<1>4. Len(stack) \in Nat
  BY DEF IInv, ExpressionsTypeOK
<1> QED BY <1>1, <1>2, <1>3, <1>4, StackAssumption DEF InBounds, Passes

\* The check's own height stays within the stack.
LEMMA CheckStays ==
  ASSUME IInv, CheckElement
  PROVE  /\ IF Accepts(program[pc + 1].op)
            THEN /\ on_stack' \in 0..STACK_SIZE /\ heights' = Append(heights, on_stack')
                 /\ CheckedUpTo(pc)' /\ on_stack' = heights'[pc' + 1] /\ pc' = pc + 1
                 /\ phase' = "checking"
            ELSE ~expression_valid' /\ phase' = "none" /\ UNCHANGED <<on_stack, heights, pc>>
         /\ heights' \in Seq(0..STACK_SIZE) /\ HeightsStart'
<1>t. program \in Seq(Element) /\ pc \in Nat /\ heights \in Seq(0..STACK_SIZE)
  BY DEF IInv, ExpressionsTypeOK
<1>i. PICK i \in Nat : i = pc + 1
  BY <1>t
<1>o. PICK op : op = program[pc + 1].op
  OBVIOUS
<1>1. i \in 1..Len(program) /\ op \in Ops
  <2>1. i \in 1..Len(program)
    BY <1>t, <1>i DEF CheckElement
  <2>2. program[i] \in Element
    BY <1>t, <2>1, ElementOfSeq
  <2> QED BY <2>1, <2>2, <1>i, <1>o DEF Element
<1>2. CheckedUpTo(pc) /\ on_stack = heights[i] /\ on_stack \in 0..STACK_SIZE /\ HeightsStart
  BY <1>i DEF CheckElement, IInv, WhileChecking, ExpressionsTypeOK
<1>3. ASSUME Accepts(op)
      PROVE  /\ on_stack' = on_stack + Change(op) /\ pc' = pc + 1
             /\ heights' = Append(heights, on_stack') /\ phase' = "checking"
             /\ program' = program
  BY <1>3, <1>o DEF CheckElement, memory
<1>4. ASSUME ~Accepts(op)
      PROVE  expression_valid' = FALSE /\ phase' = "none" /\ UNCHANGED <<on_stack, heights, pc>>
  BY <1>4, <1>o DEF CheckElement
<1>5. ASSUME Accepts(op)
      PROVE  on_stack' \in 0..STACK_SIZE
  <2>1. /\ Taken(op) = Required(op) /\ Taken(op) \in 0..4 /\ Put(op) \in 0..2
        /\ Change(op) = Put(op) - Taken(op)
        /\ op \in NeedsRoom => Change(op) = 1
        /\ op \notin NeedsRoom => Change(op) =< 0
    BY <1>1, TablesAgree
  <2>2. on_stack >= Required(op) /\ (op \in NeedsRoom => on_stack < STACK_SIZE)
    BY <1>5 DEF Accepts
  <2>3. Change(op) \in -4..1 /\ Change(op) >= 0 - Required(op)
    BY <2>1
  <2>4. on_stack + Change(op) >= 0
    BY <1>2, <2>1, <2>2, <2>3
  <2>5. on_stack + Change(op) <= STACK_SIZE
    BY <1>2, <2>1, <2>2, <2>3, StackAssumption
  <2> QED BY <1>2, <1>3, <1>5, <2>3, <2>4, <2>5, StackAssumption
<1>6. ASSUME Accepts(op)
      PROVE  CheckedUpTo(i)' /\ on_stack' = heights'[i + 1] /\ heights' \in Seq(0..STACK_SIZE)
             /\ HeightsStart'
  <2>1. Len(heights) = i /\ Len(heights') = i + 1 /\ heights' \in Seq(0..STACK_SIZE)
    <3>1. Len(heights) = i
      BY <1>2, <1>i DEF CheckedUpTo
    <3>2. heights' = Append(heights, on_stack') /\ on_stack' \in 0..STACK_SIZE
      BY <1>3, <1>5, <1>6
    <3>3. Len(Append(heights, on_stack')) = Len(heights) + 1
          /\ Append(heights, on_stack') \in Seq(0..STACK_SIZE)
      BY <1>t, <3>2, AppendProperties
    <3> QED BY <3>1, <3>2, <3>3
  <2>2. heights'[i + 1] = on_stack' /\ \A j \in 1..i : heights'[j] = heights[j]
    BY <2>1, <1>t, <1>3, <1>5, <1>6, <1>i, AppendProperties
  <2>3. ASSUME NEW j \in 1..pc PROVE Passes(j)'
    <3>1. Passes(j)
      BY <1>2 DEF CheckedUpTo
    <3>2. j \in 1..i /\ j + 1 \in 1..i
      BY <1>t, <1>i
    <3>3. heights'[j] = heights[j] /\ heights'[j + 1] = heights[j + 1]
      BY <2>2, <3>2
    <3> QED BY <3>1, <3>3, <1>3, <1>6 DEF Passes
  <2>4. Passes(i)'
    <3>1. i \in 1..i
      BY <1>t, <1>i
    <3>2. heights'[i] = on_stack /\ heights'[i + 1] = on_stack + Change(op)
      BY <1>2, <1>3, <1>6, <2>2, <3>1
    <3>3. on_stack >= Required(op) /\ (op \in NeedsRoom => on_stack < STACK_SIZE)
      BY <1>6 DEF Accepts
    <3> QED BY <3>2, <3>3, <1>3, <1>6, <1>2, <1>i, <1>o DEF Passes
  <2>5. \A j \in 1..i : Passes(j)'
    BY <2>3, <2>4, <1>t, <1>i
  <2>6. CheckedUpTo(i)'
    BY <2>1, <2>5, <1>t DEF CheckedUpTo
  <2>7. HeightsStart'
    BY <2>1, <2>2, <1>2, <1>t, <1>i DEF HeightsStart
  <2> QED BY <2>1, <2>2, <2>6, <2>7, <1>t
<1> QED BY <1>i, <1>o, <1>2, <1>3, <1>4, <1>5, <1>6, <1>t DEF HeightsStart, CheckedUpTo

\* What an element leaves on the stack.
LEMMA StackStep ==
  ASSUME IInv, Evaluating, InBounds, NEW v \in Seq(Values), Len(v) = Put(Op),
         stack' = Below(Taken(Op)) \o v
  PROVE  /\ stack' \in Seq(Values) /\ Len(stack') = Len(stack) + Change(Op)
         /\ Len(stack') =< STACK_SIZE
<1>1. program \in Seq(Element) /\ pc \in Nat /\ stack \in Seq(Values)
  BY DEF IInv, ExpressionsTypeOK
<1>2. Op \in Ops
  <2>1. pc + 1 \in 1..Len(program)
    BY <1>1 DEF Evaluating
  <2>2. program[pc + 1] \in Element
    BY <1>1, <2>1, ElementOfSeq
  <2> QED BY <2>2 DEF Op, Elem, Element
<1>3. Taken(Op) \in 0..4 /\ Put(Op) \in 0..2 /\ Change(Op) = Put(Op) - Taken(Op)
  BY <1>2, TablesAgree
<1>4. PICK n \in Nat : n = Len(stack) - Taken(Op) /\ n =< Len(stack)
  BY <1>1, <1>3 DEF InBounds
<1>5. SubSeq(stack, 1, n) \in Seq(Values) /\ Len(SubSeq(stack, 1, n)) = n
  BY <1>1, <1>4, SubSeqProperties
<1>6. stack' = SubSeq(stack, 1, n) \o v
  BY <1>4 DEF Below
<1>7. stack' \in Seq(Values) /\ Len(stack') = n + Len(v)
  BY <1>5, <1>6, ConcatProperties
<1>8. Len(stack) \in Nat
  BY <1>1
<1> QED BY <1>3, <1>4, <1>7, <1>8, StackAssumption DEF InBounds

\* What is typed and does not depend on the stack.
LEMMA ElementTyped ==
  ASSUME IInv, Evaluating
  PROVE  /\ Op \in Ops /\ Elem.val \in Values /\ pc + 1 \in 1..Len(program) /\ pc + 1 \in Nat
         /\ \A n \in 0..3 : Len(stack) > n => FromTop(n) \in Values
<1>1. program \in Seq(Element) /\ pc \in Nat /\ stack \in Seq(Values)
  BY DEF IInv, ExpressionsTypeOK
<1>2. pc + 1 \in 1..Len(program)
  BY <1>1 DEF Evaluating
<1>3. program[pc + 1] \in Element
  BY <1>1, <1>2, ElementOfSeq
<1>4. ASSUME NEW n \in 0..3, Len(stack) > n PROVE FromTop(n) \in Values
  <2>1. PICK k \in 1..Len(stack) : k = Len(stack) - n
    BY <1>1, <1>4
  <2> QED BY <2>1, <1>1, ElementOfSeq DEF FromTop
<1> QED BY <1>1, <1>2, <1>3, <1>4 DEF Op, Elem, Element

\* Every step of the evaluation, by what it does to the stack.
LEMMA EvaluationStep ==
  ASSUME IInv, Evaluating, InBounds, NEW v \in Seq(Values), Len(v) = Put(Op),
         stack' = Below(Taken(Op)) \o v, pc' = pc + 1,
         UNCHANGED <<program, expression_valid, phase, checker, protocol, unchecked>>,
         port_register' \in PortNumbers, slots' \subseteq Slot,
         pointers' \in [1..Len(program) -> Slot \cup {None}], PointersAreCurrent'
  PROVE  IInv'
<1>1. /\ stack' \in Seq(Values) /\ Len(stack') = Len(stack) + Change(Op)
      /\ Len(stack') =< STACK_SIZE
  BY StackStep
<1>2. UNCHANGED <<on_stack, heights, session, suspended, resume_pending>>
  BY DEF checker, protocol
<1>3. program \in Seq(Element) /\ pc \in Nat /\ Len(program) \in Nat
  BY DEF IInv, ExpressionsTypeOK
<1>4. ExpressionsTypeOK'
  <2>1. /\ {expression_valid, session, suspended, resume_pending, unchecked}' \subseteq BOOLEAN
        /\ phase' \in {"none", "checking", "evaluating"} /\ on_stack' \in 0..STACK_SIZE
        /\ heights' \in Seq(0..STACK_SIZE) /\ program' \in Seq(Element)
    BY <1>2, Zenon DEF IInv, ExpressionsTypeOK
  <2>2. pc' \in Nat /\ pointers' \in [1..Len(program') -> Slot \cup {None}]
    BY <1>3
  <2> QED BY <1>1, <2>1, <2>2, Zenon DEF ExpressionsTypeOK
<1>5. phase = "evaluating" /\ phase' = "evaluating" /\ pc < Len(program)
  BY DEF Evaluating
<1>6. WhileChecking' /\ HeightsStart'
  BY <1>2, <1>5 DEF IInv, WhileChecking, HeightsStart
<1>7. CheckedUpTo(Len(program))' = CheckedUpTo(Len(program))
  BY <1>2 DEF CheckedUpTo, Passes
<1>8. OnceAccepted'
  BY <1>5, <1>7 DEF IInv, OnceAccepted
<1>9. WhileEvaluating'
  <2>1. expression_valid' /\ pc' =< Len(program')
    BY <1>3, <1>5 DEF IInv, WhileEvaluating
  <2>2. ASSUME ~unchecked' PROVE Len(stack') = heights'[pc' + 1]
    <3>1. CheckedUpTo(Len(program)) /\ Len(stack) = heights[pc + 1]
      BY <1>5, <2>2 DEF IInv, OnceAccepted, WhileEvaluating
    <3>2. Passes(pc + 1)
      <4>1. PICK i \in 1..Len(program) : i = pc + 1
        BY <1>3, <1>5
      <4> QED BY <3>1, <4>1 DEF CheckedUpTo
    <3>3. heights[(pc + 1) + 1] = heights[pc + 1] + Change(Op)
      BY <3>2 DEF Passes, Op, Elem
    <3> QED BY <3>1, <3>3, <1>1, <1>2, <1>3
  <2> QED BY <2>1, <2>2 DEF WhileEvaluating
<1> QED BY <1>4, <1>6, <1>8, <1>9 DEF IInv

\* A step that leaves the program, the check and the evaluation alone.
LEMMA QuietStep ==
  ASSUME IInv, UNCHANGED <<memory, expression_valid, phase, pc, checker, evaluator, slots,
                           unchecked>>,
         {session', suspended', resume_pending'} \subseteq BOOLEAN
  PROVE  IInv'
<1>1. /\ UNCHANGED <<program, pointers, on_stack, heights, stack, port_register>>
      /\ UNCHANGED <<expression_valid, phase, pc, slots, unchecked>>
  BY DEF memory, checker, evaluator
<1>2. {expression_valid, session, suspended, resume_pending, unchecked}' \subseteq BOOLEAN
  BY <1>1 DEF IInv, ExpressionsTypeOK
<1>3. ExpressionsTypeOK'
  BY <1>1, <1>2, Zenon DEF IInv, ExpressionsTypeOK
<1>4. WhileChecking' /\ HeightsStart'
  BY <1>1 DEF IInv, WhileChecking, CheckedUpTo, Passes, HeightsStart
<1>5. OnceAccepted'
  BY <1>1 DEF IInv, OnceAccepted, CheckedUpTo, Passes
<1>6. WhileEvaluating' /\ PointersAreCurrent'
  BY <1>1 DEF IInv, WhileEvaluating, PointersAreCurrent
<1> QED BY <1>3, <1>4, <1>5, <1>6 DEF IInv

\* A step of the tool that changes the program.
LEMMA WritingStep ==
  ASSUME IInv, Idle,
         UNCHANGED <<expression_valid, phase, pc, checker, evaluator, slots, protocol>>,
         unchecked' = TRUE, program' \in Seq(Element),
         pointers' \in [1..Len(program') -> Slot \cup {None}], PointersAreCurrent'
  PROVE  IInv'
<1>1. /\ UNCHANGED <<on_stack, heights, stack, port_register, session, suspended, resume_pending>>
      /\ UNCHANGED <<expression_valid, phase, pc, slots>> /\ phase = "none"
  BY DEF checker, evaluator, protocol, Idle
<1>2. {expression_valid, session, suspended, resume_pending, unchecked}' \subseteq BOOLEAN
  BY <1>1 DEF IInv, ExpressionsTypeOK
<1>3. ExpressionsTypeOK'
  BY <1>1, <1>2, Zenon DEF IInv, ExpressionsTypeOK
<1> QED BY <1>1, <1>3, Zenon DEF IInv, WhileChecking, OnceAccepted, WhileEvaluating, HeightsStart

LEMMA AppendIInv ==
  ASSUME IInv, NEW elem \in Written, AppendToExpression(elem)
  PROVE  IInv'
<1>1. /\ program \in Seq(Element) /\ pointers \in [1..Len(program) -> Slot \cup {None}]
      /\ Len(program) \in Nat
  BY DEF IInv, ExpressionsTypeOK
<1>2. elem \in Element
  BY ProgramsAssumption, ValuesAssumption DEF Written, Element
<1>3. program' \in Seq(Element) /\ Len(program') = Len(program) + 1
  BY <1>1, <1>2, AppendProperties DEF AppendToExpression
<1>4. pointers \in Seq(Slot \cup {None}) /\ Len(pointers) = Len(program)
  BY <1>1
<1>5. /\ pointers' \in Seq(Slot \cup {None}) /\ Len(pointers') = Len(pointers) + 1
      /\ \A i \in 1..Len(pointers) : pointers'[i] = pointers[i]
      /\ pointers'[Len(pointers) + 1] = None
  BY <1>4, AppendProperties DEF AppendToExpression
<1>6. pointers' \in [1..Len(program') -> Slot \cup {None}]
  BY <1>3, <1>4, <1>5
<1>7. PointersAreCurrent'
  <2> SUFFICES ASSUME NEW i \in DOMAIN pointers', pointers'[i] # None
               PROVE  pointers'[i] \in slots'
    BY DEF PointersAreCurrent
  <2>1. i \in 1..Len(program) + 1
    BY <1>3, <1>6
  <2>2. i \in 1..Len(program)
    BY <2>1, <1>1, <1>4, <1>5
  <2>3. i \in DOMAIN pointers /\ pointers'[i] = pointers[i] /\ slots' = slots
    BY <2>2, <1>1, <1>4, <1>5 DEF AppendToExpression
  <2> QED BY <2>3 DEF IInv, PointersAreCurrent
<1> QED BY <1>3, <1>6, <1>7, WritingStep DEF AppendToExpression

LEMMA ClearIInv ==
  ASSUME IInv, ClearExpression
  PROVE  IInv'
<1>1. program' \in Seq(Element) /\ Len(program') = 0
  BY DEF ClearExpression
<1>2. pointers' \in [1..Len(program') -> Slot \cup {None}]
  BY <1>1 DEF ClearExpression
<1>3. DOMAIN pointers' = {}
  BY <1>1, <1>2
<1> QED BY <1>1, <1>2, <1>3, WritingStep DEF ClearExpression, PointersAreCurrent

LEMMA StartCheckIInv ==
  ASSUME IInv, StartCheck
  PROVE  IInv'
<1>1. /\ UNCHANGED <<program, expression_valid, stack, port_register, session>>
      /\ resume_pending' = FALSE /\ suspended' = FALSE /\ phase' = "checking" /\ pc' = 0
      /\ on_stack' = 0 /\ heights' = <<0>> /\ slots' = {} /\ unchecked' = FALSE
      /\ pointers' = [i \in DOMAIN pointers |-> None]
  BY DEF StartCheck, evaluator, Forgotten
<1>2. program \in Seq(Element) /\ Len(program) \in Nat /\ DOMAIN pointers = 1..Len(program)
  BY DEF IInv, ExpressionsTypeOK
<1>3. heights' \in Seq(0..STACK_SIZE) /\ Len(heights') = 1 /\ heights'[1] = 0 /\ heights' # << >>
  BY <1>1, StackAssumption
<1>4. ExpressionsTypeOK'
  <2>0. {expression_valid, session, suspended, resume_pending, unchecked}' \subseteq BOOLEAN
    BY <1>1 DEF IInv, ExpressionsTypeOK
  <2>1. /\ on_stack' \in 0..STACK_SIZE /\ pc' \in Nat
        /\ phase' \in {"none", "checking", "evaluating"}
    BY <1>1, StackAssumption
  <2>2. pointers' \in [1..Len(program') -> Slot \cup {None}]
    BY <1>1, <1>2
  <2>3. slots' \subseteq Slot
    BY <1>1
  <2> QED BY <1>1, <1>3, <2>0, <2>1, <2>2, <2>3, Zenon DEF IInv, ExpressionsTypeOK
<1>5. CheckedUpTo(pc)'
  BY <1>1, <1>3 DEF CheckedUpTo
<1>6. WhileChecking'
  BY <1>1, <1>2, <1>3, <1>5 DEF WhileChecking
<1>7. PointersAreCurrent'
  BY <1>1 DEF PointersAreCurrent
<1> QED BY <1>1, <1>3, <1>4, <1>6, <1>7 DEF IInv, OnceAccepted, WhileEvaluating, HeightsStart

LEMMA CheckElementIInv ==
  ASSUME IInv, CheckElement
  PROVE  IInv'
<1> DEFINE op == program[pc + 1].op
<1>1. UNCHANGED <<program, pointers, stack, port_register, slots, session, suspended,
                  resume_pending, unchecked>>
  BY DEF CheckElement, memory, evaluator, protocol
<1>2. program \in Seq(Element) /\ pc \in Nat /\ Len(program) \in Nat /\ pc < Len(program)
  BY DEF IInv, ExpressionsTypeOK, CheckElement
<1>3. expression_valid' \in BOOLEAN /\ pc' \in Nat /\ on_stack' \in 0..STACK_SIZE
      /\ phase' \in {"none", "checking"} /\ heights' \in Seq(0..STACK_SIZE) /\ HeightsStart'
  <2>1. CASE Accepts(op)
    BY <2>1, <1>2, CheckStays DEF IInv, ExpressionsTypeOK, CheckElement
  <2>2. CASE ~Accepts(op)
    BY <2>2, <1>2, CheckStays DEF IInv, ExpressionsTypeOK, CheckElement
  <2> QED BY <2>1, <2>2
<1>4. ExpressionsTypeOK'
  <2>1. {expression_valid, session, suspended, resume_pending, unchecked}' \subseteq BOOLEAN
    BY <1>1, <1>3 DEF IInv, ExpressionsTypeOK
  <2>2. phase' \in {"none", "checking", "evaluating"}
    BY <1>3
  <2> QED BY <1>1, <1>3, <2>1, <2>2, Zenon DEF IInv, ExpressionsTypeOK
<1>5. WhileChecking'
  <2>1. CASE Accepts(op)
    BY <2>1, <1>1, <1>2, CheckStays DEF WhileChecking
  <2>2. CASE ~Accepts(op)
    BY <2>2, CheckStays DEF WhileChecking
  <2> QED BY <2>1, <2>2
<1>6. OnceAccepted'
  <2>1. CASE Accepts(op)
    BY <2>1, CheckStays DEF OnceAccepted
  <2>2. CASE ~Accepts(op)
    BY <2>2, CheckStays DEF OnceAccepted
  <2> QED BY <2>1, <2>2
<1>7. WhileEvaluating' /\ PointersAreCurrent'
  BY <1>1, <1>3 DEF WhileEvaluating, IInv, PointersAreCurrent
<1> QED BY <1>3, <1>4, <1>5, <1>6, <1>7 DEF IInv

LEMMA EndCheckIInv ==
  ASSUME IInv, EndCheck
  PROVE  IInv'
<1>1. /\ UNCHANGED <<program, pointers, stack, port_register, slots, session, suspended>>
      /\ UNCHANGED <<resume_pending, unchecked, pc, on_stack, heights>>
      /\ phase = "checking" /\ pc = Len(program) /\ expression_valid' = TRUE /\ phase' = "none"
  BY DEF EndCheck, memory, checker, evaluator, protocol
<1>2. {expression_valid, session, suspended, resume_pending, unchecked}' \subseteq BOOLEAN
  BY <1>1 DEF IInv, ExpressionsTypeOK
<1>3. ExpressionsTypeOK'
  BY <1>1, <1>2, Zenon DEF IInv, ExpressionsTypeOK
<1>4. CheckedUpTo(Len(program))
  BY <1>1 DEF IInv, WhileChecking
<1>5. CheckedUpTo(Len(program))'
  BY <1>1, <1>4 DEF CheckedUpTo, Passes
<1>6. OnceAccepted'
  BY <1>5 DEF OnceAccepted
<1> QED BY <1>1, <1>3, <1>6
        DEF IInv, WhileChecking, WhileEvaluating, HeightsStart, PointersAreCurrent

LEMMA StartEvaluationIInv ==
  ASSUME IInv, StartEvaluation
  PROVE  IInv'
<1>1. /\ UNCHANGED <<program, pointers, slots, session, suspended, resume_pending, unchecked>>
      /\ UNCHANGED <<on_stack, heights, expression_valid>> /\ phase = "none" /\ expression_valid
      /\ phase' = "evaluating" /\ pc' = 0 /\ stack' = << >> /\ port_register' \in PortNumbers
  BY DEF StartEvaluation, memory, checker, protocol, Idle
<1>2. {expression_valid, session, suspended, resume_pending, unchecked}' \subseteq BOOLEAN
  BY <1>1 DEF IInv, ExpressionsTypeOK
<1>3. stack' \in Seq(Values) /\ Len(stack') = 0 /\ Len(stack') =< STACK_SIZE /\ pc' \in Nat
  BY <1>1, StackAssumption
<1>4. ExpressionsTypeOK'
  BY <1>1, <1>2, <1>3, Zenon DEF IInv, ExpressionsTypeOK
<1>5. CheckedUpTo(Len(program))' = CheckedUpTo(Len(program))
  BY <1>1 DEF CheckedUpTo, Passes
<1>6. OnceAccepted' /\ HeightsStart'
  BY <1>1, <1>5 DEF IInv, OnceAccepted, HeightsStart
<1>7. WhileEvaluating'
  <2>1. Len(program) \in Nat
    BY DEF IInv, ExpressionsTypeOK
  <2> QED BY <1>1, <1>3, <2>1 DEF IInv, WhileEvaluating, HeightsStart
<1> QED BY <1>1, <1>4, <1>6, <1>7 DEF IInv, WhileChecking, PointersAreCurrent

LEMMA FetchIInv ==
  ASSUME IInv, FetchState
  PROVE  IInv'
<1> DEFINE here == pc + 1
<1>1. Evaluating /\ InBounds /\ Op \in Fetch
  BY DEF FetchState
<1>2. Taken(Op) = 1 /\ Put(Op) = 1 /\ Len(stack) > 0
  <2>1. Taken(Op) = 1 /\ Put(Op) = 1
    BY <1>1, SMTT(30) DEF Taken, Put, Constant, Source, Fetch, RawFetch, ScaledFetch, StateFetch,
       Unary, Binary, Ternary, Sink, Inert
  <2>2. Len(stack) \in Nat
    BY DEF IInv, ExpressionsTypeOK
  <2> QED BY <1>1, <2>1, <2>2 DEF InBounds
<1>3. FromTop(0) \in Values /\ here \in 1..Len(program)
  BY <1>1, <1>2, ElementTyped
<1>4. port_register \in PortNumbers /\ slots \subseteq Slot
      /\ pointers \in [1..Len(program) -> Slot \cup {None}]
  BY DEF IInv, ExpressionsTypeOK
<1>5. Asked \in Slot
  BY <1>3, <1>4 DEF Asked, Slot
<1>6. Pointer \in Slot \cup {None}
  BY <1>3, <1>4, <1>5, Zenon DEF Pointer
<1>7. /\ pointers' = [pointers EXCEPT ![here] = Pointer] /\ slots' = slots \cup ({Pointer} \ {None})
  BY DEF FetchState
<1>8. pointers' \in [1..Len(program) -> Slot \cup {None}] /\ slots' \subseteq Slot
  <2> HIDE DEF here
  <2> QED BY <1>3, <1>4, <1>6, <1>7
<1>9. PointersAreCurrent'
  <2> SUFFICES ASSUME NEW i \in DOMAIN pointers', pointers'[i] # None
               PROVE  pointers'[i] \in slots'
    BY DEF PointersAreCurrent
  <2>1. i \in DOMAIN pointers
    BY <1>7
  <2>2. CASE i = here
    BY <1>7, <2>1, <2>2, Zenon
  <2>3. CASE i # here
    <3>1. pointers'[i] = pointers[i]
      BY <1>7, <2>1, <2>3, Zenon
    <3> QED BY <1>7, <2>1, <3>1 DEF IInv, PointersAreCurrent
  <2> QED BY <2>2, <2>3
<1>10. PICK v : v \in Values /\ stack' = Below(Taken(Op)) \o <<v>> /\ port_register' = port_register
  <2>1. CASE Pointer = None
    <3>1. FromTop(0) \in Values /\ 0 \in Values
      BY <1>3, ValuesAssumption
    <3> QED BY <2>1, <3>1 DEF FetchState, Next1
  <2>2. CASE Pointer # None
    BY <2>2 DEF FetchState, Next1
  <2> QED BY <2>1, <2>2
<1>11. <<v>> \in Seq(Values) /\ Len(<<v>>) = Put(Op)
  BY <1>2, <1>10
<1>12. /\ pc' = pc + 1
       /\ UNCHANGED <<program, expression_valid, phase, checker, protocol, unchecked>>
  <2>1. CASE Pointer = None
    BY <2>1 DEF FetchState, Next1
  <2>2. CASE Pointer # None
    BY <2>2 DEF FetchState, Next1
  <2> QED BY <2>1, <2>2
<1> HIDE DEF here
<1> QED BY <1>1, <1>4, <1>8, <1>9, <1>10, <1>11, <1>12, EvaluationStep

LEMMA SetPortIInv ==
  ASSUME IInv, SetPort
  PROVE  IInv'
<1>1. Evaluating /\ InBounds /\ Op = "PORT" /\ UNCHANGED <<pointers, slots>>
  BY DEF SetPort
<1>2. Put(Op) = 0 /\ << >> \in Seq(Values) /\ Len(<< >>) = 0
  BY <1>1, SMTT(30) DEF Put, Sink, Inert
<1>3. /\ stack' = Below(Taken(Op)) \o << >> /\ port_register' \in PortNumbers /\ pc' = pc + 1
      /\ UNCHANGED <<program, expression_valid, phase, checker, protocol, unchecked>>
  BY ValuesAssumption DEF SetPort, Next1, Port
<1>4. slots' \subseteq Slot /\ pointers' \in [1..Len(program) -> Slot \cup {None}]
      /\ PointersAreCurrent'
  BY <1>1 DEF IInv, ExpressionsTypeOK, PointersAreCurrent
<1> QED BY <1>1, <1>2, <1>3, <1>4, EvaluationStep

LEMMA ComputeIInv ==
  ASSUME IInv, Compute
  PROVE  IInv'
<1>1. Evaluating /\ InBounds /\ Op \notin Fetch \cup {"PORT"} /\ UNCHANGED <<pointers, slots>>
  BY DEF Compute
<1>2. Op \in Ops /\ Elem.val \in Values /\ \A n \in 0..3 : Len(stack) > n => FromTop(n) \in Values
  BY <1>1, ElementTyped
<1>3. Taken(Op) \in 0..4 /\ Put(Op) \in 0..2 /\ Len(stack) \in Nat /\ Len(stack) >= Taken(Op)
  BY <1>1, <1>2, TablesAgree DEF IInv, ExpressionsTypeOK, InBounds
<1>4. PICK v \in Results : stack' = Below(Taken(Op)) \o v
  BY DEF Compute, Next1
<1>5. v \in Seq(Values) /\ Len(v) = Put(Op)
  <2>1. CASE Op \in Constant
    <3>1. Put(Op) = 1 /\ v = <<Elem.val>>
      BY <2>1, <1>4, SMTT(30) DEF Results, Put, Constant, Sink, Inert
    <3> QED BY <3>1, <1>2
  <2>2. CASE Op = "DUP"
    <3>1. Put(Op) = 2 /\ Taken(Op) = 1
      BY <2>2, SMTT(30) DEF Put, Taken, Constant, Source, Fetch, RawFetch, ScaledFetch,
         StateFetch, Unary, Binary, Ternary, Sink, Inert
    <3>3. Op \notin Constant
      BY <2>2 DEF Constant
    <3>4. v = <<FromTop(0), FromTop(0)>>
      BY <2>2, <3>3, <1>4 DEF Results
    <3>2. FromTop(0) \in Values
      BY <1>2, <1>3, <3>1
    <3> QED BY <3>1, <3>2, <3>4
  <2>3. CASE Op = "SWAP"
    <3>1. Put(Op) = 2 /\ Taken(Op) = 2
      BY <2>3, SMTT(30) DEF Put, Taken, Constant, Source, Fetch, RawFetch, ScaledFetch,
         StateFetch, Unary, Binary, Ternary, Sink, Inert
    <3>3. Op \notin Constant
      BY <2>3 DEF Constant
    <3>4. v = <<FromTop(0), FromTop(1)>>
      BY <2>3, <3>3, <1>4 DEF Results
    <3>2. FromTop(0) \in Values /\ FromTop(1) \in Values
      BY <1>2, <1>3, <3>1
    <3> QED BY <3>1, <3>2, <3>4
  <2>4. CASE Op = "IFTE"
    <3>1. Put(Op) = 1 /\ Taken(Op) = 3
          /\ v = <<IF FromTop(2) # 0 THEN FromTop(1) ELSE FromTop(0)>>
      BY <2>4, <1>4, SMTT(30) DEF Results, Put, Taken, Constant, Source, Fetch, RawFetch, ScaledFetch,
         StateFetch, Unary, Binary, Ternary, Sink, Inert
    <3>2. FromTop(0) \in Values /\ FromTop(1) \in Values
      BY <1>2, <1>3, <3>1
    <3> QED BY <3>1, <3>2
  <2>5. CASE Op \notin Constant \cup {"DUP", "SWAP", "IFTE"}
    <3>1. v \in [1..Put(Op) -> Values]
      BY <2>5, <1>4 DEF Results
    <3> QED BY <3>1, <1>3
  <2> QED BY <2>1, <2>2, <2>3, <2>4, <2>5
<1>6. /\ port_register' = port_register /\ pc' = pc + 1
      /\ UNCHANGED <<program, expression_valid, phase, checker, protocol, unchecked>>
  BY DEF Compute, Next1
<1>7. slots' \subseteq Slot /\ pointers' \in [1..Len(program) -> Slot \cup {None}]
      /\ PointersAreCurrent' /\ port_register' \in PortNumbers
  BY <1>1, <1>6 DEF IInv, ExpressionsTypeOK, PointersAreCurrent
<1> QED BY <1>1, <1>4, <1>5, <1>6, <1>7, EvaluationStep

LEMMA EndEvaluationIInv ==
  ASSUME IInv, EndEvaluation
  PROVE  IInv'
<1>1. /\ UNCHANGED <<program, pointers, slots, session, suspended, resume_pending, unchecked>>
      /\ UNCHANGED <<on_stack, heights, expression_valid>> /\ phase = "evaluating"
      /\ phase' = "none" /\ pc' = 0 /\ stack' = << >> /\ port_register' = 0
  BY DEF EndEvaluation, memory, checker, protocol
<1>2. {expression_valid, session, suspended, resume_pending, unchecked}' \subseteq BOOLEAN
  BY <1>1 DEF IInv, ExpressionsTypeOK
<1>3. stack' \in Seq(Values) /\ Len(stack') = 0 /\ Len(stack') =< STACK_SIZE /\ pc' \in Nat
      /\ port_register' \in PortNumbers
  BY <1>1, StackAssumption, ValuesAssumption
<1>4. ExpressionsTypeOK'
  BY <1>1, <1>2, <1>3, Zenon DEF IInv, ExpressionsTypeOK
<1>5. CheckedUpTo(Len(program))' = CheckedUpTo(Len(program))
  BY <1>1 DEF CheckedUpTo, Passes
<1>6. OnceAccepted' /\ HeightsStart'
  BY <1>1, <1>5 DEF IInv, OnceAccepted, HeightsStart
<1> QED BY <1>1, <1>4, <1>6 DEF IInv, WhileChecking, WhileEvaluating, PointersAreCurrent

LEMMA NextIInv == IInv /\ [ExpressionsNext]_expression_state => IInv'
<1> SUFFICES ASSUME IInv, [ExpressionsNext]_expression_state PROVE IInv'
  OBVIOUS
<1>1. {session, suspended, resume_pending} \subseteq BOOLEAN
  BY DEF IInv, ExpressionsTypeOK
<1>2. CASE SuspendFrames
  BY <1>1, <1>2, QuietStep DEF SuspendFrames, memory
<1>3. CASE ResumeFrames
  BY <1>1, <1>3, QuietStep DEF ResumeFrames
<1>4. CASE ClearExpression
  BY <1>4, ClearIInv
<1>5. ASSUME NEW elem \in Written, AppendToExpression(elem) PROVE IInv'
  BY <1>5, AppendIInv
<1>6. CASE StartCheck
  BY <1>6, StartCheckIInv
<1>7. CASE CheckElement
  BY <1>7, CheckElementIInv
<1>8. CASE EndCheck
  BY <1>8, EndCheckIInv
<1>9. CASE StartEvaluation
  BY <1>9, StartEvaluationIInv
<1>10. CASE FetchState
  BY <1>10, FetchIInv
<1>11. CASE SetPort
  BY <1>11, SetPortIInv
<1>12. CASE Compute
  BY <1>12, ComputeIInv
<1>13. CASE EndEvaluation
  BY <1>13, EndEvaluationIInv
<1>14. CASE UNCHANGED expression_state
  BY <1>1, <1>14, QuietStep DEF expression_state, protocol
<1> QED BY <1>2, <1>3, <1>4, <1>5, <1>6, <1>7, <1>8, <1>9, <1>10, <1>11, <1>12, <1>13, <1>14 DEF ExpressionsNext

LEMMA SpecIInv == ExpressionsSpec => []IInv
<1> QED BY InitIInv, NextIInv, PTL DEF ExpressionsSpec
-----------------------------------------------------------------------------
\* Everything has its type, for every size of the stack, set of programs and number of
\* slots.
THEOREM ExpressionsTypeCorrect == ExpressionsSpec => []ExpressionsTypeOK
<1>1. IInv => ExpressionsTypeOK
  BY DEF IInv
<1> QED BY <1>1, SpecIInv, PTL

\* Whatever program is in memory, if it has not been changed since is_expr_valid()
\* looked at it, eval_expr() stays within its stack although it checks nothing.
THEOREM AcceptedProgramsStayInBounds == ExpressionsSpec => []StackStaysInBounds
<1>1. IInv => StackStaysInBounds
  BY AcceptedStays DEF StackStaysInBounds
<1> QED BY <1>1, SpecIInv, PTL

\* No element keeps a pointer into slots that were given out anew since.
THEOREM NoStalePointer == ExpressionsSpec => []PointersAreCurrent
<1>1. IInv => PointersAreCurrent
  BY DEF IInv
<1> QED BY <1>1, SpecIInv, PTL
-----------------------------------------------------------------------------
(* The check refuses no program that fits.                                 *)

\* Every set of numbers has a least one.
LEMMA LeastNumber ==
  ASSUME NEW T \in SUBSET Nat, T # {}
  PROVE  \E n \in T : \A m \in T : n =< m
<1> DEFINE Smaller == {ss \in Nat \X Nat : ss[1] < ss[2]}
<1>1. IsWellFoundedOn(Smaller, Nat)
  BY NatLessThanWellFounded DEF OpToRel
<1>2. \A i, j \in Nat : i < j => <<i, j>> \in Smaller
  OBVIOUS
<1> HIDE DEF Smaller
<1>3. PICK x \in T : \A y \in T : ~(<<y, x>> \in Smaller)
  BY <1>1, WFMin
<1>4. ASSUME NEW m \in T PROVE x =< m
  <2>1. x \in Nat /\ m \in Nat
    OBVIOUS
  <2>2. ~(m < x)
    BY <1>2, <1>3, <2>1
  <2> QED BY <2>1, <2>2
<1> QED BY <1>4

LEMMA ElementOp ==
  ASSUME NEW p \in Seq(Element), NEW i \in 1..Len(p)
  PROVE  /\ p[i].op \in Ops /\ Taken(p[i].op) \in 0..4 /\ Put(p[i].op) \in 0..2
<1>1. p[i] \in Element
  BY ElementOfSeq
<1>2. p[i].op \in Ops
  BY <1>1 DEF Element
<1> QED BY <1>2, TablesAgree

\* There is a function that counts the heights of a program.
Counts(h, p, n) ==
  /\ h \in [0..n -> Int] /\ h[0] = 0
  /\ \A i \in 1..n : h[i] = h[i - 1] - Taken(p[i].op) + Put(p[i].op)

LEMMA HeightsExist ==
  ASSUME NEW p \in Seq(Element)
  PROVE  \E h : Counts(h, p, Len(p))
<1> DEFINE Bad == {n \in 0..Len(p) : ~\E h : Counts(h, p, n)}
<1>0. Len(p) \in Nat
  OBVIOUS
<1>1. SUFFICES ASSUME Len(p) \in Bad PROVE FALSE
  BY <1>0
<1>2. PICK n \in Bad : \A k \in Bad : n =< k
  <2>1. Bad \in SUBSET Nat
    BY <1>0
  <2> HIDE DEF Bad
  <2> QED BY <1>1, <2>1, LeastNumber
<1>3. n \in 0..Len(p)
  OBVIOUS
<1>4. n # 0
  <2>1. Counts([i \in 0..0 |-> 0], p, 0)
    BY DEF Counts
  <2> QED BY <2>1
<1>5. n - 1 \in 0..Len(p) /\ n - 1 \notin Bad
  <2> HIDE DEF Bad
  <2> QED BY <1>0, <1>2, <1>3, <1>4
<1>6. PICK h : Counts(h, p, n - 1)
  BY <1>5
<1>7. n \in 1..Len(p) /\ Taken(p[n].op) \in Int /\ Put(p[n].op) \in Int
  BY <1>0, <1>3, <1>4, ElementOp
<1> DEFINE g == [i \in 0..n |-> IF i = n THEN h[n - 1] - Taken(p[n].op) + Put(p[n].op)
                                ELSE h[i]]
<1>8. Counts(g, p, n)
  <2>1. h[n - 1] \in Int /\ \A i \in 0..n - 1 : h[i] \in Int
    BY <1>3, <1>4, <1>6 DEF Counts
  <2>2. g \in [0..n -> Int]
    BY <1>3, <1>4, <1>7, <2>1
  <2>3. g[0] = 0
    BY <1>3, <1>4, <1>6 DEF Counts
  <2>4. ASSUME NEW i \in 1..n
        PROVE  g[i] = g[i - 1] - Taken(p[i].op) + Put(p[i].op)
    <3>1. CASE i = n
      BY <1>3, <1>4, <3>1
    <3>2. CASE i # n
      BY <1>3, <1>4, <1>6, <3>2 DEF Counts
    <3> QED BY <3>1, <3>2
  <2> QED BY <2>2, <2>3, <2>4 DEF Counts
<1> QED BY <1>3, <1>8

\* Heights counts them.
LEMMA HeightsCount ==
  ASSUME NEW p \in Seq(Element)
  PROVE  /\ Heights(p)[0] = 0
         /\ \A i \in 1..Len(p) :
              Heights(p)[i] = Heights(p)[i - 1] - Taken(p[i].op) + Put(p[i].op)
<1> DEFINE Step(f) == [i \in 0..Len(p) |->
                         IF i = 0 THEN 0 ELSE f[i - 1] - Taken(p[i].op) + Put(p[i].op)]
           after == CHOOSE f : f = Step(f)
<1>0. Len(p) \in Nat
  OBVIOUS
<1>1. PICK h : Counts(h, p, Len(p))
  BY HeightsExist
<1>2. h = Step(h)
  BY <1>0, <1>1 DEF Counts
<1>3. after = Step(after)
  <2> HIDE DEF Step
  <2> QED BY <1>2
<1>4. Heights(p) = after
  BY DEF Heights
<1> HIDE DEF after
<1> QED BY <1>0, <1>3, <1>4

\* As long as the check has accepted, it counts what the evaluator's table says.
LEMMA CheckCounts ==
  ASSUME IInv, NEW n \in 0..Len(program), CheckedUpTo(n)
  PROVE  \A i \in 0..n : heights[i + 1] = Heights(program)[i]
<1> DEFINE Bad == {i \in 0..n : heights[i + 1] # Heights(program)[i]}
<1>0. program \in Seq(Element) /\ Len(program) \in Nat /\ heights[1] = 0
      /\ heights \in Seq(0..STACK_SIZE) /\ Len(heights) = n + 1
  BY DEF IInv, ExpressionsTypeOK, HeightsStart, CheckedUpTo
<1>1. SUFFICES ASSUME Bad # {} PROVE FALSE
  OBVIOUS
<1>2. PICK m \in Bad : \A k \in Bad : m =< k
  <2>1. Bad \in SUBSET Nat
    BY <1>0
  <2> HIDE DEF Bad
  <2> QED BY <1>1, <2>1, LeastNumber
<1>3. m \in 0..n /\ heights[m + 1] # Heights(program)[m]
  OBVIOUS
<1>4. m # 0
  BY <1>0, <1>3, HeightsCount
<1>5. m - 1 \in 0..n /\ m - 1 \notin Bad
  <2> HIDE DEF Bad
  <2> QED BY <1>0, <1>2, <1>3, <1>4
<1>6. heights[m] = Heights(program)[m - 1]
  BY <1>0, <1>3, <1>4, <1>5
<1>7. m \in 1..Len(program) /\ m \in 1..n
  BY <1>0, <1>3, <1>4
<1>8. Heights(program)[m]
        = Heights(program)[m - 1] - Taken(program[m].op) + Put(program[m].op)
  BY <1>0, <1>7, HeightsCount
<1>9. heights[m + 1] = heights[m] + Change(program[m].op)
  BY <1>7 DEF CheckedUpTo, Passes
<1>10. /\ Change(program[m].op) = Put(program[m].op) - Taken(program[m].op)
       /\ Taken(program[m].op) \in Int /\ Put(program[m].op) \in Int
  BY <1>0, <1>7, ElementOp, TablesAgree
<1>11. heights[m] \in Int
  <2>1. m \in 1..Len(heights)
    BY <1>0, <1>7
  <2> HIDE DEF Bad
  <2>2. heights[m] \in 0..STACK_SIZE
    BY <1>0, <2>1, ElementOfSeq
  <2> QED BY <2>2, StackAssumption
<1> QED BY <1>3, <1>6, <1>8, <1>9, <1>10, <1>11

\* A check that ended without accepting stands before the element it refused.
OnceRefused ==
  Idle /\ ~unchecked /\ ~resume_pending /\ ~expression_valid =>
    /\ pc < Len(program) /\ CheckedUpTo(pc) /\ on_stack = heights[pc + 1]
    /\ ~Accepts(program[pc + 1].op)

LEMMA RefusedStays ==
  ASSUME IInv, OnceRefused, [ExpressionsNext]_expression_state
  PROVE  OnceRefused'
<1>1. CASE CheckElement
  <2>1. CASE Accepts(program[pc + 1].op)
    BY <1>1, <2>1, CheckStays DEF OnceRefused, Idle
  <2>2. CASE ~Accepts(program[pc + 1].op)
    <3>1. UNCHANGED <<program, on_stack, heights, pc>>
      BY <1>1, <2>2 DEF CheckElement, memory
    <3>2. CheckedUpTo(pc) /\ on_stack = heights[pc + 1] /\ pc < Len(program)
      BY <1>1 DEF CheckElement, IInv, WhileChecking
    <3> QED BY <2>2, <3>1, <3>2 DEF OnceRefused, CheckedUpTo, Passes, Accepts
  <2> QED BY <2>1, <2>2
<1>2. CASE EndCheck
  BY <1>2 DEF EndCheck, OnceRefused
<1>3. ASSUME NEW elem \in Written, AppendToExpression(elem) PROVE OnceRefused'
  BY <1>3 DEF AppendToExpression, OnceRefused
<1>4. CASE ClearExpression
  BY <1>4 DEF ClearExpression, OnceRefused
<1>5. CASE StartCheck
  BY <1>5 DEF StartCheck, OnceRefused, Idle
<1>6. CASE SuspendFrames \/ UNCHANGED expression_state
  <2>1. UNCHANGED <<program, pc, on_stack, heights, expression_valid, phase, unchecked, resume_pending>>
    BY <1>6 DEF SuspendFrames, expression_state, memory, checker, protocol
  <2> QED BY <2>1 DEF OnceRefused, Idle, CheckedUpTo, Passes, Accepts
<1>7. CASE ResumeFrames
  BY <1>7 DEF ResumeFrames, OnceRefused
<1>8. CASE StartEvaluation \/ FetchState \/ SetPort \/ Compute
  BY <1>8 DEF StartEvaluation, FetchState, SetPort, Compute, Next1, Evaluating, OnceRefused, Idle
<1>9. CASE EndEvaluation
  <2>1. expression_valid' = expression_valid /\ expression_valid
    BY <1>9 DEF EndEvaluation, IInv, WhileEvaluating
  <2> QED BY <2>1 DEF OnceRefused
<1> QED BY <1>1, <1>2, <1>3, <1>4, <1>5, <1>6, <1>7, <1>8, <1>9 DEF ExpressionsNext

LEMMA AcceptedFits ==
  ASSUME IInv, CheckedUpTo(Len(program))
  PROVE  Fits(program)
<1>0. program \in Seq(Element) /\ Len(program) \in Nat /\ heights \in Seq(0..STACK_SIZE)
  BY DEF IInv, ExpressionsTypeOK
<1>1. ASSUME NEW i \in 1..Len(program)
      PROVE  /\ Heights(program)[i - 1] >= Taken(program[i].op)
             /\ Heights(program)[i] =< STACK_SIZE
  <2>1. heights[i] = Heights(program)[i - 1] /\ heights[i + 1] = Heights(program)[i]
    <3>1. \A k \in 0..Len(program) : heights[k + 1] = Heights(program)[k]
      BY <1>0, CheckCounts
    <3>2. i - 1 \in 0..Len(program) /\ i \in 0..Len(program) /\ (i - 1) + 1 = i
      BY <1>0
    <3> QED BY <3>1, <3>2
  <2>2. heights[i] >= Required(program[i].op)
    BY DEF CheckedUpTo, Passes
  <2>3. heights[i + 1] \in 0..STACK_SIZE
    <3>1. i + 1 \in 1..Len(heights)
      BY <1>0 DEF CheckedUpTo
    <3> QED BY <1>0, <3>1, ElementOfSeq
  <2>4. Required(program[i].op) = Taken(program[i].op)
    BY <1>0, ElementOp, TablesAgree
  <2> QED BY <2>1, <2>2, <2>3, <2>4, StackAssumption
<1> QED BY <1>1 DEF Fits

LEMMA RefusedDoesNotFit ==
  ASSUME IInv, pc < Len(program), CheckedUpTo(pc), on_stack = heights[pc + 1],
         ~Accepts(program[pc + 1].op)
  PROVE  ~Fits(program)
<1>0. program \in Seq(Element) /\ Len(program) \in Nat /\ pc \in Nat
      /\ on_stack \in 0..STACK_SIZE
  BY DEF IInv, ExpressionsTypeOK
<1>i. PICK i : i = pc + 1
  OBVIOUS
<1>o. PICK op : op = program[i].op
  OBVIOUS
<1>1. i \in 1..Len(program) /\ op \in Ops
  BY <1>0, <1>i, <1>o, ElementOp
<1>2. on_stack = Heights(program)[i - 1]
  BY <1>0, <1>i, CheckCounts
<1>3. Heights(program)[i] = on_stack - Taken(op) + Put(op)
  BY <1>0, <1>1, <1>2, <1>o, HeightsCount
<1>4. /\ Required(op) = Taken(op) /\ Taken(op) \in 0..4 /\ Put(op) \in 0..2
      /\ Change(op) = Put(op) - Taken(op) /\ (op \in NeedsRoom => Change(op) = 1)
  BY <1>1, TablesAgree
<1>5. on_stack < Required(op) \/ (op \in NeedsRoom /\ on_stack >= STACK_SIZE)
  BY <1>0, <1>4, <1>i, <1>o, StackAssumption DEF Accepts
<1>6. on_stack < Taken(op) \/ on_stack - Taken(op) + Put(op) > STACK_SIZE
  BY <1>0, <1>4, <1>5, StackAssumption
<1> DEFINE before == Heights(program)[i - 1]
           after == Heights(program)[i]
<1>7. before < Taken(op) \/ after > STACK_SIZE
  BY <1>2, <1>3, <1>6
<1>8. ASSUME Fits(program) PROVE before >= Taken(op) /\ after <= STACK_SIZE
  BY <1>1, <1>8, <1>o DEF Fits
<1>9. before \in Nat /\ after \in Int
  BY <1>0, <1>2, <1>3, <1>4, StackAssumption
<1> HIDE DEF before, after
<1> QED
  BY <1>4, <1>7, <1>8, <1>9, StackAssumption

\* is_expr_valid() accepts exactly the programs that eval_expr() can run within its
\* stack, for every program and every size of the stack.
THEOREM CheckMeetsItsPurpose == ExpressionsSpec => []CheckIsExact
<1>1. ExpressionsInit => OnceRefused
  BY DEF ExpressionsInit, OnceRefused
<1>2. IInv /\ OnceRefused /\ [ExpressionsNext]_expression_state => OnceRefused'
  BY RefusedStays
<1>3. IInv /\ OnceRefused => CheckIsExact
  <2> SUFFICES ASSUME IInv, OnceRefused, Idle, ~unchecked, ~resume_pending
               PROVE  expression_valid = Fits(program)
    BY DEF CheckIsExact
  <2>1. expression_valid \in BOOLEAN /\ Fits(program) \in BOOLEAN
    BY DEF IInv, ExpressionsTypeOK, Fits
  <2>2. CASE expression_valid
    <3>1. CheckedUpTo(Len(program))
      BY <2>2 DEF IInv, OnceAccepted, Idle
    <3> QED BY <2>1, <2>2, <3>1, AcceptedFits
  <2>3. CASE ~expression_valid
    BY <2>1, <2>3, RefusedDoesNotFit DEF OnceRefused
  <2> QED BY <2>1, <2>2, <2>3
<1> QED BY <1>1, <1>2, <1>3, SpecIInv, PTL DEF ExpressionsSpec
=============================================================================
