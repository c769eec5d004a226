---------------------------- MODULE LayerEngine ----------------------------
(***************************************************************************)
(* Taps, holds, sticky inputs and layers: the first half of                *)
(* process_mapping() in remapper.cc, under the sources and masks that      *)
(* set_mapping_from_config() derives from the configuration.               *)
(*                                                                         *)
(* An input is a usage whose state is zero or not.  A mapping whose target *)
(* is no layer only matters here for the sticky state it shares with the   *)
(* other mappings of its usage.  The loop over the layer mappings takes    *)
(* one step per mapping.                                                   *)
(***************************************************************************)
EXTENDS Integers, Sequences, FiniteSets

CONSTANTS Usages,
          LayerBits,  \* the bits of a layer mask: 8
          NLAYERS,    \* the layers set_mapping_from_config() thinks there are: 4
          Threshold,  \* tap_hold_threshold, in ticks
          Configs     \* the configurations, each in the order the loop takes it

Layers == 0 .. LayerBits - 1
Elsewhere == -1       \* the target of a mapping that is no layer

Mapping == [usage : Usages, layers : SUBSET Layers, target : Layers \cup {Elsewhere},
            sticky : BOOLEAN, tap : BOOLEAN, hold : BOOLEAN]

ASSUME LayersAssumption ==
  LayerBits \in Nat \ {0} /\ NLAYERS \in 0 .. LayerBits /\ Threshold \in Nat
ASSUME ConfigsAssumption == Configs \subseteq Seq(Mapping)

VARIABLES
  sources,     \* the configuration in force
  input,       \* usage -> its state is not zero
  prev_input,  \* usage -> the same, in the last frame
  age,         \* usage -> ticks since pressed_at, up to Threshold
  tap, hold, prev_hold,  \* tap_hold_state
  sticky,      \* usage -> sticky_state, a set of layers
  layers,      \* layer_state_mask
  new_layers,  \* new_layer_state_mask
  cursor       \* position in the loop over sources, 0 outside of a frame

tap_hold_state == <<age, tap, hold, prev_hold>>
vars == <<sources, input, prev_input, tap_hold_state, sticky, layers,
          new_layers, cursor>>
-----------------------------------------------------------------------------
(* What set_mapping_from_config() makes of a mapping.                      *)

\* Mutant: a trigger need not be present on the layer it triggers.
EffectiveUnforced(m) == IF m.target \in Layers /\ m.sticky
                        THEN m.layers \ {m.target} ELSE m.layers

\* A sticky trigger is never present on the layer it triggers; any other one
\* is if the layer is among the first NLAYERS, and on the layers above them it
\* depends on the configuration.
Effective(m) ==
  CASE m.target \notin Layers -> m.layers
    [] m.target \in Layers /\ m.sticky -> m.layers \ {m.target}
    [] m.target \in Layers /\ ~m.sticky ->
         m.layers \cup ({m.target} \cap 0 .. NLAYERS - 1)

Mappings == {sources[i] : i \in 1 .. Len(sources)}
Sticky(u) == {m \in Mappings : m.usage = u /\ m.sticky}
TapHold == {m.usage : m \in {n \in Mappings : n.tap \/ n.hold}}

\* The layers on which the sticky mappings in ms toggle.
Mask(ms) == UNION {Effective(m) : m \in ms}
PlainMask(u) == Mask({m \in Sticky(u) : ~m.tap /\ ~m.hold})
TapMask(u) == Mask({m \in Sticky(u) : m.tap})
HoldMask(u) == Mask({m \in Sticky(u) : m.hold})
-----------------------------------------------------------------------------
Blank(v) == [u \in Usages |-> v]

\* input_state, tap_hold_state and sticky_state are zeroed; pressed_at is
\* zero, a time long past.
Forget == /\ input' = Blank(FALSE) /\ prev_input' = Blank(FALSE)
          /\ tap' = Blank(FALSE) /\ hold' = Blank(FALSE)
          /\ prev_hold' = Blank(FALSE)
          /\ age' = Blank(Threshold)
          /\ sticky' = Blank({})

Init == /\ sources \in Configs
        /\ input = Blank(FALSE) /\ prev_input = Blank(FALSE)
        /\ tap = Blank(FALSE) /\ hold = Blank(FALSE) /\ prev_hold = Blank(FALSE)
        /\ age = Blank(Threshold)
        /\ sticky = Blank({})
        /\ layers = {0} /\ new_layers = {}
        /\ cursor = 0

\* A report of a device changes the state of u, any number of times between
\* two frames.
ReceiveInput(u) ==
  /\ cursor = 0
  /\ input' = [input EXCEPT ![u] = ~@]
  /\ UNCHANGED <<sources, prev_input, tap_hold_state, sticky, layers,
                 new_layers, cursor>>

\* RESUME: reset_state(), then set_mapping_from_config() on what the
\* configuration tool has written.
Resume == /\ cursor = 0
          /\ sources' \in Configs
          /\ Forget
          /\ layers' = {0}
          /\ UNCHANGED <<new_layers, cursor>>

\* The host switches between boot and report protocol:
\* set_mapping_from_config() alone, which leaves the active layers as they are.
SwitchProtocol == /\ cursor = 0
                  /\ Forget
                  /\ UNCHANGED <<sources, layers, new_layers, cursor>>
-----------------------------------------------------------------------------
(* A frame.                                                                *)

Pressed(u) == input[u] /\ ~prev_input[u]
Released(u) == prev_input[u] /\ ~input[u]

Capped(n) == IF n < Threshold THEN n ELSE Threshold

\* Mutant: the time is taken at every change, not only at a press.
AgeAtAnyChange(u, ticks) ==
  IF Pressed(u) \/ Released(u) THEN 0 ELSE Capped(age[u] + ticks)

\* now - pressed_at, ticks after the last frame.
Age(u, ticks) == IF Pressed(u) THEN 0 ELSE Capped(age[u] + ticks)

Toggle(s, t) == (s \ t) \cup (t \ s)
When(cond, s) == IF cond THEN s ELSE {}

\* Mutant: a plain sticky input toggles on release too.
ToggledAtAnyChange(u) ==
  Toggle(Toggle(Toggle(sticky[u],
    When(Pressed(u) \/ Released(u), layers \cap PlainMask(u))),
    When(tap'[u], layers \cap TapMask(u))),
    When(hold'[u] /\ ~prev_hold'[u], layers \cap HoldMask(u)))

\* sticky_state after the three loops that toggle it.
Toggled(u) ==
  Toggle(Toggle(Toggle(sticky[u],
    When(Pressed(u), layers \cap PlainMask(u))),
    When(tap'[u], layers \cap TapMask(u))),
    When(hold'[u] /\ ~prev_hold'[u], layers \cap HoldMask(u)))

BeginFrame(ticks) ==
  /\ cursor = 0
  /\ age' = [u \in Usages |-> IF u \in TapHold THEN Age(u, ticks) ELSE age[u]]
  /\ tap' = [u \in Usages |-> u \in TapHold /\ Released(u) /\ age'[u] < Threshold]
  /\ prev_hold' = hold
  /\ hold' = [u \in Usages |-> u \in TapHold /\ input[u] /\ age'[u] >= Threshold]
  /\ sticky' = [u \in Usages |-> Toggled(u)]
  /\ new_layers' = {}
  /\ cursor' = 1
  /\ UNCHANGED <<sources, input, prev_input, layers>>

\* The tick is coalesced while the main loop is busy.
Frame == \E ticks \in 1 .. Threshold + 1 : BeginFrame(ticks)

\* The trigger of m acts in this frame: what makes a sticky mapping toggle.
Engaged(m) == \/ ~m.tap /\ ~m.hold /\ Pressed(m.usage)
              \/ m.tap /\ tap[m.usage]
              \/ m.hold /\ hold[m.usage] /\ ~prev_hold[m.usage]

\* Without the sticky flag, the tap flag does not matter for a layer.
Momentary(m) == IF m.hold THEN hold[m.usage] ELSE input[m.usage]

Stuck(m, s) == s \cap Effective(m) # {}

\* Mutant: a momentary layer that is on stays on.
ApplyMomentaryLatched(m) ==
  /\ ~m.sticky
  /\ new_layers' = new_layers \cup
       When(Effective(m) \cap layers # {} /\ (Momentary(m) \/ m.target \in layers),
            {m.target})
  /\ UNCHANGED sticky

ApplyMomentary(m) ==
  /\ ~m.sticky
  /\ new_layers' = new_layers \cup
       When(Effective(m) \cap layers # {} /\ Momentary(m), {m.target})
  /\ UNCHANGED sticky

\* Mutant: a sticky trigger works only on the layers it is present on.
ApplyStickyOnItsLayers(m) ==
  LET off == Engaged(m) /\ Stuck(m, sticky[m.usage]) /\ m.target \in layers
  IN /\ m.sticky
     /\ sticky' = [sticky EXCEPT ![m.usage] = @ \ When(off, Effective(m))]
     /\ new_layers' = new_layers \cup
          When(Stuck(m, sticky'[m.usage] \cap layers), {m.target})

\* The layer a sticky trigger has switched on goes off when the trigger acts
\* again; as long as it is on, the layers the trigger is present on do not
\* matter.
ApplySticky(m) ==
  LET off == Engaged(m) /\ Stuck(m, sticky[m.usage]) /\ m.target \in layers
  IN /\ m.sticky
     /\ sticky' = [sticky EXCEPT ![m.usage] = @ \ When(off, Effective(m))]
     /\ new_layers' = new_layers \cup When(Stuck(m, sticky'[m.usage]), {m.target})

SkipOther(m) == m.target \notin Layers /\ UNCHANGED <<sticky, new_layers>>

Apply ==
  /\ cursor \in 1 .. Len(sources)
  /\ LET m == sources[cursor] IN
       \/ SkipOther(m)
       \/ m.target \in Layers /\ (ApplyMomentary(m) \/ ApplySticky(m))
  /\ cursor' = cursor + 1
  /\ UNCHANGED <<sources, input, prev_input, tap_hold_state, layers>>

\* Layer 0 is active when no other is; the inputs become the previous ones.
EndFrame ==
  /\ cursor = Len(sources) + 1
  /\ layers' = IF new_layers = {} THEN {0} ELSE new_layers
  /\ new_layers' = {}
  /\ prev_input' = input
  /\ cursor' = 0
  /\ UNCHANGED <<sources, input, tap_hold_state, sticky>>

Next == \/ \E u \in Usages : ReceiveInput(u)
        \/ Resume \/ SwitchProtocol
        \/ Frame \/ Apply \/ EndFrame

Spec == Init /\ [][Next]_vars

\* Ticks keep coming and a frame runs to its end.
Fairness == WF_vars(Frame) /\ WF_vars(Apply) /\ WF_vars(EndFrame)
FairSpec == Spec /\ Fairness
-----------------------------------------------------------------------------
(* Properties.                                                             *)

TypeOK == /\ sources \in Configs
          /\ input \in [Usages -> BOOLEAN] /\ prev_input \in [Usages -> BOOLEAN]
          /\ age \in [Usages -> 0 .. Threshold]
          /\ tap \in [Usages -> BOOLEAN] /\ hold \in [Usages -> BOOLEAN]
          /\ prev_hold \in [Usages -> BOOLEAN]
          /\ sticky \in [Usages -> SUBSET Layers]
          /\ layers \subseteq Layers /\ layers # {}
          /\ new_layers \subseteq Layers
          /\ cursor \in 0 .. Len(sources) + 1

LayerTriggers == {m \in Mappings : m.target \in Layers}

\* Between frames the two places that remember a sticky layer agree: if the
\* sticky state of an input says that it has switched a layer on, that layer
\* is active, whatever layers were switched since.
StickyLayersAreActive ==
  cursor = 0 =>
    \A m \in LayerTriggers :
      m.sticky /\ Stuck(m, sticky[m.usage]) => m.target \in layers

FrameEnds == cursor # 0 /\ cursor' = 0

\* A momentary trigger that acts does not lose the layer it has switched on.
KeepsItsLayer(m) ==
  ~m.sticky /\ Momentary(m) /\ m.target \in layers => m.target \in layers'

\* A layer a momentary trigger has switched on stays active for as long as the
\* trigger acts, although switching the layer changes which mappings apply: of
\* the first NLAYERS layers any, of those above them one that the configuration
\* says its trigger is present on.
MomentaryLayerHolds ==
  [][FrameEnds =>
       \A m \in LayerTriggers :
         m.target < NLAYERS \/ m.target \in m.layers => KeepsItsLayer(m)]_vars

\* The same for every layer, as the comment at remapper.cc:423 has it:
\* "non-sticky layer-triggering mappings are forced to BE present on the layer
\* they trigger".
EveryMomentaryLayerHolds ==
  [][FrameEnds => \A m \in LayerTriggers : KeepsItsLayer(m)]_vars

\* Acting on a sticky trigger while its layer is active ends what the trigger
\* had switched on: no sticky state is left that would keep the layer.
StickyPressTurnsOff ==
  [][FrameEnds =>
       \A m \in LayerTriggers :
         m.sticky /\ Engaged(m) /\ m.target \in layers => ~Stuck(m, sticky'[m.usage])]_vars

\* No layer but the base layer appears by itself: in the frame that switches it
\* on, a momentary trigger for it acts, or an input that has a sticky trigger
\* for it does.
LayersTurnOnByTrigger ==
  [][FrameEnds =>
       \A l \in (layers' \ layers) \ {0} :
         \E m \in LayerTriggers :
           /\ m.target = l
           /\ IF m.sticky THEN \E n \in Sticky(m.usage) : Engaged(n)
                          ELSE Momentary(m)]_vars

\* A press counts as a tap or as a hold, never as both: an input that was held
\* in one frame is not tapped in the next.
TapNeverFollowsHold ==
  [][(cursor = 0 /\ cursor' = 1) => \A u \in Usages : ~(tap'[u] /\ hold[u])]_vars

\* When every input has been let go for good, the layers that stay active are
\* the base layer and those a sticky trigger keeps.
NoLayerIsLeftOn ==
  <>[](\A u \in Usages : ~input[u])
    => <>[](\A l \in layers \ {0} :
              \E m \in LayerTriggers :
                m.target = l /\ m.sticky /\ Stuck(m, sticky[m.usage]))
=============================================================================
