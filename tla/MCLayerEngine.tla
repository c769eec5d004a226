--------------------------- MODULE MCLayerEngine ---------------------------
(* Two inputs, three layers of which the code forces two, and configurations *)
(* that let triggers interact.                                             *)
EXTENDS LayerEngine
CONSTANTS a, b
MCUsages == {a, b}

\* A mapping with flags taken from {"sticky", "tap", "hold"}.
Map(u, ls, t, flags) ==
  [usage |-> u, layers |-> ls, target |-> t, sticky |-> "sticky" \in flags,
   tap |-> "tap" \in flags, hold |-> "hold" \in flags]

\* A sticky and a momentary trigger for different layers, the latter present on its own.
Independent == << Map(a, {0, 2}, 1, {"sticky"}), Map(b, {0, 2}, 2, {}) >>
\* One input steps through the layers; another one holds one of them.
Cycle == << Map(a, {0}, 1, {"sticky"}), Map(b, {0, 2}, 1, {}),
            Map(a, {1}, 2, {"sticky"}) >>
\* Tap to lock a layer, hold for another one.
TapOrHold == << Map(a, {0}, 1, {"sticky", "tap"}), Map(a, {0, 1}, 2, {"hold"}) >>
\* Two sticky triggers of one input that share a bit.
Shared == << Map(a, {0, 2}, 1, {"sticky", "tap"}), Map(a, {0}, 2, {"sticky", "hold"}),
             Map(a, {0, 1}, Elsewhere, {"sticky"}) >>
\* Two triggers for one layer; an explicit way back to the base layer.
Both == << Map(b, {1}, 0, {}), Map(a, {0, 1}, 1, {"sticky", "hold"}),
           Map(b, {0}, 1, {"tap"}) >>

MCSelected == {Independent, Cycle, TapOrHold, Shared, Both}

\* Every pair of triggers of these kinds, in both orders.
Kinds == {{}, {"hold"}, {"sticky"}, {"sticky", "tap"}, {"sticky", "hold"}}
FirstTriggers == {Map(a, {0}, 1, k) : k \in Kinds \ {{"sticky", "tap"}}}
SecondTriggers == {Map(u, {0, 1}, l, k) : u \in {a, b}, l \in {1, 2}, k \in Kinds}
MCConfigs == MCSelected
               \cup {<<m, n>> : m \in FirstTriggers, n \in SecondTriggers}
               \cup {<<n, m>> : m \in FirstTriggers, n \in SecondTriggers}
=============================================================================
