---------------------------- MODULE MappingsPage ----------------------------
(***************************************************************************)
(* The mappings tab of the web configuration tool (code.js): the mappings  *)
(* in `config', the rows of the page that show them, and the dialog in     *)
(* which an input or an output is chosen.                                  *)
(*                                                                         *)
(* The handlers of a row hold on to the mapping and to the elements they   *)
(* were made for, and so does the dialog, while the rows are thrown away   *)
(* and made again under them, and configurations are replaced.  Mappings   *)
(* are objects here, known by a number; an element is known by the mapping *)
(* its row was made for.  A load or an upload is the step in which it ends *)
(* (ConfigSession takes a load apart).  Scaling factors are left out.      *)
(***************************************************************************)
EXTENDS Integers, Sequences, SequencesExt, FiniteSetsExt

CONSTANTS
  Sources, Targets,  \* usages to choose from: <<page, number>>
  Rank,              \* usage -> how its hexadecimal form sorts
  Ports,             \* hub ports
  Flags,             \* of "sticky", "tap" and "hold", those the user sets
  Layers,
  MappingFiles,      \* mappings of the configurations that are loaded
  MaxMappings        \* bound on the rows

Nothing == <<"nothing", 0>>
Page(usage) == usage[1]
Unnamed == << >>
Mapping == [source : Sources, target : Targets, source_port : Ports, flags : SUBSET Flags,
            layers : SUBSET Layers, source_name : {Unnamed} \cup {<<u, 2>> : u \in Sources}]

ASSUME UsagesAssumption ==
  /\ Nothing \in Sources \cap Targets
  /\ Sources \cup Targets \subseteq DOMAIN Rank
  /\ 0 \in Ports \cap Layers
  /\ \A t \in Targets : Page(t) = "layer" => t[2] \in Layers
ASSUME MappingsAssumption == MappingFiles \subseteq Seq(Mapping) /\ MaxMappings \in Nat

VARIABLES
  mapping,       \* the mappings that exist: number -> mapping
  mappings,      \* config['mappings']: their numbers
  input_labels,  \* the names the inputs go by
  rows,          \* what the page shows
  dialog         \* kind: what is chosen; of: modal_return_mapping; attached: that
                 \* modal_return_element is the row on the page; live: that the usage
                 \* buttons react to a click
mappings_tab == <<mapping, mappings, input_labels, rows, dialog>>

Closed == [kind |-> "closed", of |-> 0, attached |-> FALSE, live |-> FALSE]
-----------------------------------------------------------------------------
(* Mappings and rows.                                                      *)

IsTrigger(m) == Page(m.target) = "layer"
IsExpression(m) == Page(m.source) = "expr"

\* A sticky trigger is never on its own layer, any other always is.
ForcedLayers(m) ==
  CASE ~IsTrigger(m) -> m
    [] IsTrigger(m) /\ "sticky" \in m.flags -> [m EXCEPT !.layers = @ \ {m.target[2]}]
    [] IsTrigger(m) /\ "sticky" \notin m.flags -> [m EXCEPT !.layers = @ \cup {m.target[2]}]

\* An expression is neither sticky nor tapped nor held.
ForcedFlags(m) == IF IsExpression(m) THEN [m EXCEPT !.flags = {}] ELSE m

\* What an input is called: the usage the name stands for, and whether it is the name
\* under the first (0) or the second (1) kind of labels or the one from a file (2).
ReadableName(usage, labels) == <<usage, labels>>
Label(m, labels) ==
  IF m.source_name # Unnamed THEN m.source_name ELSE ReadableName(m.source, labels)

\* disabled: the layers that cannot be ticked; fixed: neither can the flags.
Row(n, m, labels) ==
  [of |-> n, source |-> Label(m, labels), target |-> m.target, port |-> m.source_port,
   flags |-> m.flags, layers |-> m.layers,
   disabled |-> IF IsTrigger(m) THEN {m.target[2]} ELSE {},
   fixed |-> IsExpression(m)]

\* add_mapping() settles what is forced in the mapping and its row.
Settled(m) == ForcedFlags(ForcedLayers(m))

\* The rows as set_mappings_ui_state() makes them, from mappings that are settled.
RowsOf(known, order, labels) ==
  [i \in DOMAIN order |-> Row(order[i], known[order[i]], labels)]

\* The element the dialog works on, once the rows are made again for these mappings.
Reattached(order) == [dialog EXCEPT !.attached = @ /\ dialog.of \in Range(order)]

\* A number for a mapping that is added.
FreshNumber == Min((1..MaxMappings + 1) \ DOMAIN mapping)

\* What can still be reached, from the configuration or from the dialog.
Reachable(known, order, held) ==
  [n \in (DOMAIN known) \cap (Range(order) \cup {held.of}) |-> known[n]]
-----------------------------------------------------------------------------
MappingsInit ==
  \E file \in MappingFiles :
    /\ mappings = [i \in DOMAIN file |-> i]
    /\ mapping = [i \in DOMAIN file |-> Settled(file[i])]
    /\ input_labels = 0
    /\ rows = RowsOf(mapping, mappings, input_labels)
    /\ dialog = Closed

\* The user works on the page only while no dialog covers it.
AtPage == dialog.kind = "closed"

\* add_empty_mapping(), from the button or, with a usage, from the monitor.
AddMapping(usage) ==
  LET m == [source |-> usage, target |-> Nothing, source_port |-> 0, flags |-> {},
            layers |-> {0}, source_name |-> Unnamed]
  IN /\ AtPage /\ Len(mappings) < MaxMappings
     /\ mapping' = [n \in DOMAIN mapping \cup {FreshNumber} |->
                      IF n = FreshNumber THEN Settled(m) ELSE mapping[n]]
     /\ mappings' = Append(mappings, FreshNumber)
     /\ rows' = Append(rows, Row(FreshNumber, Settled(m), input_labels))
     /\ UNCHANGED <<input_labels, dialog>>

DeleteMapping(i) ==
  /\ AtPage
  /\ mappings' = RemoveFirst(mappings, rows[i].of)  \* it is there once
  /\ mapping' = Reachable(mapping, mappings', dialog)
  /\ rows' = RemoveAt(rows, i)
  /\ UNCHANGED <<input_labels, dialog>>

\* Mutant: a layer is disabled as it was ticked.
TickedAsBefore(row, m) == [row EXCEPT !.disabled = IF IsTrigger(m) THEN {m.target[2]} ELSE {}]
\* The checkboxes of a row once set_forced_layers() is through with it.
TickedForced(row, m) ==
  LET forced == IF IsTrigger(m) THEN {m.target[2]} ELSE {}
  IN [row EXCEPT !.disabled = forced, !.layers = (@ \ forced) \cup (m.layers \cap forced)]

\* A flag is ticked or unticked; sticky also settles the layers and their checkboxes.
SetFlag(i, flag) ==
  LET n == rows[i].of
      ticked == SymDiff(rows[i].flags, {flag})
      changed == [mapping[n] EXCEPT !.flags = IF flag \in ticked THEN @ \cup {flag} ELSE @ \ {flag}]
  IN /\ AtPage /\ ~rows[i].fixed
     /\ mapping' = [mapping EXCEPT ![n] = IF flag = "sticky" THEN ForcedLayers(changed) ELSE changed]
     /\ rows' = [rows EXCEPT ![i] =
                   IF flag = "sticky" THEN TickedForced([@ EXCEPT !.flags = ticked], mapping'[n])
                   ELSE [@ EXCEPT !.flags = ticked]]
     /\ UNCHANGED <<mappings, input_labels, dialog>>

SetLayer(i, layer) ==
  LET n == rows[i].of
      ticked == SymDiff(rows[i].layers, {layer})
  IN /\ AtPage /\ layer \notin rows[i].disabled
     /\ mapping' = [mapping EXCEPT ![n].layers = IF layer \in ticked THEN @ \cup {layer}
                                                 ELSE @ \ {layer}]
     /\ rows' = [rows EXCEPT ![i].layers = ticked]
     /\ UNCHANGED <<mappings, input_labels, dialog>>
-----------------------------------------------------------------------------
(* The rows are made again, from mappings that change only where they were *)
(* not settled.                                                            *)

Remade(order, labels) ==
  /\ input_labels' = labels
  /\ mappings' = order
  /\ mapping' = [n \in DOMAIN mapping |-> IF n \in Range(order) THEN Settled(mapping[n])
                                          ELSE mapping[n]]
  /\ rows' = RowsOf(mapping', order, labels)
  /\ dialog' = Reattached(order)

\* From the settings, or from the dialog for inputs.
InputLabelsOnchange(kind) ==
  /\ dialog.kind # "target" /\ kind # input_labels
  /\ Remade(mappings, kind)

\* our_descriptor_number_onchange(): set_ui_state() on the same configuration.
DescriptorOnchange == /\ AtPage
                      /\ Remade(mappings, input_labels)

\* A column header is clicked: by these fields in this order, as strings compare.
Base == Cardinality(Layers) + 1
Spelled(layers) ==
  MapThenSumSet(LAMBDA n : (n + 1) * Base ^ (Base - Cardinality({k \in layers : k =< n})), layers)
Fields(m) == [input |-> <<m.source_port, Rank[m.source], Rank[m.target], Spelled(m.layers)>>,
              output |-> <<Rank[m.target], m.source_port, Rank[m.source], Spelled(m.layers)>>,
              layer |-> <<Spelled(m.layers), m.source_port, Rank[m.source], Rank[m.target]>>]
SortBy(column) ==
  LET Key(i) == Append(Fields(mapping[mappings[i]])[column], i)
      Before(i, j) == \E f \in 1..5 : /\ Key(i)[f] < Key(j)[f]
                                      /\ \A g \in 1..f - 1 : Key(i)[g] = Key(j)[g]
  IN /\ AtPage
     /\ \E order \in Bijection(DOMAIN mappings, DOMAIN mappings) :
          /\ \A i, j \in DOMAIN mappings : i < j => Before(order[i], order[j])
          /\ Remade([i \in DOMAIN mappings |-> mappings[order[i]]], input_labels)
-----------------------------------------------------------------------------
(* The dialog.                                                             *)

ShowUsageModal(kind, i) ==
  /\ AtPage
  /\ dialog' = [kind |-> kind, of |-> rows[i].of, attached |-> TRUE, live |-> TRUE]
  /\ UNCHANGED <<mapping, mappings, input_labels, rows>>

\* The row that the dialog changes, if it is on the page.
Chosen == {i \in DOMAIN rows : dialog.attached /\ rows[i].of = dialog.of}

ChooseSource(usage) ==
  /\ dialog.kind = "source" /\ dialog.live
  /\ mapping' = [mapping EXCEPT ![dialog.of] = ForcedFlags([@ EXCEPT !.source = usage])]
  /\ rows' = [i \in DOMAIN rows |->
                IF i \notin Chosen THEN rows[i]
                ELSE [rows[i] EXCEPT !.source = ReadableName(usage, input_labels),
                                     !.fixed = Page(usage) = "expr",
                                     !.flags = IF Page(usage) = "expr" THEN {} ELSE @]]
  /\ dialog' = Closed
  /\ UNCHANGED <<mappings, input_labels>>

ChooseTarget(usage) ==
  /\ dialog.kind = "target" /\ dialog.live
  /\ mapping' = [mapping EXCEPT ![dialog.of] = ForcedLayers([@ EXCEPT !.target = usage])]
  /\ rows' = [i \in DOMAIN rows |->
                IF i \notin Chosen THEN rows[i]
                ELSE TickedForced([rows[i] EXCEPT !.target = usage], mapping'[dialog.of])]
  /\ dialog' = Closed
  /\ UNCHANGED <<mappings, input_labels>>

\* The dropdown for the port, which stays in place when the buttons are made again.
ChoosePort(port) ==
  /\ dialog.kind = "source"
  /\ mapping' = [mapping EXCEPT ![dialog.of].source_port = port]
  /\ rows' = [i \in DOMAIN rows |-> IF i \in Chosen THEN [rows[i] EXCEPT !.port = port]
                                   ELSE rows[i]]
  /\ UNCHANGED <<mappings, input_labels, dialog>>

Dismiss == /\ ~AtPage
           /\ dialog' = Closed
           /\ mapping' = Reachable(mapping, mappings, Closed)
           /\ UNCHANGED <<mappings, input_labels, rows>>

\* A device has been opened: setup_usages_modals() makes the buttons again.
DeviceOpened == /\ dialog' = [dialog EXCEPT !.live = FALSE]
                /\ UNCHANGED <<mapping, mappings, input_labels, rows>>

\* The numbers of mappings that have just been made, none of them the dialog's.
\* Mutant: the mappings there are take on what is loaded.
NumbersReused(file) == [i \in DOMAIN file |-> i]
Numbers(file) == [i \in DOMAIN file |-> IF AtPage \/ i < dialog.of THEN i ELSE i + 1]

\* A load, an upload or an example ends: set_ui_state() on a new configuration.
SetUiState(file, labels) ==
  /\ mappings' = Numbers(file)
  /\ mapping' = [n \in Range(mappings') \cup (IF AtPage THEN {} ELSE {dialog.of}) |->
                   IF n \in Range(mappings')
                   THEN Settled(file[CHOOSE i \in DOMAIN file : mappings'[i] = n])
                   ELSE mapping[n]]
  /\ input_labels' = labels
  /\ rows' = RowsOf(mapping', mappings', labels)
  /\ dialog' = [Reattached(mappings') EXCEPT !.live = FALSE]

Rebuilds == \/ \E kind \in 0..1 : InputLabelsOnchange(kind)
            \/ DescriptorOnchange
            \/ \E column \in {"input", "output", "layer"} : SortBy(column)
Loads == \E file \in MappingFiles, labels \in 0..1 : SetUiState(file, labels)

MappingsNext ==
  \/ \E usage \in Sources : AddMapping(usage)
  \/ \E i \in DOMAIN rows :
       \/ DeleteMapping(i)
       \/ \E flag \in Flags : SetFlag(i, flag)
       \/ \E layer \in Layers : SetLayer(i, layer)
       \/ \E kind \in {"source", "target"} : ShowUsageModal(kind, i)
  \/ Rebuilds
  \/ \E usage \in Sources : ChooseSource(usage)
  \/ \E usage \in Targets : ChooseTarget(usage)
  \/ \E port \in Ports : ChoosePort(port)
  \/ Dismiss \/ DeviceOpened \/ Loads

MappingsSpec == MappingsInit /\ [][MappingsNext]_mappings_tab
-----------------------------------------------------------------------------
(* Properties.                                                             *)

\* The page shows what would be saved: a row for every mapping, in their order, with the
\* output, the port, the flags and the layers that the mapping has, and what cannot be
\* ticked is what is forced.  An input goes by its name; a mapping that has brought a name
\* of its own shows either.
PageShowsConfig ==
  /\ Len(rows) = Len(mappings)
  /\ \A i \in DOMAIN rows :
       LET m == mapping[mappings[i]]
       IN /\ rows[i].source \in {Label(m, input_labels), ReadableName(m.source, input_labels)}
          /\ [rows[i] EXCEPT !.source = 0] = [Row(mappings[i], m, input_labels) EXCEPT !.source = 0]

\* A dialog that was open when another configuration came in no longer reaches the
\* configuration, whatever is chosen in it.
LateChoicesAreHarmless ==
  [][dialog.kind # "closed" =>
       /\ Loads => dialog.of \notin Range(mappings')
       /\ dialog.of \notin Range(mappings) /\ ~Rebuilds /\ ~Loads =>
            /\ mappings' = mappings /\ rows' = rows
            /\ \A n \in Range(mappings) : mapping'[n] = mapping[n]]_mappings_tab
=============================================================================
