----------------------------- MODULE MacrosPage -----------------------------
(***************************************************************************)
(* The macros tab of the web configuration tool (code.js).  A macro is a   *)
(* sequence of entries, an entry a sequence of usages pressed together.    *)
(* The configuration is made anew from the page after every change there,  *)
(* and the page from the configuration when that is replaced.              *)
(***************************************************************************)
EXTENDS Integers, Sequences, SequencesExt

CONSTANTS
  NMACROS,
  Usages,                \* usages to choose from, with Nothing among them
  Nothing,
  Files,                 \* macros of the configurations that are loaded
  MaxEntries, MaxItems   \* bounds on what the user adds

SizesAssumption == NMACROS \in Nat /\ MaxEntries \in Nat /\ MaxItems \in Nat
FilesAssumption ==
  /\ Nothing \in Usages
  /\ \A file \in Files : Len(file) = NMACROS /\ file \in Seq(Seq(Seq(Usages \ {Nothing})))

VARIABLES
  macros,   \* config['macros']
  entries,  \* what the page shows: macro -> entries of usages, Nothing among them
  dialog    \* the button the dialog was opened from, and whether the dialog's buttons work
vars == <<macros, entries, dialog>>

Closed == [macro |-> 0, entry |-> 0, item |-> 0, live |-> FALSE]
AtPage == dialog = Closed
-----------------------------------------------------------------------------
\* set_macros_config_from_ui_state()
Chosen(entry) ==
  LET upto[i \in 0..Len(entry)] ==
        IF i = 0 THEN << >>
        ELSE IF entry[i] = Nothing THEN upto[i - 1] ELSE Append(upto[i - 1], entry[i])
  IN upto[Len(entry)]
FromPage(page) == [m \in 1..NMACROS |-> [e \in DOMAIN page[m] |-> Chosen(page[m][e])]]

ShownEntry(entry) == IF entry = << >> THEN <<Nothing>> ELSE entry

\* set_macros_ui_state(): what the page showed before is removed.
OnPage(config) == [m \in 1..NMACROS |-> [e \in DOMAIN config[m] |-> ShownEntry(config[m][e])]]

Init == /\ macros = [m \in 1..NMACROS |-> << >>]
        /\ entries = [m \in 1..NMACROS |-> << >>]
        /\ dialog = Closed

\* A change of the page by the user, with what follows from it.
Change(page) == /\ entries' = page
                /\ macros' = FromPage(page)

AddMacroEntry(m) == /\ AtPage /\ Len(entries[m]) < MaxEntries
                    /\ Change([entries EXCEPT ![m] = Append(@, <<Nothing>>)])
                    /\ UNCHANGED dialog

AddMacroItem(m, e) == /\ AtPage /\ Len(entries[m][e]) < MaxItems
                      /\ Change([entries EXCEPT ![m][e] = Append(@, Nothing)])
                      /\ UNCHANGED dialog

\* An entry goes with its last item.
DeleteMacroItem(m, e, i) ==
  LET macro == entries[m]
      left == IF Len(macro[e]) = 1 THEN RemoveAt(macro, e)
              ELSE [macro EXCEPT ![e] = RemoveAt(macro[e], i)]
  IN /\ AtPage
     /\ Change([entries EXCEPT ![m] = left])
     /\ UNCHANGED dialog

ShowUsageModal(m, e, i) ==
  /\ AtPage
  /\ dialog' = [macro |-> m, entry |-> e, item |-> i, live |-> TRUE]
  /\ UNCHANGED <<macros, entries>>

ChooseUsage(usage) ==
  /\ dialog.live
  /\ Change([entries EXCEPT ![dialog.macro][dialog.entry][dialog.item] = usage])
  /\ dialog' = Closed

Dismiss == ~AtPage /\ dialog' = Closed /\ UNCHANGED <<macros, entries>>

\* The dialog's buttons are made again, without a listener: a device has been opened, or
\* set_ui_state() has made its buttons and the page anew.
ButtonsRemade == dialog' = [dialog EXCEPT !.live = FALSE]
DeviceOpened == ButtonsRemade /\ UNCHANGED <<macros, entries>>

\* A load, an upload or an example ends.
SetUiState(file) == /\ macros' = file /\ entries' = OnPage(file)
                    /\ ButtonsRemade

DescriptorOnchange == /\ AtPage
                      /\ entries' = OnPage(macros)
                      /\ ButtonsRemade /\ UNCHANGED macros

Next == \/ \E m \in 1..NMACROS :
             \/ AddMacroEntry(m)
             \/ \E e \in DOMAIN entries[m] :
                  \/ AddMacroItem(m, e)
                  \/ \E i \in DOMAIN entries[m][e] :
                       DeleteMacroItem(m, e, i) \/ ShowUsageModal(m, e, i)
        \/ \E usage \in Usages : ChooseUsage(usage)
        \/ Dismiss \/ DeviceOpened \/ DescriptorOnchange
        \/ \E file \in Files : SetUiState(file)

Spec == Init /\ [][Next]_vars
-----------------------------------------------------------------------------
(* Properties.                                                             *)

\* The configuration has the macros that the page shows, up to the usages not chosen yet,
\* however the page was edited, made anew or replaced under an open dialog.
MacrosAgree == macros = FromPage(entries)
=============================================================================
