------------------------------- MODULE Pages -------------------------------
(***************************************************************************)
(* The page of the configuration tool, one part of it at work in a         *)
(* behaviour: the mappings tab, the macros tab, the expressions tab, and   *)
(* the transfer of macros and expressions in packets.  They share nothing  *)
(* but the configuration, of which each has a section of its own.          *)
(***************************************************************************)
EXTENDS MappingsPage

CONSTANTS
  NMACROS, Usages, NoUsage, MacroFiles, MaxEntries, MaxItems,  \* of the macros tab
  NEXPRESSIONS, Texts, ExpressionFiles, Devices,               \* of the expressions tab
  MACRO_ITEMS_IN_PACKET, SendBytes, ReplyBytes, Wide, Separator,
  SomeMacros, SomeExpressions, OldMacro, OldExpression,        \* of the transfer
  Tried                                                        \* what is transferred

VARIABLES
  part,                                    \* the part at work
  macros, entries, macro_dialog,
  expressions, texts, is_invalid,
  sent, stored, result, stage, index, rest, offset

MacrosTab == INSTANCE MacrosPage WITH
  Nothing <- NoUsage, Files <- MacroFiles, dialog <- macro_dialog

ExpressionsTab == INSTANCE ExpressionsPage WITH Files <- ExpressionFiles, shown <- texts

Transfer == INSTANCE ChunkTransfer WITH
  Macros <- SomeMacros, Expressions <- SomeExpressions, config <- sent

ASSUME TabsAssumption ==
  /\ MacrosTab!SizesAssumption /\ MacrosTab!FilesAssumption
  /\ ExpressionsTab!TextsAssumption
ASSUME TransferAssumption == Transfer!SizesAssumption /\ Transfer!ContentsAssumption

macros_tab == <<macros, entries, macro_dialog>>
expressions_tab == <<expressions, texts, is_invalid>>
transfer == <<sent, stored, result, stage, index, rest, offset>>
pages == <<part, mappings_tab, macros_tab, expressions_tab, transfer>>
-----------------------------------------------------------------------------
PagesInit ==
  /\ part \in {"mappings", "macros", "expressions", "transfer"}
  /\ sent \in IF part = "transfer" THEN Tried ELSE {Transfer!Nothing}
  /\ MappingsInit /\ MacrosTab!Init /\ ExpressionsTab!Init /\ Transfer!Init

PagesNext ==
  /\ UNCHANGED part
  /\ \/ part = "mappings" /\ MappingsNext /\ UNCHANGED <<macros_tab, expressions_tab, transfer>>
     \/ part = "macros" /\ MacrosTab!Next /\ UNCHANGED <<mappings_tab, expressions_tab, transfer>>
     \/ part = "expressions" /\ ExpressionsTab!Next /\ UNCHANGED <<mappings_tab, macros_tab, transfer>>
     \/ part = "transfer" /\ Transfer!Next /\ UNCHANGED <<mappings_tab, macros_tab, expressions_tab>>

PagesSpec == PagesInit /\ [][PagesNext]_pages
-----------------------------------------------------------------------------
(* Properties.                                                             *)

\* What each tab shows is what a save would send, however it was edited, made anew or
\* replaced under an open dialog; see the three modules.
TabsShowConfig == /\ PageShowsConfig
                  /\ MacrosTab!MacrosAgree
                  /\ ExpressionsTab!ExpressionsAgree

\* Macros and expressions come back from the device as they were sent; see ChunkTransfer.
ReadsBackWhatWasSent == Transfer!ReadsBackWhatWasSent
=============================================================================
