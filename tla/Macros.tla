------------------------------- MODULE Macros -------------------------------
(***************************************************************************)
(* Macros on their way to the host (remapper.cc): the queue of entries     *)
(* that a triggered macro fills, the entry in front that every frame adds  *)
(* to the report, and the queue of reports behind it.                      *)
(*                                                                         *)
(* There are two reports: one with keys, which the macros type on and      *)
(* which other mappings press keys of too, and one with movement, which    *)
(* competes for the queue.  The send loop takes them in either order.      *)
(* Which mappings trigger in a frame (LayerEngine has the edges, taps and  *)
(* layers that decide it) is left open.                                    *)
(***************************************************************************)
EXTENDS Integers, Sequences, FiniteSets

CONSTANTS Keys,        \* keys of the report that mappings press directly
          MacroKeys,   \* and those that macros press
          MacroList,   \* macros: a sequence of sequences of sets of keys
          Durations,   \* macro_entry_duration, a setting of the tool: 0 is one frame
          Capacity,    \* OR_BUFSIZE
          MaxQueued,   \* bound: entries that may wait before a trigger
          Moved        \* a report of movement in the queue

AllKeys == Keys \cup MacroKeys

ASSUME EntriesAssumption == MacroList \in Seq(Seq(SUBSET MacroKeys))
ASSUME KeysAssumption ==
  Keys \cap MacroKeys = {} /\ \A k \in SUBSET AllKeys : k # Moved

\* An empty queue has room for each of the two reports.
ASSUME SizesAssumption ==
  Durations \subseteq Nat /\ Capacity \in Nat \ {0, 1} /\ MaxQueued \in Nat

VARIABLES
  keys_first,   \* the order of report_ids: that of an unordered_map
  macro_queue,  \* entries to type, [left, items]
  held,         \* keys that other mappings press
  keys,         \* the report of keys under construction between frames
  movement,     \* the other report holds movement that was not queued
  prev_keys,    \* the keys of the report queued last
  queue,        \* outgoing_reports: sets of keys, or Moved
  view,         \* the keys the host sees
  display       \* history: keys of macros the host has to see one after the other,
                \* those that it sees first

macros == <<keys_first, macro_queue, held, keys, movement, prev_keys, queue, view, display>>

MacrosInit ==
  /\ keys_first \in BOOLEAN
  /\ macro_queue = << >> /\ held = {} /\ keys = {} /\ movement = FALSE
  /\ prev_keys = {} /\ queue = << >> /\ view = {} /\ display = << {} >>
-----------------------------------------------------------------------------
\* Other mappings press or release keys.
Press ==
  /\ held' \in SUBSET Keys /\ held' # held
  /\ UNCHANGED <<keys_first, macro_queue, keys, movement, prev_keys, queue, view, display>>

\* The entries that a frame adds to the queue.
Triggered(added, duration) ==
  [k \in 1 .. Len(added) |-> [left |-> duration, items |-> added[k]]]

\* What becomes of the queue once its first entry has been put into the report:
\* the entry goes when its time is over and no report waits.
Executed(entries) ==
  IF entries = << >> THEN entries
  ELSE IF Head(entries).left > 0 THEN [entries EXCEPT ![1].left = @ - 1]
  ELSE IF queue = << >> THEN Tail(entries) ELSE entries

Items(entries) == IF entries = << >> THEN {} ELSE Head(entries).items

\* A report is queued when it has something to say and there is room; movement is
\* added to a report of movement that waits last.

KeysWait(q, built) == built # prev_keys /\ Len(q) = Capacity
MovementWaits(q, moved) == moved /\ Len(q) = Capacity

\* Mutant: a report of keys that waits last is amended.
WithKeysMerging(q, built) ==
  IF built = prev_keys THEN q
  ELSE IF q # << >> /\ q[Len(q)] # Moved THEN [q EXCEPT ![Len(q)] = built]
  ELSE Append(q, built)

WithKeys(q, built) == IF built = prev_keys THEN q ELSE Append(q, built)

\* Mutant: movement is never added to a report that waits.
WithMovementUnmerged(q, moved) == IF moved THEN Append(q, Moved) ELSE q

WithMovement(q, moved) ==
  IF moved /\ (q = << >> \/ q[Len(q)] # Moved) THEN Append(q, Moved) ELSE q

\* The loop over the reports stops at one that finds the queue full: that one and the
\* one behind it are left as they are.
SendLoop(built, moved) ==
  \/ /\ keys_first /\ KeysWait(queue, built)
     /\ keys' = built /\ movement' = moved /\ UNCHANGED <<queue, prev_keys>>
  \/ /\ keys_first /\ ~KeysWait(queue, built)
     /\ keys' = {} /\ prev_keys' = built
     /\ LET q == WithKeys(queue, built) IN
          /\ movement' = MovementWaits(q, moved)
          /\ queue' = IF MovementWaits(q, moved) THEN q ELSE WithMovement(q, moved)
  \/ /\ ~keys_first /\ MovementWaits(queue, moved)
     /\ keys' = built /\ movement' = moved /\ UNCHANGED <<queue, prev_keys>>
  \/ /\ ~keys_first /\ ~MovementWaits(queue, moved)
     /\ movement' = FALSE
     /\ LET q == WithMovement(queue, moved) IN
          /\ keys' = IF KeysWait(q, built) THEN built ELSE {}
          /\ prev_keys' = IF KeysWait(q, built) THEN prev_keys ELSE built
          /\ queue' = IF KeysWait(q, built) THEN q ELSE WithKeys(q, built)

\* A sequence without what only repeats the element before it.
Squeezed(s) ==
  LET own == {k \in 1 .. Len(s) : k > 1 => s[k] # s[k - 1]}
  IN [n \in 1 .. Cardinality(own) |->
        s[CHOOSE k \in own : Cardinality(own \cap (1 .. k)) = n]]

\* What the host is to see after what it was to see before: the entries added, and
\* no key of a macro once a report without them is queued that no entry is put in.
Shown(entries, added) ==
  IF entries # << >> THEN added
  ELSE IF prev_keys' \cap MacroKeys = {} THEN << {} >> ELSE << >>

\* A frame of process_mapping(): added are the entries of the macros it triggers.
FrameOf(added, duration, moved) ==
  LET entries == macro_queue \o Triggered(added, duration) IN
  /\ macro_queue' = Executed(entries)
  /\ SendLoop(keys \cup held \cup Items(entries), movement \/ moved)
  /\ display' = Squeezed(display \o Shown(entries, added))
  /\ UNCHANGED <<keys_first, held, view>>

Idle(moved) == FrameOf(<< >>, 0, moved)

Trigger(i, moved) ==
  /\ Len(macro_queue) <= MaxQueued
  /\ \E duration \in Durations : FrameOf(MacroList[i], duration, moved)

\* Two mappings trigger in one frame: their macros are typed one after the other.
TriggerTwo(i, j) ==
  /\ Len(macro_queue) <= MaxQueued /\ i # j
  /\ \E duration \in Durations : FrameOf(MacroList[i] \o MacroList[j], duration, FALSE)

Frame == \E moved \in BOOLEAN : Idle(moved)

\* The host polls: send_report().
SendReport ==
  /\ queue # << >>
  /\ queue' = Tail(queue)
  /\ LET r == Head(queue) IN
       IF r = Moved THEN UNCHANGED <<view, display>>
       ELSE /\ view' = r
            /\ display' = IF r \cap MacroKeys = Head(display) THEN display
                          ELSE Tail(display)
  /\ UNCHANGED <<keys_first, macro_queue, held, keys, movement, prev_keys>>

MacrosNext ==
  \/ Press \/ Frame \/ SendReport
  \/ \E i \in DOMAIN MacroList, moved \in BOOLEAN : Trigger(i, moved)
  \/ \E i, j \in DOMAIN MacroList : TriggerTwo(i, j)

MacrosSpec == MacrosInit /\ [][MacrosNext]_macros

\* Frames keep coming, and the host polls between them.
FairMacrosSpec == /\ MacrosSpec /\ WF_macros(Frame) /\ SF_macros(SendReport)
-----------------------------------------------------------------------------
(* Properties.                                                             *)

\* The host sees the entries of every macro one after the other, in the order
\* triggered, each of them once and without the keys of another one, however
\* slowly it polls, whatever else goes through the queue and whichever report the
\* send loop takes first.  A report shows the entry shown last, or the one that is
\* next; no key of a macro, if there was none to show for a time.  Entries that only
\* repeat the one before them make no report of their own.
EntriesAreTypedInOrder ==
  [][(SendReport /\ Head(queue) # Moved) =>
       LET shown == Head(queue) \cap MacroKeys IN
         \/ shown = view \cap MacroKeys
         \/ Len(display) > 1 /\ shown = display[2]]_macros

\* Movement in every frame does not hold a macro up for ever, whichever report the
\* send loop takes first, although an entry is only released in a frame that finds
\* no report waiting: the movement is added up in one report, so polls catch up
\* with it.  That holds once other mappings no longer change their keys and no macro
\* is triggered any more; keys that change in every frame can hold a macro up.
MacrosEnd ==
  <>[][Frame \/ SendReport]_macros => <>[](macro_queue = << >>)
=============================================================================
