------------------------ MODULE ConfigSession_proofs ------------------------
(* Proofs about ConfigSession, for every list of sections, every set of    *)
(* configurations and files and every capacity.                            *)
EXTENDS ConfigSession, TLAPS

(* The invariant.                                                          *)

\* A handler only stands at its own awaits, and holds a device that has power.  A loop
\* over lists has a list to work on, except for the save loop before its first one.
Held ==
  /\ device => powered
  /\ task = "open" => pos.step \in {"VERSION_SEND", "VERSION_READ", "MONITOR",
                                    "USAGES_SEND", "USAGES_READ"}
  /\ task = "load" => pos.step \in {"GET_CONFIG", "CONFIG_READ", "LISTS", "ITEM_READ"}
  /\ task = "save" => pos.step \in {"SUSPEND", "SET_CONFIG", "LISTS", "PERSIST_READ", "RESUME"}
  /\ task = "load" /\ pos.step \in {"LISTS", "ITEM_READ"} => pos.sec >= 1
  /\ At("save", "LISTS") /\ pos.sec = 0 => pos.iterated = << >>

\* GET_ITEM is asked of a list.
AsksSection == fw.asked[1] \in 1..Len(Sections)

\* While memory holds half a configuration, and while a save goes on, frames have stopped
\* and are not about to go on.
Stopped == fw.suspended /\ ~fw.resume_pending
Writing == task = "save" /\ pos.step \in {"SET_CONFIG", "LISTS", "PERSIST_READ", "RESUME"}
FramesStop ==
  /\ ~past.whole /\ powered /\ ~past.hurried => Stopped
  /\ Writing /\ device /\ ~past.hurried => Stopped
  /\ ~powered => past.whole

\* Beyond the check of its version, a device held has the tool's version, so that it
\* understands other commands; until then its answer tells whether it has.
Versioned ==
  /\ device /\ task # "open" => firmware = "current"
  /\ device /\ At("open", "VERSION_READ") =>
       /\ fw.last = "GET_CONFIG" => Versions[pos.trying] = firmware
       /\ firmware # "current" => HasAnswer
  /\ device /\ task = "open" /\ pos.step \notin {"VERSION_SEND", "VERSION_READ"} =>
       firmware = "current"

\* The answer a handler waits for is the one to its own command, unless another command
\* took it away.
AsksRight ==
  /\ device /\ At("load", "ITEM_READ") =>
       fw.last = "NO_ANSWER" \/ (fw.last = "GET_ITEM" /\ fw.asked = <<pos.sec, pos.idx>>)
  /\ device /\ At("save", "PERSIST_READ") => fw.last \in {"NO_ANSWER", "PERSIST_CONFIG"}

\* The page shows config, unless a load is at it or failed midway.
LoadsItems == task = "load" /\ pos.step \in {"LISTS", "ITEM_READ"}
ShownIsConfig == shown = config \/ past.half \/ LoadsItems

\* The first n entries of a list, and nothing else.
IsPrefix(start, list, n) ==
  Len(start) = n /\ n =< Len(list) /\ \A k \in 1..n : start[k] = list[k]

\* A load has read the scalar part, the lists before the present one, and the beginning
\* of that one.
SectionsAgree(a, b, n) == \A j \in 1..n : a.lists[Sections[j]] = b.lists[Sections[j]]
Reads ==
  device /\ LoadsItems /\ ~past.touched =>
    /\ config.scalars = fw.memory.scalars
    /\ \A n \in SectionNames : pos.count[n] = Len(fw.memory.lists[n])
    /\ SectionsAgree(config, fw.memory, pos.sec - 1)
    /\ IsPrefix(config.lists[Sections[pos.sec]], fw.memory.lists[Sections[pos.sec]], pos.idx)

\* A save has written as much, and then everything.
Sends ==
  device /\ task = "save" /\ ~past.touched =>
    /\ pos.step = "LISTS" =>
         /\ fw.memory.scalars = config.scalars
         /\ SectionsAgree(fw.memory, config, pos.sec - 1)
         /\ pos.sec > 0 =>
              /\ pos.iterated = config.lists[Sections[pos.sec]]
              /\ IsPrefix(fw.memory.lists[Sections[pos.sec]], pos.iterated, pos.idx)
    /\ pos.step = "PERSIST_READ" => fw.memory = config
    /\ pos.step = "RESUME" /\ pos.code = "SUCCESS" => flash = config

\* What stands in the way of a promise, and what a promise is about.
Flashing ==
  /\ fw.need_to_persist \/ writing => promised = None
  /\ fw.return_code # "UNKNOWN" => ~fw.need_to_persist /\ ~writing
  /\ fw.return_code = "SUCCESS" => flash = fw.memory
  /\ writing => powered /\ flash = Torn /\ fw.need_to_persist
  /\ device /\ At("save", "RESUME") => ~fw.need_to_persist /\ ~writing
  /\ promised # None => flash = promised
-----------------------------------------------------------------------------
(* What a command changes in the firmware.                                 *)

LEMMA SectionNamed ==
  ASSUME NEW i \in 1..Len(Sections)
  PROVE  Sections[i] \in SectionNames
BY DEF SectionNames

LEMMA ConfigParts ==
  ASSUME NEW c \in Config
  PROVE  /\ c.scalars \in Scalars /\ c.lists \in [SectionNames -> Seq(Items)]
         /\ \A s \in Scalars : [c EXCEPT !.scalars = s] \in Config
         /\ \A n \in SectionNames, l \in Seq(Items) : [c EXCEPT !.lists[n] = l] \in Config
BY DEF Config

\* The parts of the firmware's state that a command for the answer leaves alone.
Kept(f) == /\ f.memory = fw.memory
           /\ f.suspended = fw.suspended /\ f.resume_pending = fw.resume_pending
           /\ f.need_to_persist = fw.need_to_persist
           /\ f.return_code = "UNKNOWN"

LEMMA HeardKeeps ==
  ASSUME fw \in Firmware, NEW c \in Questions \cup {"NO_ANSWER"}
  PROVE  /\ Heard(c) \in Firmware /\ Kept(Heard(c)) /\ Heard(c).last = c
         /\ Heard(c).asked = <<1, 0>>
BY DEF Firmware, Heard, Kept, ReturnCodes

LEMMA SilentKeeps ==
  ASSUME fw \in Firmware
  PROVE  /\ Silent \in Firmware /\ Kept(Silent) /\ Silent.last = "NO_ANSWER"
         /\ Silent.asked = <<1, 0>>
BY HeardKeeps DEF Silent

LEMMA GetKeeps ==
  ASSUME fw \in Firmware, NEW s \in Nat, NEW i \in Nat
  PROVE  /\ Get(s, i) \in Firmware /\ Kept(Get(s, i))
         /\ Get(s, i).last = "GET_ITEM" /\ Get(s, i).asked = <<s, i>>
BY DEF Firmware, Heard, Kept, ReturnCodes, Get, Questions

LEMMA MonitorKeeps ==
  ASSUME fw \in Firmware, NEW b \in BOOLEAN
  PROVE  /\ SetMonitorEnabled(b) \in Firmware /\ Kept(SetMonitorEnabled(b))
         /\ SetMonitorEnabled(b).last = "NO_ANSWER"
         /\ SetMonitorEnabled(b).asked = <<1, 0>>
BY DEF Firmware, Heard, Silent, Kept, ReturnCodes, SetMonitorEnabled

\* Commands of a save.
LEMMA SuspendStops ==
  ASSUME fw \in Firmware
  PROVE  /\ Suspend \in Firmware /\ Suspend.suspended
         /\ Suspend.memory = fw.memory /\ Suspend.resume_pending = fw.resume_pending
         /\ Suspend.need_to_persist = fw.need_to_persist
         /\ Suspend.return_code = "UNKNOWN" /\ Suspend.last = "NO_ANSWER"
         /\ Suspend.asked = <<1, 0>>
BY DEF Firmware, Heard, Silent, ReturnCodes, Suspend

LEMMA ResumeGoesOn ==
  ASSUME fw \in Firmware
  PROVE  /\ Resume \in Firmware
         /\ Resume.memory = fw.memory /\ Resume.suspended = fw.suspended
         /\ Resume.need_to_persist = fw.need_to_persist
         /\ Resume.return_code = "UNKNOWN" /\ Resume.last = "NO_ANSWER"
         /\ Resume.asked = <<1, 0>>
BY DEF Firmware, Heard, Silent, ReturnCodes, Resume

LEMMA PersistAsks ==
  ASSUME fw \in Firmware
  PROVE  /\ PersistConfig \in Firmware
         /\ PersistConfig.memory = fw.memory /\ PersistConfig.suspended = fw.suspended
         /\ PersistConfig.resume_pending = fw.resume_pending
         /\ PersistConfig.need_to_persist
         /\ PersistConfig.return_code = "UNKNOWN" /\ PersistConfig.last = "PERSIST_CONFIG"
         /\ PersistConfig.asked = <<1, 0>>
BY DEF Firmware, Heard, ReturnCodes, PersistConfig, Questions

\* Commands that write into memory.
WritesTo(f) == /\ f.suspended = fw.suspended /\ f.resume_pending = fw.resume_pending
               /\ f.need_to_persist = fw.need_to_persist
               /\ f.return_code = "UNKNOWN" /\ f.last = "NO_ANSWER"
               /\ f.asked = <<1, 0>>

LEMMA SetConfigWrites ==
  ASSUME fw \in Firmware, NEW s \in Scalars
  PROVE  /\ SetConfig(s) \in Firmware /\ WritesTo(SetConfig(s))
         /\ SetConfig(s).memory = [fw.memory EXCEPT !.scalars = s]
<1>1. [fw.memory EXCEPT !.scalars = s] \in Config
  BY ConfigParts DEF Firmware
<1> QED
  BY <1>1 DEF Firmware, Heard, Silent, ReturnCodes, SetConfig, WritesTo

LEMMA ListWrites ==
  ASSUME fw \in Firmware, NEW n \in SectionNames
  PROVE  /\ ClearList(n) \in Firmware /\ WritesTo(ClearList(n))
         /\ ClearList(n).memory = [fw.memory EXCEPT !.lists[n] = << >>]
         /\ \A x \in Items :
              /\ AddToList(n, x) \in Firmware /\ WritesTo(AddToList(n, x))
              /\ AddToList(n, x).memory = [fw.memory EXCEPT !.lists[n] = Append(@, x)]
<1>1. [fw.memory EXCEPT !.lists[n] = << >>] \in Config
  <2>1. fw.memory \in Config /\ << >> \in Seq(Items)
    BY DEF Firmware
  <2> QED
    BY <2>1, ConfigParts
<1>2. ASSUME NEW x \in Items
      PROVE  [fw.memory EXCEPT !.lists[n] = Append(@, x)] \in Config
  <2>1. Append(fw.memory.lists[n], x) \in Seq(Items)
    BY ConfigParts DEF Firmware
  <2> QED
    BY <2>1, ConfigParts DEF Firmware
<1>3. /\ ClearList(n) \in Firmware /\ WritesTo(ClearList(n))
      /\ ClearList(n).memory = [fw.memory EXCEPT !.lists[n] = << >>]
  BY <1>1 DEF Firmware, Heard, Silent, ReturnCodes, ClearList, WritesTo
<1>4. ASSUME NEW x \in Items
      PROVE  /\ AddToList(n, x) \in Firmware /\ WritesTo(AddToList(n, x))
             /\ AddToList(n, x).memory = [fw.memory EXCEPT !.lists[n] = Append(@, x)]
  BY <1>2 DEF Firmware, Heard, Silent, ReturnCodes, AddToList, WritesTo
<1> QED
  BY <1>3, <1>4

\* The firmware starts with what is in the flash, or with its defaults.
LEMMA BootIsClean ==
  ASSUME NEW f \in Config \cup {Torn}
  PROVE  /\ Boot(f) \in Firmware
         /\ ~Boot(f).suspended /\ ~Boot(f).resume_pending
         /\ ~Boot(f).need_to_persist /\ Boot(f).return_code = "UNKNOWN"
         /\ Boot(f).last = "NO_ANSWER" /\ Boot(f).asked = <<1, 0>>
BY ConfigsAssumption DEF Firmware, ReturnCodes, Boot, Questions
-----------------------------------------------------------------------------
(* Types.                                                                  *)

LEMMA PositionParts ==
  ASSUME pos \in Position
  PROVE  /\ pos.sec \in 0..Len(Sections) /\ pos.idx \in Nat /\ pos.trying \in {1, 2}
         /\ pos.iterated \in Seq(Items) /\ pos.attempts_left \in 1..MaxAttempts
         /\ pos.count \in [SectionNames -> Nat] /\ pos.code \in ReturnCodes
         /\ pos.live \in BOOLEAN
BY DEF Position

LEMMA IdleIsPosition == Idle \in Position
BY SectionsAssumption, BoundsAssumption DEF Idle, Position, ReturnCodes

LEMMA FreshIsPosition ==
  ASSUME pos \in Position
  PROVE  /\ Fresh \in Position /\ Fresh.sec = pos.sec /\ Fresh.idx = pos.idx
         /\ Fresh.trying = pos.trying /\ Fresh.iterated = pos.iterated
         /\ Fresh.count = pos.count
<1>1. MaxAttempts \in 1..MaxAttempts
  BY BoundsAssumption
<1> QED
  BY <1>1 DEF Fresh, Position

LEMMA TypeOfOpen ==
  ASSUME TypeOK, Held, Open
  PROVE  TypeOK'
<1> USE DEF TypeOK
<1>1. CASE OpenDevice
  BY <1>1 DEF OpenDevice, Begin, page, board, Position, History
<1>2. CASE OpenCancelled
  BY <1>2 DEF OpenCancelled, page, board, ghosts
<1>3. CASE VersionSend
  <2>1. Heard(IF Versions[pos.trying] = firmware THEN "GET_CONFIG" ELSE "INVALID_COMMAND")
          \in Firmware
    BY HeardKeeps DEF Questions
  <2> QED
    BY <1>3, <2>1 DEF VersionSend, SendAndGo, Send, open_vars, page, messages, ghosts, Position
<1>4. CASE VersionRead
  <2>1. [Fresh EXCEPT !.step = "MONITOR"] \in Position
    BY FreshIsPosition DEF Position
  <2>2. ASSUME pos.trying < Len(Versions)
        PROVE  [Fresh EXCEPT !.step = "VERSION_SEND", !.trying = @ + 1] \in Position
    <3>1. Fresh \in Position /\ Fresh.trying + 1 \in {1, 2}
      BY <2>2, FreshIsPosition, PositionParts DEF Versions
    <3> QED
      BY <3>1 DEF Position
  <2> QED
    BY <1>4, <2>1, <2>2, SilentKeeps, IdleIsPosition
    DEF VersionRead, Read, Answered, Done, Reject, open_vars, page, ghosts
<1>5. CASE OpenMonitor
  BY <1>5, MonitorKeeps
  DEF OpenMonitor, SendAndGo, Send, open_vars, page, messages, ghosts, Position
<1>6. CASE UsagesSend
  <2>1. Heard(IF pos.idx = 0 THEN "GET_CONFIG" ELSE "GET_USAGES") \in Firmware
    BY HeardKeeps DEF Questions
  <2> QED
    BY <1>6, <2>1 DEF UsagesSend, SendAndGo, Send, open_vars, page, messages, ghosts, Position
<1>7. CASE UsagesRead
  <2>1. Fresh \in Position /\ Fresh.idx + 1 \in Nat
    BY FreshIsPosition, PositionParts
  <2>2. [Fresh EXCEPT !.step = "USAGES_SEND", !.idx = @ + 1] \in Position
    BY <2>1 DEF Position
  <2> QED
    BY <1>7, <2>2, SilentKeeps, IdleIsPosition
    DEF UsagesRead, Read, Answered, Done, page, messages, ghosts
<1> QED
  BY <1>1, <1>2, <1>3, <1>4, <1>5, <1>6, <1>7 DEF Open

\* The end of a list, read to its end or counted.
LEMMA AfterListTypes ==
  ASSUME TypeOK, AfterList
  PROVE  /\ task' \in {"none", "open", "load", "save"} /\ pos' \in Position
         /\ config' \in Config /\ shown' \in Config /\ past' \in History
<1> USE DEF TypeOK
<1>1. CASE pos.sec < Len(Sections)
  <2>1. pos.sec + 1 \in 1..Len(Sections)
    BY <1>1, PositionParts, SectionsAssumption
  <2>2. Fresh \in Position /\ Fresh.sec + 1 \in 0..Len(Sections)
    BY <2>1, FreshIsPosition
  <2>3. [Fresh EXCEPT !.step = "LISTS", !.sec = @ + 1, !.idx = 0] \in Position
    BY <2>2 DEF Position
  <2>4. Sections[pos.sec + 1] \in SectionNames /\ << >> \in Seq(Items)
    BY <2>1, SectionNamed
  <2>5. [config EXCEPT !.lists[Sections[pos.sec + 1]] = << >>] \in Config
    BY <2>4, ConfigParts
  <2> QED
    BY <1>1, <2>3, <2>5 DEF AfterList
<1>2. CASE ~(pos.sec < Len(Sections))
  BY <1>2, IdleIsPosition DEF AfterList, Done, Show, History
<1> QED
  BY <1>1, <1>2

\* The answer to GET_ITEM is one entry, or none.
LEMMA ItemType ==
  ASSUME fw \in Firmware, Item # << >>, NEW n \in SectionNames, config \in Config,
         Sections[fw.asked[1]] \in SectionNames
  PROVE  config.lists[n] \o Item \in Seq(Items)
<1> DEFINE l == fw.memory.lists[Sections[fw.asked[1]]]
<1>1. l \in Seq(Items) /\ fw.asked[2] \in Nat
  BY ConfigParts DEF Firmware
<1>2. fw.asked[2] < Len(l) /\ Item = << l[fw.asked[2] + 1] >>
  BY DEF Item
<1>3. Item \in Seq(Items)
  <2>1. l[fw.asked[2] + 1] \in Items
    BY <1>1, <1>2
  <2> HIDE DEF l
  <2> QED
    BY <1>2, <2>1
<1>4. config.lists[n] \in Seq(Items)
  BY ConfigParts
<1> HIDE DEF l
<1> QED
  BY <1>3, <1>4

LEMMA TypeOfLoad ==
  ASSUME TypeOK, Held, AsksSection, Load
  PROVE  TypeOK'
<1> USE DEF TypeOK
<1>1. CASE LoadStart
  BY <1>1 DEF LoadStart, Begin, page, board, Position, History
<1>2. CASE LoadSend
  <2>1. Heard("GET_CONFIG") \in Firmware
    BY HeardKeeps DEF Questions
  <2> QED
    BY <1>2, <2>1 DEF LoadSend, SendAndGo, Send, open_vars, page, messages, ghosts, Position
<1>3. CASE LoadConfig
  <2>1. [n \in SectionNames |-> Len(fw.memory.lists[n])] \in [SectionNames -> Nat]
    BY ConfigParts DEF Firmware
  <2>2. Fresh \in Position /\ 1 \in 0..Len(Sections)
    BY FreshIsPosition, SectionsAssumption
  <2>3. [Fresh EXCEPT !.step = "LISTS", !.sec = 1, !.idx = 0,
                      !.count = [n \in SectionNames |-> Len(fw.memory.lists[n])]] \in Position
    BY <2>1, <2>2 DEF Position
  <2>4. Sections[1] \in SectionNames /\ << >> \in Seq(Items)
    BY SectionsAssumption, SectionNamed
  <2>5. fw.memory.scalars \in Scalars
    BY ConfigParts DEF Firmware
  <2>6. [config EXCEPT !.scalars = fw.memory.scalars, !.lists[Sections[1]] = << >>] \in Config
    BY <2>4, <2>5 DEF Config
  <2> QED
    BY <1>3, <2>3, <2>6, SilentKeeps
    DEF LoadConfig, Read, Answered, open_vars, messages, ghosts
<1>4. CASE LoadAsk
  <2>1. Get(pos.sec, pos.idx) \in Firmware
    BY GetKeeps, PositionParts
  <2> QED
    BY <1>4, <2>1 DEF LoadAsk, SendAndGo, Send, open_vars, page, messages, ghosts, Position
<1>5. CASE LoadItem
  <2>1. /\ fw' \in Firmware /\ powered' = powered /\ firmware' = firmware
        /\ flash' = flash /\ writing' = writing /\ device' = device /\ enabled' = enabled
        /\ monitor_enabled' = monitor_enabled /\ checkmark' = checkmark /\ error' = error
        /\ promised' = promised
    BY <1>5, SilentKeeps DEF LoadItem, Read, Answered, open_vars, messages
  <2>2. CASE Item = << >>
    <3>1. AfterList
      BY <1>5, <2>2 DEF LoadItem
    <3> QED
      BY <2>1, <3>1, AfterListTypes
  <2>3. CASE Item # << >>
    <3>1. pos.sec \in 1..Len(Sections)
      BY <1>5, PositionParts, SectionsAssumption DEF LoadItem, At, Held
    <3>2. Sections[pos.sec] \in SectionNames
      BY <3>1, SectionNamed
    <3>3. config.lists[Sections[pos.sec]] \o Item \in Seq(Items)
      <4>1. Sections[fw.asked[1]] \in SectionNames
        BY SectionNamed DEF AsksSection
      <4> QED
        BY <2>3, <3>2, <4>1, ItemType
    <3>4. [config EXCEPT !.lists[Sections[pos.sec]] = @ \o Item] \in Config
      BY <3>2, <3>3, ConfigParts
    <3>5. Fresh \in Position /\ Fresh.idx + 1 \in Nat
      BY FreshIsPosition, PositionParts
    <3>6. [Fresh EXCEPT !.step = "LISTS", !.idx = @ + 1] \in Position
      BY <3>5 DEF Position
    <3> QED
      BY <1>5, <2>1, <2>3, <3>4, <3>6 DEF LoadItem
  <2> QED
    BY <2>2, <2>3
<1>6. CASE LoadListCounted
  <2>1. AfterList
    BY <1>6 DEF LoadListCounted
  <2> QED
    BY <1>6, <2>1, AfterListTypes DEF LoadListCounted, open_vars, messages, board
<1> QED
  BY <1>1, <1>2, <1>3, <1>4, <1>5, <1>6 DEF Load

LEMMA TypeOfSave ==
  ASSUME TypeOK, Held, Save
  PROVE  TypeOK'
<1> USE DEF TypeOK
<1>1. CASE SaveStart
  BY <1>1 DEF SaveStart, Begin, page, board, Position, History
<1>2. CASE SaveSuspend
  <2>1. [pos EXCEPT !.step = "SET_CONFIG"] \in Position
    BY DEF Position
  <2>2. [past EXCEPT !.hurried = @ \/ fw.resume_pending] \in History
    BY DEF History, Firmware
  <2> QED
    BY <1>2, <2>1, <2>2, SuspendStops
    DEF SaveSuspend, SendAndGo, Send, open_vars, page, messages
<1>3. CASE SaveScalars
  <2>1. SetConfig(config.scalars) \in Firmware
    BY SetConfigWrites, ConfigParts
  <2>2. 0 \in 0..Len(Sections) /\ << >> \in Seq(Items)
    BY SectionsAssumption
  <2>3. [pos EXCEPT !.step = "LISTS", !.sec = 0, !.idx = 0,
                    !.iterated = << >>, !.live = FALSE] \in Position
    BY <2>2 DEF Position
  <2> QED
    BY <1>3, <2>1, <2>3
    DEF SaveScalars, SendAndGo, Send, open_vars, page, messages, History
<1>4. CASE SaveClear
  <2> DEFINE n == Sections[pos.sec + 1]
  <2>1. pos.sec + 1 \in 1..Len(Sections)
    BY <1>4, PositionParts, SectionsAssumption DEF SaveClear
  <2>2. n \in SectionNames
    BY <2>1, SectionNamed
  <2> HIDE DEF n
  <2>3. ClearList(n) \in Firmware
    BY <2>2, ListWrites
  <2>4. config.lists[n] \in Seq(Items)
    BY <2>2, ConfigParts
  <2>5. pos.sec + 1 \in 0..Len(Sections)
    BY <2>1
  <2>6. [pos EXCEPT !.sec = @ + 1, !.idx = 0, !.iterated = config.lists[n], !.live = TRUE]
          \in Position
    BY <2>4, <2>5 DEF Position
  <2> QED
    BY <1>4, <2>3, <2>6
    DEF SaveClear, SendAndGo, Send, open_vars, page, messages, ghosts, n
<1>5. CASE SaveItem
  <2>1. pos.idx < Len(pos.iterated)
    BY <1>5, PositionParts DEF SaveItem, ListSent
  <2>2. pos.iterated[pos.idx + 1] \in Items
    BY <2>1, PositionParts
  <2>3. pos.sec \in 1..Len(Sections)
    BY <1>5, <2>1, PositionParts, SectionsAssumption DEF SaveItem, Held
  <2>4. Sections[pos.sec] \in SectionNames
    BY <2>3, SectionNamed
  <2>5. AddToList(Sections[pos.sec], pos.iterated[pos.idx + 1]) \in Firmware
    BY <2>2, <2>4, ListWrites
  <2>6. pos.idx + 1 \in Nat
    BY PositionParts
  <2>7. [pos EXCEPT !.idx = @ + 1] \in Position
    BY <2>6 DEF Position
  <2> QED
    BY <1>5, <2>5, <2>7
    DEF SaveItem, SendAndGo, Send, open_vars, page, messages, ghosts
<1>6. CASE SavePersist
  BY <1>6, PersistAsks
  DEF SavePersist, SendAndGo, Send, open_vars, page, messages, Position
<1>7. CASE SaveRead
  <2>1. fw.return_code \in ReturnCodes
    BY DEF Firmware
  <2>2. [Fresh EXCEPT !.step = "RESUME", !.code = fw.return_code] \in Position
    BY <2>1, FreshIsPosition DEF Position
  <2> QED
    BY <1>7, <2>2, SilentKeeps DEF SaveRead, Read, Answered, open_vars, page, messages, ghosts
<1>8. CASE SaveResume
  BY <1>8, ResumeGoesOn, IdleIsPosition
  DEF SaveResume, Send, Done, open_vars, page, History
<1>9. CASE CheckmarkFades
  BY <1>9 DEF CheckmarkFades, open_vars, page, board, ghosts
<1> QED
  BY <1>1, <1>2, <1>3, <1>4, <1>5, <1>6, <1>7, <1>8, <1>9 DEF Save

LEMMA TypeOfUser ==
  ASSUME TypeOK, User
  PROVE  TypeOK'
<1> USE DEF TypeOK
<1>1. CASE MonitorTab
  <2>1. Understood(SetMonitorEnabled(~monitor_enabled)) \in Firmware
    BY MonitorKeeps, HeardKeeps DEF Understood, Questions
  <2> QED
    BY <1>1, <2>1 DEF MonitorTab, Send, board, open_vars, messages, ghosts
<1>2. CASE OtherCommand
  <2>1. Understood(Silent) \in Firmware
    BY SilentKeeps, HeardKeeps DEF Understood, Questions
  <2> QED
    BY <1>2, <2>1 DEF OtherCommand, Send, open_vars, page, messages, ghosts
<1>3. CASE Reload
  BY <1>3, IdleIsPosition, ConfigsAssumption DEF Reload, Done, board, History
<1>4. ASSUME NEW c \in Files, Replace(c)
      PROVE  TypeOK'
  BY <1>4, ConfigsAssumption
  DEF Replace, Touched, open_vars, messages, board, History, Position
<1>5. ASSUME NEW x \in NewRows, AddRow(x)
      PROVE  TypeOK'
  <2> DEFINE n == Sections[1]
  <2>1. x \in Items /\ n \in SectionNames
    BY ConfigsAssumption, SectionsAssumption, SectionNamed
  <2>2. ASSUME NEW c \in Config
        PROVE  [c EXCEPT !.lists[n] = Append(@, x)] \in Config
    <3>1. Append(c.lists[n], x) \in Seq(Items)
      BY <2>1, ConfigParts
    <3> QED
      BY <2>1, <3>1, ConfigParts
  <2>3. config' \in Config /\ shown' \in Config
    BY <1>5, <2>2 DEF AddRow
  <2>4. pos' \in Position
    <3>1. Append(pos.iterated, x) \in Seq(Items)
      BY <2>1, PositionParts
    <3>2. [pos EXCEPT !.iterated = Append(@, x)] \in Position
      BY <3>1 DEF Position
    <3> QED
      BY <1>5, <3>2 DEF AddRow
  <2>5. past' \in History
    BY <1>5 DEF AddRow, Touched, History
  <2> QED
    BY <1>5, <2>3, <2>4, <2>5 DEF AddRow, open_vars, messages, board
<1>6. ASSUME NEW v \in NewScalars, SetScalar(v)
      PROVE  TypeOK'
  <2>1. \A c \in Config : [c EXCEPT !.scalars = v] \in Config
    BY ConfigsAssumption, ConfigParts
  <2>2. past' \in History
    BY <1>6 DEF SetScalar, Touched, History
  <2> QED
    BY <1>6, <2>1, <2>2 DEF SetScalar, open_vars, messages, board
<1> QED
  BY <1>1, <1>2, <1>3, <1>4, <1>5, <1>6 DEF User

\* A turn of the main loop does with the firmware's state what is pending.
LEMMA TurnOfMainLoop ==
  ASSUME fw \in Firmware, writing \in BOOLEAN, MainLoop
  PROVE  /\ powered /\ ~writing
         /\ fw' \in Firmware /\ fw'.memory = fw.memory
         /\ fw'.suspended = (fw.suspended /\ ~fw.resume_pending)
         /\ ~fw'.resume_pending
         /\ fw'.last = fw.last /\ fw'.asked = fw.asked
         /\ UNCHANGED <<device, task, pos, config, shown, powered, firmware, past, promised>>
         /\ \/ /\ fw.need_to_persist /\ ~fw'.need_to_persist
               /\ fw'.return_code = "CONFIG_TOO_BIG"
               /\ UNCHANGED <<flash, writing>>
            \/ /\ fw.need_to_persist /\ fw'.need_to_persist
               /\ fw'.return_code = fw.return_code
               /\ writing' /\ flash' = Torn
            \/ /\ ~fw.need_to_persist /\ ~fw'.need_to_persist
               /\ fw'.return_code = fw.return_code
               /\ UNCHANGED <<flash, writing>>
<1> DEFINE turned == [fw EXCEPT !.suspended = @ /\ ~fw.resume_pending,
                                !.resume_pending = FALSE,
                                !.derived = @ \/ fw.config_updated,
                                !.config_updated = FALSE]
           refused == [turned EXCEPT !.need_to_persist = FALSE,
                                     !.return_code = "CONFIG_TOO_BIG"]
<1>1. /\ turned \in Firmware /\ turned.memory = fw.memory
      /\ turned.suspended = (fw.suspended /\ ~fw.resume_pending)
      /\ ~turned.resume_pending /\ turned.last = fw.last /\ turned.asked = fw.asked
      /\ turned.need_to_persist = fw.need_to_persist
      /\ turned.return_code = fw.return_code
  BY DEF Firmware
<1> HIDE DEF turned
<1>2. /\ refused \in Firmware /\ refused.memory = turned.memory
      /\ refused.suspended = turned.suspended
      /\ refused.resume_pending = turned.resume_pending
      /\ refused.last = turned.last /\ refused.asked = turned.asked
      /\ ~refused.need_to_persist /\ refused.return_code = "CONFIG_TOO_BIG"
  BY <1>1 DEF Firmware, ReturnCodes
<1> HIDE DEF refused
<1>3. /\ powered /\ ~writing
      /\ UNCHANGED <<device, task, pos, config, shown, powered, firmware, past, promised>>
  BY DEF MainLoop, open_vars, page, ghosts
<1>4. CASE fw.need_to_persist /\ TooBig(fw.memory)
  <2>1. fw' = refused /\ UNCHANGED <<flash, writing>>
    BY <1>4 DEF MainLoop, Persisting, turned, refused
  <2> QED
    BY <1>1, <1>2, <1>3, <1>4, <2>1
<1>5. CASE ~(fw.need_to_persist /\ TooBig(fw.memory))
  <2>1. /\ fw' = turned /\ writing' = fw.need_to_persist
        /\ flash' = IF fw.need_to_persist THEN Torn ELSE flash
    BY <1>5 DEF MainLoop, Persisting, turned
  <2>2. fw.need_to_persist \in BOOLEAN
    BY DEF Firmware
  <2> QED
    BY <1>1, <1>3, <2>1, <2>2
<1> QED
  BY <1>4, <1>5

LEMMA TypeOfBoard ==
  ASSUME TypeOK, Board
  PROVE  TypeOK'
<1> USE DEF TypeOK
<1>1. CASE MainLoop
  BY <1>1, TurnOfMainLoop DEF MainLoop, open_vars, page, messages, ghosts
<1>2. CASE FinishWrite
  BY <1>2 DEF FinishWrite, Firmware, ReturnCodes, open_vars, page, messages, ghosts
<1>3. CASE PowerOff
  BY <1>3, BootIsClean DEF PowerOff, page, messages, History
<1>4. CASE PowerOn
  BY <1>4, BootIsClean DEF PowerOn, open_vars, page, messages, ghosts
<1> QED
  BY <1>1, <1>2, <1>3, <1>4 DEF Board

LEMMA TypeOfNext ==
  ASSUME TypeOK, Held, AsksSection, [Next]_vars
  PROVE  TypeOK'
<1> USE DEF TypeOK
<1>1. CASE Open
  BY <1>1, TypeOfOpen
<1>2. CASE Load
  BY <1>2, TypeOfLoad
<1>3. CASE Save
  BY <1>3, TypeOfSave
<1>4. CASE Retry
  <2>1. pos.attempts_left - 1 \in 1..MaxAttempts
    BY <1>4, PositionParts, BoundsAssumption DEF Retry
  <2>2. pos' \in Position
    BY <1>4, <2>1 DEF Retry, Fewer, Position
  <2> QED
    BY <1>4, <2>2 DEF Retry, open_vars, page, messages, board, ghosts
<1>5. CASE Throw
  BY <1>5, IdleIsPosition DEF Throw, Done, page, board, History
<1>6. CASE User
  BY <1>6, TypeOfUser
<1>7. CASE Board
  BY <1>7, TypeOfBoard
<1>8. CASE UNCHANGED vars
  BY <1>8 DEF vars, open_vars, page, messages, board, ghosts
<1> QED
  BY <1>1, <1>2, <1>3, <1>4, <1>5, <1>6, <1>7, <1>8 DEF Next
-----------------------------------------------------------------------------
(* Where handlers stand.                                                   *)

LEMMA HeldOfTool ==
  ASSUME TypeOK, Held, Open \/ Load \/ Save \/ Retry \/ Throw
  PROVE  Held'
<1> USE DEF TypeOK, Held, At, SendAndGo, Send, Read
<1>1. pos \in Position
  OBVIOUS
<1>2. Fresh \in Position /\ Fresh.sec = pos.sec /\ Fresh.iterated = pos.iterated
  BY FreshIsPosition
<1>3. CASE OpenDevice \/ OpenCancelled \/ LoadStart \/ SaveStart
  BY <1>1, <1>3
  DEF OpenDevice, OpenCancelled, LoadStart, SaveStart, Begin, board, Position
<1>4. CASE VersionSend \/ OpenMonitor \/ UsagesSend
  BY <1>1, <1>4 DEF VersionSend, OpenMonitor, UsagesSend, open_vars, Position
<1>5. CASE VersionRead
  BY <1>2, <1>5 DEF VersionRead, Done, Reject, open_vars, Position
<1>6. CASE UsagesRead
  BY <1>2, <1>6 DEF UsagesRead, Done, Position
<1>7. CASE LoadSend \/ LoadAsk
  BY <1>1, <1>7 DEF LoadSend, LoadAsk, open_vars, Position
<1>8. CASE LoadConfig
  <2>1. pos'.step = "LISTS" /\ pos'.sec = 1
    BY <1>2, <1>8 DEF LoadConfig, Position
  <2>2. UNCHANGED <<device, task, powered>> /\ task = "load"
    BY <1>8 DEF LoadConfig, open_vars
  <2> QED
    BY <2>1, <2>2
<1>9. CASE AfterList /\ task = "load" /\ UNCHANGED <<device, powered>>
  <2>1. CASE pos.sec < Len(Sections)
    <3>1. pos.sec + 1 >= 1
      BY PositionParts, SectionsAssumption
    <3>2. pos'.step = "LISTS" /\ pos'.sec = pos.sec + 1 /\ UNCHANGED task
      BY <1>2, <1>9, <2>1 DEF AfterList, Position
    <3> QED
      BY <1>9, <3>1, <3>2
  <2>2. CASE ~(pos.sec < Len(Sections))
    BY <1>9, <2>2 DEF AfterList, Done
  <2> QED
    BY <2>1, <2>2
<1>10. CASE LoadItem
  <2>1. CASE Item = << >>
    BY <1>9, <1>10, <2>1 DEF LoadItem, open_vars
  <2>2. CASE Item # << >>
    BY <1>2, <1>10, <2>2 DEF LoadItem, open_vars, Position
  <2> QED
    BY <2>1, <2>2
<1>11. CASE LoadListCounted
  BY <1>9, <1>11 DEF LoadListCounted, CountReached, open_vars, board
<1>12. CASE SaveSuspend \/ SaveScalars \/ SavePersist
  BY <1>1, <1>12 DEF SaveSuspend, SaveScalars, SavePersist, ListSent, open_vars, Position
<1>13. CASE SaveClear
  <2>1. pos'.step = "LISTS" /\ pos'.sec = pos.sec + 1 /\ task = "save"
    BY <1>1, <1>13 DEF SaveClear, ListSent, Position
  <2>2. UNCHANGED <<device, task, powered>>
    BY <1>13 DEF SaveClear, open_vars
  <2>3. pos.sec + 1 # 0
    BY PositionParts, SectionsAssumption
  <2> QED
    BY <2>1, <2>2, <2>3
<1>14. CASE SaveItem
  BY <1>1, <1>14 DEF SaveItem, open_vars, Position
<1>15. CASE SaveRead
  BY <1>2, <1>15 DEF SaveRead, open_vars, Position
<1>16. CASE SaveResume \/ Throw
  BY <1>16 DEF SaveResume, Throw, Done, open_vars, board
<1>17. CASE CheckmarkFades
  BY <1>17 DEF CheckmarkFades, open_vars, board
<1>18. CASE Retry
  BY <1>1, <1>18 DEF Retry, open_vars, board, Position
<1> QED
  BY <1>3, <1>4, <1>5, <1>6, <1>7, <1>8, <1>10, <1>11, <1>12, <1>13, <1>14, <1>15,
     <1>16, <1>17, <1>18 DEF Open, Load, Save

LEMMA HeldOfNext ==
  ASSUME TypeOK, Held, [Next]_vars
  PROVE  Held'
<1> USE DEF TypeOK, Held, At
<1>1. CASE Open \/ Load \/ Save \/ Retry \/ Throw
  BY <1>1, HeldOfTool
<1>2. CASE MonitorTab \/ OtherCommand
  <2>1. UNCHANGED <<device, powered, task, pos>>
    BY <1>2 DEF MonitorTab, OtherCommand, Send, open_vars, board
  <2> QED
    BY <2>1
<1>3. CASE Reload
  BY <1>3 DEF Reload, Done, board
<1>4. ASSUME NEW c \in Files, Replace(c)
      PROVE  Held'
  BY <1>4 DEF Replace, open_vars, board, Position
<1>5. ASSUME NEW x \in NewRows, AddRow(x)
      PROVE  Held'
  <2>1. /\ pos'.step = pos.step /\ pos'.sec = pos.sec
        /\ pos'.iterated = pos.iterated \/ pos.sec = 1
    BY <1>5 DEF AddRow, Position
  <2>2. UNCHANGED <<device, task, powered>>
    BY <1>5 DEF AddRow, open_vars, board
  <2> QED
    BY <2>1, <2>2
<1>6. ASSUME NEW v \in NewScalars, SetScalar(v)
      PROVE  Held'
  BY <1>6 DEF SetScalar, open_vars, board
<1>7. CASE Board
  BY <1>7 DEF Board, MainLoop, FinishWrite, PowerOff, PowerOn, open_vars
<1>8. CASE UNCHANGED vars
  BY <1>8 DEF vars, open_vars, board
<1> QED
  BY <1>1, <1>2, <1>3, <1>4, <1>5, <1>6, <1>7, <1>8 DEF Next, User
-----------------------------------------------------------------------------
(* What steps do to the device: most do nothing to it, or give it a        *)
(* command that leaves its memory alone.                                   *)

Edit == \/ \E c \in Files : Replace(c)
        \/ \E x \in NewRows : AddRow(x)
        \/ \E v \in NewScalars : SetScalar(v)

Begins == OpenDevice \/ LoadStart \/ SaveStart
Ends == OpenCancelled \/ Throw \/ Reload
Asks == VersionSend \/ OpenMonitor \/ UsagesSend \/ LoadSend \/ LoadAsk
Answers == VersionRead \/ UsagesRead \/ LoadConfig \/ LoadItem \/ SaveRead
Puts == SaveScalars \/ SaveClear \/ SaveItem

LEMMA StepKinds ==
  ASSUME Next
  PROVE  \/ Edit \/ Begins \/ Ends \/ Retry \/ CheckmarkFades \/ LoadListCounted
         \/ Asks \/ Answers \/ MonitorTab \/ OtherCommand
         \/ SaveSuspend \/ Puts \/ SavePersist \/ SaveResume
         \/ MainLoop \/ FinishWrite \/ PowerOff \/ PowerOn
BY DEF Next, Open, Load, Save, User, Board, Edit, Begins, Ends, Asks, Answers, Puts

\* What stays when the device hears nothing, or nothing that matters.
SameBoard == /\ powered' = powered /\ firmware' = firmware /\ flash' = flash
             /\ writing' = writing /\ fw' = fw
SamePlace == /\ task' = task /\ pos'.step = pos.step /\ pos'.trying = pos.trying
             /\ pos'.sec = pos.sec /\ pos'.idx = pos.idx /\ pos'.count = pos.count
             /\ pos'.code = pos.code
SameHistory == /\ past'.whole = past.whole /\ past'.hurried = past.hurried
               /\ promised' = promised

LEMMA EditSteps ==
  ASSUME TypeOK, Edit
  PROVE  /\ SameBoard /\ SamePlace /\ SameHistory /\ device' = device
         /\ past'.touched = Touched
<1>1. pos \in Position /\ past \in History
  BY DEF TypeOK
<1>2. ASSUME NEW c \in Files, Replace(c)
      PROVE  /\ SameBoard /\ SamePlace /\ SameHistory /\ device' = device
             /\ past'.touched = Touched
  BY <1>1, <1>2
  DEF Replace, SameBoard, SamePlace, SameHistory, board, open_vars, Position, History
<1>3. ASSUME NEW x \in NewRows, AddRow(x)
      PROVE  /\ SameBoard /\ SamePlace /\ SameHistory /\ device' = device
             /\ past'.touched = Touched
  BY <1>1, <1>3
  DEF AddRow, SameBoard, SamePlace, SameHistory, board, open_vars, Position, History
<1>4. ASSUME NEW v \in NewScalars, SetScalar(v)
      PROVE  /\ SameBoard /\ SamePlace /\ SameHistory /\ device' = device
             /\ past'.touched = Touched
  BY <1>1, <1>4
  DEF SetScalar, SameBoard, SamePlace, SameHistory, board, open_vars, History
<1> QED
  BY <1>2, <1>3, <1>4 DEF Edit

LEMMA RetrySteps ==
  ASSUME TypeOK, Retry \/ CheckmarkFades
  PROVE  /\ SameBoard /\ SamePlace /\ SameHistory /\ device' = device
         /\ UNCHANGED <<past, config, shown>> /\ pos'.iterated = pos.iterated
BY DEF TypeOK, Retry, CheckmarkFades, SameBoard, SamePlace, SameHistory, board, ghosts,
       open_vars, page, Position

LEMMA BeginSteps ==
  ASSUME TypeOK, Begins
  PROVE  /\ SameBoard /\ SameHistory /\ task = "none"
         /\ UNCHANGED <<config, shown>> /\ past'.half = past.half
         /\ \/ powered /\ task' = "open" /\ pos'.step = "VERSION_SEND"
            \/ device /\ device' /\ task' = "load" /\ pos'.step = "GET_CONFIG"
            \/ device /\ device' /\ task' = "save" /\ pos'.step = "SUSPEND"
<1>1. pos \in Position /\ past \in History
  BY DEF TypeOK
<1>2. CASE OpenDevice
  BY <1>1, <1>2 DEF OpenDevice, Begin, SameBoard, SameHistory, board, page, Position, History
<1>3. CASE LoadStart
  BY <1>1, <1>3 DEF LoadStart, Begin, SameBoard, SameHistory, board, page, Position, History
<1>4. CASE SaveStart
  BY <1>1, <1>4 DEF SaveStart, Begin, SameBoard, SameHistory, board, page, Position, History
<1> QED
  BY <1>2, <1>3, <1>4 DEF Begins

LEMMA EndSteps ==
  ASSUME TypeOK, Ends
  PROVE  /\ SameBoard /\ SameHistory /\ task' = "none"
         /\ device' => device /\ task # "none" /\ NoAnswer
<1>1. past \in History
  BY DEF TypeOK
<1>2. CASE OpenCancelled
  BY <1>2 DEF OpenCancelled, SameBoard, SameHistory, board, ghosts
<1>3. CASE Throw
  BY <1>1, <1>3 DEF Throw, Done, SameBoard, SameHistory, board, History
<1>4. CASE Reload
  BY <1>1, <1>4 DEF Reload, Done, SameBoard, SameHistory, board, History
<1> QED
  BY <1>2, <1>3, <1>4 DEF Ends

\* The device takes a command that does not matter to frames, memory and flash.
Harmless == /\ device /\ powered /\ ~writing
            /\ powered' = powered /\ firmware' = firmware
            /\ flash' = flash /\ writing' = writing
            /\ fw' \in Firmware /\ Kept(fw') /\ AsksSection'

LEMMA FirstSection == 1 \in 1..Len(Sections)
BY SectionsAssumption

LEMMA AskSteps ==
  ASSUME TypeOK, Held, Asks
  PROVE  /\ Harmless /\ SameHistory
         /\ UNCHANGED <<device, task, config, shown, past>>
         /\ pos'.sec = pos.sec /\ pos'.count = pos.count
<1>1. pos \in Position /\ fw \in Firmware
  BY DEF TypeOK
<1> USE DEF SendAndGo, Send, Harmless, SameHistory, open_vars, page, ghosts
<1>2. CASE VersionSend
  <2>1. fw' = Heard("GET_CONFIG") \/ fw' = Heard("INVALID_COMMAND")
    BY <1>2 DEF VersionSend
  <2>2. fw' \in Firmware /\ Kept(fw') /\ AsksSection'
    BY <1>1, <2>1, HeardKeeps, FirstSection DEF Questions, AsksSection
  <2> QED
    BY <1>1, <1>2, <2>2 DEF VersionSend, Position
<1>3. CASE OpenMonitor
  <2>1. monitor_enabled \in BOOLEAN
    BY DEF TypeOK
  <2>2. fw' \in Firmware /\ Kept(fw') /\ AsksSection'
    BY <1>1, <1>3, <2>1, MonitorKeeps, FirstSection DEF OpenMonitor, AsksSection
  <2> QED
    BY <1>1, <1>3, <2>2 DEF OpenMonitor, Position
<1>4. CASE UsagesSend
  <2>1. fw' = Heard("GET_CONFIG") \/ fw' = Heard("GET_USAGES")
    BY <1>4 DEF UsagesSend
  <2>2. fw' \in Firmware /\ Kept(fw') /\ AsksSection'
    BY <1>1, <2>1, HeardKeeps, FirstSection DEF Questions, AsksSection
  <2> QED
    BY <1>1, <1>4, <2>2 DEF UsagesSend, Position
<1>5. CASE LoadSend
  <2>1. fw' \in Firmware /\ Kept(fw') /\ AsksSection'
    BY <1>1, <1>5, HeardKeeps, FirstSection DEF LoadSend, Questions, AsksSection
  <2> QED
    BY <1>1, <1>5, <2>1 DEF LoadSend, Position
<1>6. CASE LoadAsk
  <2>1. pos.sec \in 1..Len(Sections) /\ pos.idx \in Nat
    BY <1>1, <1>6, PositionParts, SectionsAssumption DEF LoadAsk, At, Held
  <2>2. fw' \in Firmware /\ Kept(fw') /\ AsksSection'
    BY <1>1, <1>6, <2>1, GetKeeps DEF LoadAsk, AsksSection
  <2> QED
    BY <1>1, <1>6, <2>1, <2>2 DEF LoadAsk, Position
<1> QED
  BY <1>2, <1>3, <1>4, <1>5, <1>6 DEF Asks

LEMMA AnswerSteps ==
  ASSUME TypeOK, Answers
  PROVE  /\ Harmless /\ HasAnswer /\ SameHistory /\ past'.touched = past.touched
         /\ fw'.last = "NO_ANSWER"
<1>1. Read
  BY DEF Answers, VersionRead, UsagesRead, LoadConfig, LoadItem, SaveRead
<1>2. fw' = Silent /\ fw \in Firmware
  BY <1>1 DEF Read, Answered, TypeOK
<1>3. Harmless /\ HasAnswer /\ fw'.last = "NO_ANSWER"
  BY <1>1, <1>2, SilentKeeps, FirstSection DEF Read, Harmless, AsksSection
<1>4. past \in History
  BY DEF TypeOK
<1>5. SameHistory /\ past'.touched = past.touched
  <2>1. CASE VersionRead \/ UsagesRead \/ LoadConfig \/ SaveRead
    BY <2>1 DEF VersionRead, UsagesRead, LoadConfig, SaveRead, SameHistory, ghosts
  <2>2. CASE LoadItem
    <3>1. promised' = promised /\ (past' = past \/ past' = [past EXCEPT !.half = FALSE])
      BY <2>2 DEF LoadItem, AfterList
    <3> QED
      BY <1>4, <3>1 DEF SameHistory, History
  <2> QED
    BY <2>1, <2>2 DEF Answers
<1> QED
  BY <1>3, <1>5

LEMMA MonitorSteps ==
  ASSUME TypeOK, MonitorTab \/ OtherCommand
  PROVE  /\ SameHistory /\ UNCHANGED <<device, task, pos, config, shown, past>>
         /\ \/ SameBoard
            \/ Harmless /\ fw'.last = IF firmware = "current" THEN "NO_ANSWER"
                                                            ELSE "INVALID_COMMAND"
<1>1. fw \in Firmware /\ (~monitor_enabled) \in BOOLEAN
  BY DEF TypeOK
<1>2. SameHistory /\ UNCHANGED <<device, task, pos, config, shown, past>>
  BY DEF MonitorTab, OtherCommand, SameHistory, open_vars, page, ghosts
<1>3. ASSUME NEW f \in {Silent, SetMonitorEnabled(~monitor_enabled)}, Send(Understood(f))
      PROVE  Harmless /\ fw'.last = IF firmware = "current" THEN "NO_ANSWER"
                                                             ELSE "INVALID_COMMAND"
  <2>1. device /\ powered /\ ~writing /\ UNCHANGED <<powered, firmware, flash, writing>>
    BY <1>3 DEF Send
  <2>2. CASE firmware = "current"
    <3>1. fw' = f
      BY <1>3, <2>2 DEF Send, Understood
    <3>2. fw' \in Firmware /\ Kept(fw') /\ fw'.asked = <<1, 0>> /\ fw'.last = "NO_ANSWER"
      BY <1>1, <1>3, <3>1, SilentKeeps, MonitorKeeps
    <3> QED
      BY <2>1, <2>2, <3>2, FirstSection DEF Harmless, AsksSection
  <2>3. CASE firmware # "current"
    <3>1. fw' = Heard("INVALID_COMMAND")
      BY <1>3, <2>3 DEF Send, Understood
    <3>2. fw' \in Firmware /\ Kept(fw') /\ fw'.asked = <<1, 0>>
          /\ fw'.last = "INVALID_COMMAND"
      BY <1>1, <3>1, HeardKeeps DEF Questions
    <3> QED
      BY <2>1, <2>3, <3>2, FirstSection DEF Harmless, AsksSection
  <2> QED
    BY <2>2, <2>3
<1>4. CASE MonitorTab
  <2> DEFINE f == SetMonitorEnabled(~monitor_enabled)
  <2>1. CASE device
    <3>1. Send(Understood(f))
      BY <1>4, <2>1 DEF MonitorTab, TellMonitor
    <3> QED
      BY <1>2, <1>3, <3>1
  <2>2. CASE ~device
    BY <1>2, <1>4, <2>2 DEF MonitorTab, TellMonitor, SameBoard, board
  <2> QED
    BY <2>1, <2>2
<1>5. CASE OtherCommand
  <2>1. Send(Understood(Silent))
    BY <1>5 DEF OtherCommand
  <2> QED
    BY <1>2, <1>3, <2>1
<1> QED
  BY <1>4, <1>5

\* A command of a save, while the device is not busy with its flash.
Taken == /\ device /\ powered /\ ~writing /\ task = "save"
         /\ UNCHANGED <<device, powered, firmware, flash, writing, config, shown>>
         /\ fw' \in Firmware /\ AsksSection' /\ fw'.return_code = "UNKNOWN"

LEMMA SuspendStep ==
  ASSUME TypeOK, SaveSuspend
  PROVE  /\ Taken /\ task' = task /\ promised' = promised
         /\ past'.whole = past.whole /\ past'.touched = past.touched
         /\ past'.hurried = (past.hurried \/ fw.resume_pending)
         /\ past'.half = past.half /\ pos'.step = "SET_CONFIG"
         /\ fw'.suspended /\ fw'.resume_pending = fw.resume_pending
         /\ fw'.need_to_persist = fw.need_to_persist /\ fw'.memory = fw.memory
<1>1. fw \in Firmware /\ pos \in Position /\ past \in History
  BY DEF TypeOK
<1>2. fw' = Suspend
  BY DEF SaveSuspend, SendAndGo, Send
<1>3. AsksSection'
  BY <1>1, <1>2, SuspendStops, FirstSection DEF AsksSection
<1>4. Taken
  BY <1>1, <1>2, <1>3, SuspendStops
  DEF SaveSuspend, SendAndGo, Send, Taken, At, open_vars, page
<1>5. /\ task' = task /\ promised' = promised /\ pos'.step = "SET_CONFIG"
      /\ past'.whole = past.whole /\ past'.touched = past.touched
      /\ past'.hurried = (past.hurried \/ fw.resume_pending) /\ past'.half = past.half
  BY <1>1 DEF SaveSuspend, SendAndGo, Position, History
<1> QED
  BY <1>1, <1>2, <1>4, <1>5, SuspendStops

LEMMA PutSteps ==
  ASSUME TypeOK, Held, Puts
  PROVE  /\ Taken /\ task' = task /\ promised' = promised
         /\ past'.whole = past.whole \/ (pos.step = "SET_CONFIG" /\ ~past'.whole)
         /\ past'.hurried = past.hurried /\ past'.touched = past.touched
         /\ past'.half = past.half
         /\ pos.step \in {"SET_CONFIG", "LISTS"} /\ pos'.step = "LISTS"
         /\ WritesTo(fw')
<1>1. fw \in Firmware /\ pos \in Position /\ past \in History
  BY DEF TypeOK
<1> USE DEF SendAndGo, Send, At, open_vars, page, ghosts
<1>2. CASE SaveScalars
  <2>1. fw' \in Firmware /\ WritesTo(fw')
    BY <1>1, <1>2, SetConfigWrites, ConfigParts DEF SaveScalars, TypeOK
  <2>2. Taken
    BY <1>2, <2>1, FirstSection DEF SaveScalars, Taken, AsksSection, WritesTo
  <2> QED
    BY <1>1, <1>2, <2>1, <2>2 DEF SaveScalars, Position, History
<1>3. CASE SaveClear
  <2>1. Sections[pos.sec + 1] \in SectionNames
    BY <1>1, <1>3, PositionParts, SectionsAssumption, SectionNamed DEF SaveClear
  <2>2. fw' = ClearList(Sections[pos.sec + 1])
    BY <1>3 DEF SaveClear
  <2>3. fw' \in Firmware /\ WritesTo(fw')
    BY <1>1, <2>1, <2>2, ListWrites
  <2>4. Taken
    BY <1>3, <2>3, FirstSection DEF SaveClear, ListSent, Taken, AsksSection, WritesTo
  <2> QED
    BY <1>1, <1>3, <2>3, <2>4 DEF SaveClear, ListSent, Position
<1>4. CASE SaveItem
  <2>1. pos.idx < Len(pos.iterated) /\ pos.idx \in Nat /\ pos.iterated \in Seq(Items)
    BY <1>1, <1>4, PositionParts DEF SaveItem, ListSent
  <2>2. pos.iterated[pos.idx + 1] \in Items
    BY <2>1
  <2>3. pos.sec \in 1..Len(Sections)
    BY <1>1, <1>4, <2>1, PositionParts, SectionsAssumption DEF SaveItem, Held
  <2>4. Sections[pos.sec] \in SectionNames
    BY <2>3, SectionNamed
  <2>5. fw' = AddToList(Sections[pos.sec], pos.iterated[pos.idx + 1])
    BY <1>4 DEF SaveItem
  <2>6. fw' \in Firmware /\ WritesTo(fw')
    BY <1>1, <2>2, <2>4, <2>5, ListWrites
  <2>7. Taken
    BY <1>4, <2>6, FirstSection DEF SaveItem, Taken, AsksSection, WritesTo
  <2> QED
    BY <1>1, <1>4, <2>6, <2>7 DEF SaveItem, Position
<1> QED
  BY <1>2, <1>3, <1>4 DEF Puts

LEMMA PersistStep ==
  ASSUME TypeOK, SavePersist
  PROVE  /\ Taken /\ task' = task /\ promised' = None /\ past' = past
         /\ pos.step = "LISTS" /\ pos'.step = "PERSIST_READ"
         /\ fw'.suspended = fw.suspended /\ fw'.resume_pending = fw.resume_pending
         /\ fw'.last = "PERSIST_CONFIG" /\ fw'.memory = fw.memory
<1>1. fw \in Firmware /\ pos \in Position
  BY DEF TypeOK
<1>2. fw' = PersistConfig
  BY DEF SavePersist, SendAndGo, Send
<1>3. Taken
  BY <1>1, <1>2, PersistAsks, FirstSection
  DEF SavePersist, ListSent, SendAndGo, Send, Taken, At, AsksSection, open_vars, page
<1> QED
  BY <1>1, <1>2, <1>3, PersistAsks
  DEF SavePersist, ListSent, SendAndGo, At, Position

LEMMA ResumeStep ==
  ASSUME TypeOK, SaveResume
  PROVE  /\ Taken /\ pos.step = "RESUME" /\ task' = "none"
         /\ past'.whole /\ ~past'.hurried /\ past'.half = past.half
         /\ promised' = promised \/ (/\ promised' = shown /\ pos.code = "SUCCESS"
                                     /\ ~past.touched /\ ~past.half)
         /\ fw'.need_to_persist = fw.need_to_persist /\ fw'.memory = fw.memory
<1>1. fw \in Firmware /\ past \in History
  BY DEF TypeOK
<1>2. fw' = Resume
  BY DEF SaveResume, Send
<1>3. Taken
  BY <1>1, <1>2, ResumeGoesOn, FirstSection
  DEF SaveResume, Send, Taken, At, AsksSection, open_vars, page
<1> QED
  BY <1>1, <1>2, <1>3, ResumeGoesOn DEF SaveResume, At, Done, Saved, History

LEMMA PowerSteps ==
  ASSUME TypeOK, Held, PowerOff \/ PowerOn
  PROVE  /\ ~device' /\ UNCHANGED <<task, pos, config, shown, flash, promised>>
         /\ past'.whole = TRUE \/ (past' = past /\ ~powered)
         /\ past'.half = past.half
         /\ fw' \in Firmware /\ AsksSection'
         /\ ~fw'.suspended /\ ~fw'.resume_pending /\ ~fw'.need_to_persist
         /\ fw'.return_code = "UNKNOWN" /\ fw'.last = "NO_ANSWER"
<1>1. past \in History /\ flash \in Config \cup {Torn} /\ fw' = Boot(flash)
  BY DEF TypeOK, PowerOff, PowerOn
<1>2. AsksSection'
  BY <1>1, BootIsClean, FirstSection DEF AsksSection
<1>3. /\ fw' \in Firmware /\ ~fw'.suspended /\ ~fw'.resume_pending /\ ~fw'.need_to_persist
      /\ fw'.return_code = "UNKNOWN" /\ fw'.last = "NO_ANSWER"
  BY <1>1, BootIsClean
<1>4. CASE PowerOff
  BY <1>1, <1>2, <1>3, <1>4 DEF PowerOff, page, History
<1>5. CASE PowerOn
  BY <1>1, <1>2, <1>3, <1>5 DEF Held, PowerOn, open_vars, page, ghosts
<1> QED
  BY <1>4, <1>5

LEMMA FinishStep ==
  ASSUME TypeOK, FinishWrite
  PROVE  /\ writing /\ ~writing' /\ flash' = fw.memory
         /\ UNCHANGED <<device, task, pos, config, shown, powered, firmware, past, promised>>
         /\ fw' \in Firmware /\ fw'.memory = fw.memory
         /\ fw'.suspended = fw.suspended /\ fw'.resume_pending = fw.resume_pending
         /\ fw'.last = fw.last /\ fw'.asked = fw.asked
         /\ ~fw'.need_to_persist /\ fw'.return_code = "SUCCESS"
BY DEF TypeOK, FinishWrite, Firmware, ReturnCodes, open_vars, page, ghosts
-----------------------------------------------------------------------------
(* The parts of the invariant.                                             *)

LEMMA AsksSectionKept ==
  ASSUME TypeOK, Held, AsksSection, [Next]_vars
  PROVE  AsksSection'
<1>1. CASE SameBoard
  BY <1>1 DEF SameBoard, AsksSection
<1>2. CASE Harmless \/ Taken
  BY <1>2 DEF Harmless, Taken
<1>3. CASE MainLoop
  <2>1. fw'.asked = fw.asked
    BY <1>3, TurnOfMainLoop DEF TypeOK
  <2> QED
    BY <2>1 DEF AsksSection
<1>4. CASE FinishWrite
  BY <1>4, FinishStep DEF AsksSection
<1>5. CASE PowerOff \/ PowerOn
  BY <1>5, PowerSteps
<1>6. CASE LoadListCounted \/ UNCHANGED vars
  BY <1>1, <1>6 DEF LoadListCounted, vars, board, SameBoard
<1> QED
  BY <1>1, <1>2, <1>3, <1>4, <1>5, <1>6, StepKinds, EditSteps, RetrySteps, BeginSteps,
     EndSteps, AskSteps, AnswerSteps, MonitorSteps, SuspendStep, PutSteps, PersistStep,
     ResumeStep

\* Handlers that write stand where they stood, or have ended.
LEMMA WritingGoesOn ==
  ASSUME TypeOK, Held, Begins \/ Ends \/ Retry \/ CheckmarkFades \/ LoadListCounted \/ Edit
                       \/ Asks \/ Answers \/ MonitorTab \/ OtherCommand
  PROVE  Writing' /\ device' => Writing /\ device
<1>1. CASE Edit \/ Retry \/ CheckmarkFades
  BY <1>1, EditSteps, RetrySteps DEF SamePlace, Writing
<1>2. CASE Begins
  BY <1>2, BeginSteps DEF Writing
<1>3. CASE Ends
  BY <1>3, EndSteps DEF Writing
<1>4. CASE Asks
  <2>1. task # "save" /\ task' = task
    BY <1>4, AskSteps DEF Asks, VersionSend, OpenMonitor, UsagesSend, LoadSend, LoadAsk, At
  <2> QED
    BY <2>1 DEF Writing
<1>5. CASE AfterList /\ task = "load"
  BY <1>5 DEF AfterList, Done, Writing
<1>6. CASE LoadListCounted
  BY <1>5, <1>6 DEF LoadListCounted, CountReached, At
<1>7. CASE VersionRead \/ UsagesRead
  BY <1>7 DEF VersionRead, UsagesRead, At, Done, Writing
<1>8. CASE LoadConfig
  BY <1>8 DEF LoadConfig, At, Writing
<1>9. CASE LoadItem
  BY <1>5, <1>9 DEF LoadItem, At, Writing
<1>10. CASE SaveRead
  BY <1>10 DEF SaveRead, Read, At, Writing, open_vars
<1>11. CASE MonitorTab \/ OtherCommand
  BY <1>11, MonitorSteps DEF Writing
<1> QED
  BY <1>1, <1>2, <1>3, <1>4, <1>6, <1>7, <1>8, <1>9, <1>10, <1>11 DEF Answers

LEMMA FramesStopKept ==
  ASSUME TypeOK, Held, FramesStop, [Next]_vars
  PROVE  FramesStop'
<1> USE DEF FramesStop, Stopped
<1>1. ASSUME SameHistory, Writing' /\ device' => Writing /\ device,
             SameBoard \/ Harmless
      PROVE  FramesStop'
  <2>1. /\ powered' = powered /\ fw'.suspended = fw.suspended
        /\ fw'.resume_pending = fw.resume_pending
    BY <1>1 DEF SameBoard, Harmless, Kept
  <2> QED
    BY <1>1, <2>1 DEF SameHistory
<1>2. CASE Edit \/ Begins \/ Ends \/ Retry \/ CheckmarkFades
  BY <1>1, <1>2, WritingGoesOn, EditSteps, RetrySteps, BeginSteps, EndSteps
<1>3. CASE Asks \/ Answers \/ MonitorTab \/ OtherCommand
  BY <1>1, <1>3, WritingGoesOn, AskSteps, AnswerSteps, MonitorSteps
<1>4. CASE LoadListCounted
  <2>1. past' = past \/ past' = [past EXCEPT !.half = FALSE]
    BY <1>4 DEF LoadListCounted, AfterList
  <2>2. SameHistory /\ SameBoard
    BY <1>4, <2>1 DEF LoadListCounted, SameHistory, SameBoard, board, TypeOK, History
  <2> QED
    BY <1>1, <1>4, <2>2, WritingGoesOn
<1>5. CASE SaveSuspend
  BY <1>5, SuspendStep DEF Taken, TypeOK, History, Firmware
<1>6. CASE Puts
  BY <1>6, PutSteps DEF Taken, WritesTo, Writing
<1>7. CASE SavePersist
  BY <1>7, PersistStep DEF Taken, Writing
<1>8. CASE SaveResume
  BY <1>8, ResumeStep DEF Writing
<1>9. CASE MainLoop
  BY <1>9, TurnOfMainLoop DEF TypeOK, Writing
<1>10. CASE FinishWrite
  BY <1>10, FinishStep DEF Writing
<1>11. CASE PowerOff \/ PowerOn
  BY <1>11, PowerSteps DEF PowerOff, PowerOn
<1>12. CASE UNCHANGED vars
  BY <1>12 DEF vars, open_vars, board, ghosts, Writing
<1> QED
  BY <1>2, <1>3, <1>4, <1>5, <1>6, <1>7, <1>8, <1>9, <1>10, <1>11, <1>12, StepKinds

LEMMA VersionedKept ==
  ASSUME TypeOK, Held, Versioned, [Next]_vars
  PROVE  Versioned'
<1> USE DEF Versioned, At
<1>1. firmware' = firmware
  BY DEF Next, Open, Load, Save, User, Board, OpenDevice, OpenCancelled, VersionSend,
         VersionRead, OpenMonitor, UsagesSend, UsagesRead, LoadStart, LoadSend, LoadConfig,
         LoadAsk, LoadItem, LoadListCounted, SaveStart, SaveSuspend, SaveScalars, SaveClear,
         SaveItem, SavePersist, SaveRead, SaveResume, CheckmarkFades, Retry, Throw, MonitorTab,
         OtherCommand, Reload, Replace, AddRow, SetScalar, MainLoop, FinishWrite, PowerOff,
         PowerOn, Begin, SendAndGo, Send, Read, board, vars
<1>2. ASSUME device' = device, SamePlace, fw'.last = fw.last,
             HasAnswer => HasAnswer'
      PROVE  Versioned'
  BY <1>1, <1>2 DEF SamePlace
<1>3. CASE Edit \/ Retry \/ CheckmarkFades \/ UNCHANGED vars
  <2>1. device' = device /\ SamePlace /\ SameBoard
    BY <1>3, EditSteps, RetrySteps DEF vars, open_vars, board, SamePlace, SameBoard
  <2> QED
    BY <1>2, <2>1 DEF SameBoard, HasAnswer
<1>4. CASE Begins
  BY <1>1, <1>4, BeginSteps
<1>5. CASE Ends
  <2>1. CASE ~device'
    BY <2>1
  <2>2. CASE device' /\ task = "open" /\ pos.step = "VERSION_READ"
    BY <1>1, <1>5, <2>2, EndSteps DEF NoAnswer
  <2>3. CASE device' /\ task = "open" /\ pos.step # "VERSION_READ"
    BY <1>1, <1>5, <2>3, EndSteps DEF NoAnswer, Reading
  <2>4. CASE device' /\ task # "open"
    BY <1>1, <1>5, <2>4, EndSteps
  <2> QED
    BY <2>1, <2>2, <2>3, <2>4
<1>6. CASE VersionSend
  <2>1. pos \in Position /\ fw \in Firmware
    BY DEF TypeOK
  <2>2. task' = "open" /\ pos'.step = "VERSION_READ" /\ pos'.trying = pos.trying
    BY <1>6, <2>1 DEF VersionSend, SendAndGo, Position
  <2>3. CASE Versions[pos.trying] = firmware
    <3>1. fw' = Heard("GET_CONFIG")
      BY <1>6, <2>3 DEF VersionSend, SendAndGo, Send
    <3>2. fw'.last = "GET_CONFIG"
      BY <2>1, <3>1, HeardKeeps DEF Questions
    <3> QED
      BY <1>1, <2>2, <2>3, <3>2 DEF HasAnswer, Questions
  <2>4. CASE Versions[pos.trying] # firmware
    <3>1. fw' = Heard("INVALID_COMMAND")
      BY <1>6, <2>4 DEF VersionSend, SendAndGo, Send
    <3>2. fw'.last = "INVALID_COMMAND"
      BY <2>1, <3>1, HeardKeeps DEF Questions
    <3> QED
      BY <1>1, <2>2, <2>4, <3>2 DEF HasAnswer, Questions
  <2> QED
    BY <2>3, <2>4
<1>7. CASE VersionRead
  <2>1. Fresh \in Position
    BY FreshIsPosition DEF TypeOK
  <2>2. \/ ~device'
        \/ task' = "open" /\ pos'.step = "VERSION_SEND"
        \/ task' = "open" /\ pos'.step = "MONITOR" /\ fw.last = "GET_CONFIG" /\ device
           /\ Versions[pos.trying] = "current"
    BY <1>7, <2>1 DEF VersionRead, Read, Reject, Position
  <2> QED
    BY <1>1, <1>7, <2>2 DEF VersionRead
<1>8. CASE task = "open" /\ pos.step \notin {"VERSION_SEND", "VERSION_READ"} /\ device
           /\ (task' = "none" \/ (task' = "open" /\ pos'.step \in {"USAGES_SEND", "USAGES_READ"}))
  BY <1>1, <1>8
<1>9. CASE OpenMonitor \/ UsagesSend \/ UsagesRead
  <2>1. pos \in Position /\ Fresh \in Position
    BY FreshIsPosition DEF TypeOK
  <2>2. /\ device
        /\ \/ task' = "none"
           \/ task' = "open" /\ pos'.step \in {"USAGES_SEND", "USAGES_READ"}
    BY <1>9, <2>1
    DEF OpenMonitor, UsagesSend, UsagesRead, SendAndGo, Send, Read, Done, Position
  <2> QED
    BY <1>8, <1>9, <2>2 DEF OpenMonitor, UsagesSend, UsagesRead
<1>10. CASE (device' => device) /\ task # "open" /\ task' # "open"
  BY <1>1, <1>10
<1>11. CASE LoadSend \/ LoadAsk \/ LoadConfig \/ SaveRead
  BY <1>10, <1>11 DEF LoadSend, LoadAsk, LoadConfig, SaveRead, SendAndGo, open_vars
<1>12. CASE LoadItem \/ LoadListCounted
  <2>1. (device' => device) /\ task = "load"
    BY <1>12 DEF LoadItem, LoadListCounted, CountReached, open_vars
  <2>2. task' # "open"
    BY <1>12, <2>1 DEF LoadItem, LoadListCounted, AfterList, Done
  <2> QED
    BY <1>10, <2>1, <2>2
<1>13. CASE MonitorTab \/ OtherCommand
  <2>1. device' = device /\ SamePlace
    BY <1>13, MonitorSteps DEF SamePlace
  <2>2. CASE SameBoard
    BY <1>2, <2>1, <2>2 DEF SameBoard, HasAnswer
  <2>3. CASE fw'.last = IF firmware = "current" THEN "NO_ANSWER" ELSE "INVALID_COMMAND"
    BY <1>1, <2>1, <2>3 DEF SamePlace, HasAnswer, Questions
  <2> QED
    BY <1>13, <2>2, <2>3, MonitorSteps
<1>14. CASE SaveSuspend \/ Puts \/ SavePersist \/ SaveResume
  <2>1. device' = device /\ task = "save" /\ task' # "open"
    BY <1>14, SuspendStep, PutSteps, PersistStep, ResumeStep DEF Taken
  <2> QED
    BY <1>10, <2>1
<1>15. CASE MainLoop
  <2>1. /\ device' = device /\ SamePlace /\ fw'.last = fw.last
        /\ fw'.return_code = fw.return_code \/ fw'.return_code = "CONFIG_TOO_BIG"
    BY <1>15, TurnOfMainLoop DEF TypeOK, SamePlace
  <2> QED
    BY <1>2, <2>1 DEF HasAnswer
<1>16. CASE FinishWrite
  <2>1. device' = device /\ SamePlace /\ fw'.last = fw.last /\ fw'.return_code = "SUCCESS"
    BY <1>16, FinishStep DEF SamePlace
  <2> QED
    BY <1>2, <2>1 DEF HasAnswer
<1>17. CASE PowerOff \/ PowerOn
  BY <1>17, PowerSteps
<1> QED
  BY <1>3, <1>4, <1>5, <1>6, <1>7, <1>9, <1>11, <1>12, <1>13, <1>14, <1>15, <1>16, <1>17,
     StepKinds DEF Asks, Answers

LEMMA AsksRightKept ==
  ASSUME TypeOK, Held, Versioned, AsksRight, [Next]_vars
  PROVE  AsksRight'
<1> USE DEF AsksRight, At
<1>1. pos \in Position /\ fw \in Firmware
  BY DEF TypeOK
<1>2. ASSUME device' = device, SamePlace, fw'.last = fw.last, fw'.asked = fw.asked
      PROVE  AsksRight'
  BY <1>2 DEF SamePlace
<1>3. CASE task' \notin {"load", "save"} \/ pos'.step \notin {"ITEM_READ", "PERSIST_READ"}
           \/ ~device' \/ fw'.last = "NO_ANSWER"
  BY <1>3
<1>4. CASE Edit \/ Retry \/ CheckmarkFades \/ UNCHANGED vars
  <2>1. device' = device /\ SamePlace /\ SameBoard
    BY <1>4, EditSteps, RetrySteps DEF vars, open_vars, board, SamePlace, SameBoard
  <2> QED
    BY <1>2, <2>1 DEF SameBoard
<1>5. CASE Begins \/ Ends
  BY <1>3, <1>5, BeginSteps, EndSteps
<1>6. CASE VersionSend \/ OpenMonitor \/ UsagesSend
  <2>1. task' = "open"
    BY <1>6 DEF VersionSend, OpenMonitor, UsagesSend, SendAndGo
  <2> QED
    BY <1>3, <2>1
<1>7. CASE LoadSend
  <2>1. pos'.step = "CONFIG_READ"
    BY <1>1, <1>7 DEF LoadSend, SendAndGo, Position
  <2> QED
    BY <1>3, <2>1
<1>8. CASE LoadAsk
  <2>1. pos.sec \in Nat /\ pos.idx \in Nat
    BY <1>1, PositionParts, SectionsAssumption
  <2>2. fw' = Get(pos.sec, pos.idx)
    BY <1>8 DEF LoadAsk, SendAndGo, Send
  <2>3. fw'.last = "GET_ITEM" /\ fw'.asked = <<pos.sec, pos.idx>>
    BY <1>1, <2>1, <2>2, GetKeeps
  <2>4. task' = "load" /\ pos'.sec = pos.sec /\ pos'.idx = pos.idx
    BY <1>1, <1>8 DEF LoadAsk, SendAndGo, Position
  <2> QED
    BY <2>3, <2>4
<1>9. CASE Answers
  BY <1>3, <1>9, AnswerSteps
<1>10. CASE MonitorTab \/ OtherCommand
  <2>1. device' = device /\ SamePlace
    BY <1>10, MonitorSteps DEF SamePlace
  <2>2. CASE SameBoard
    BY <1>2, <2>1, <2>2 DEF SameBoard
  <2>3. CASE fw'.last = IF firmware = "current" THEN "NO_ANSWER" ELSE "INVALID_COMMAND"
    <3>1. CASE task = "open" \/ ~device
      BY <1>3, <2>1, <3>1 DEF SamePlace
    <3>2. CASE task # "open" /\ device
      BY <1>3, <2>3, <3>2 DEF Versioned
    <3> QED
      BY <3>1, <3>2
  <2> QED
    BY <1>10, <2>2, <2>3, MonitorSteps
<1>11. CASE LoadListCounted
  <2>1. task = "load" /\ UNCHANGED device
    BY <1>11 DEF LoadListCounted, CountReached, open_vars
  <2>2. Fresh \in Position
    BY <1>1, FreshIsPosition
  <2>3. task' = "none" \/ pos'.step = "LISTS"
    BY <1>11, <2>2 DEF LoadListCounted, AfterList, Done, Position
  <2> QED
    BY <1>3, <2>3
<1>12. CASE SaveSuspend \/ Puts \/ SaveResume
  <2>1. task' = "none" \/ pos'.step \in {"SET_CONFIG", "LISTS"}
    BY <1>12, SuspendStep, PutSteps, ResumeStep
  <2> QED
    BY <1>3, <2>1
<1>13. CASE SavePersist
  BY <1>13, PersistStep DEF Taken
<1>14. CASE MainLoop
  <2>1. device' = device /\ SamePlace /\ fw'.last = fw.last /\ fw'.asked = fw.asked
    BY <1>14, TurnOfMainLoop DEF TypeOK, SamePlace
  <2> QED
    BY <1>2, <2>1
<1>15. CASE FinishWrite
  <2>1. device' = device /\ SamePlace /\ fw'.last = fw.last /\ fw'.asked = fw.asked
    BY <1>15, FinishStep DEF SamePlace
  <2> QED
    BY <1>2, <2>1
<1>16. CASE PowerOff \/ PowerOn
  BY <1>3, <1>16, PowerSteps
<1> QED
  BY <1>4, <1>5, <1>6, <1>7, <1>8, <1>9, <1>10, <1>11, <1>12, <1>13, <1>14, <1>15, <1>16,
     StepKinds DEF Asks

\* A handler arrives at RESUME by the answer to PERSIST_CONFIG only.
LEMMA ResumeNext ==
  ASSUME TypeOK, Held, Begins \/ Ends \/ Retry \/ CheckmarkFades \/ LoadListCounted \/ Edit
                       \/ Asks \/ Answers \/ MonitorTab \/ OtherCommand,
         device', At("save", "RESUME")'
  PROVE  device /\ (SaveRead \/ At("save", "RESUME"))
<1> USE DEF At
<1>1. CASE Edit \/ Retry \/ CheckmarkFades
  BY <1>1, EditSteps, RetrySteps DEF SamePlace
<1>2. CASE Begins
  BY <1>2, BeginSteps
<1>3. CASE Ends
  BY <1>3, EndSteps
<1>4. CASE Asks
  <2>1. task # "save" /\ task' = task
    BY <1>4, AskSteps DEF Asks, VersionSend, OpenMonitor, UsagesSend, LoadSend, LoadAsk
  <2> QED
    BY <2>1
<1>5. CASE VersionRead \/ UsagesRead \/ LoadConfig
  BY <1>5 DEF VersionRead, UsagesRead, LoadConfig, Done
<1>6. CASE LoadItem \/ LoadListCounted
  BY <1>6 DEF LoadItem, LoadListCounted, CountReached, AfterList, Done
<1>7. CASE SaveRead
  BY <1>7 DEF SaveRead, Read
<1>8. CASE MonitorTab \/ OtherCommand
  BY <1>8, MonitorSteps
<1> QED
  BY <1>1, <1>2, <1>3, <1>4, <1>5, <1>6, <1>7, <1>8 DEF Answers

\* Saved: what the user is promised when the handler sends RESUME.
LEMMA FlashingKept ==
  ASSUME TypeOK, Held, AsksRight, Flashing, [Next]_vars,
         SaveResume /\ ~past.touched /\ ~past.half /\ pos.code = "SUCCESS" => flash = shown
  PROVE  Flashing'
<1> USE DEF Flashing
<1>1. fw \in Firmware /\ writing \in BOOLEAN
  BY DEF TypeOK
<1>2. ASSUME SameBoard \/ Harmless, promised' = promised,
             device' /\ At("save", "RESUME")' => ~fw.need_to_persist /\ ~writing
      PROVE  Flashing'
  BY <1>2 DEF SameBoard, Harmless, Kept
<1>3. ASSUME Begins \/ Ends \/ Retry \/ CheckmarkFades \/ LoadListCounted \/ Edit
             \/ Asks \/ Answers \/ MonitorTab \/ OtherCommand,
             device', At("save", "RESUME")'
      PROVE  ~fw.need_to_persist /\ ~writing
  <2>1. CASE SaveRead
    <3>1. At("save", "PERSIST_READ") /\ device /\ HasAnswer
      BY <2>1 DEF SaveRead, Read
    <3>2. fw.return_code # "UNKNOWN"
      BY <3>1 DEF AsksRight, HasAnswer, Questions
    <3> QED
      BY <3>2
  <2> QED
    BY <1>3, <2>1, ResumeNext
<1>4. CASE Edit \/ Begins \/ Ends \/ Retry \/ CheckmarkFades
  BY <1>2, <1>3, <1>4, EditSteps, RetrySteps, BeginSteps, EndSteps DEF SameHistory
<1>5. CASE Asks \/ Answers \/ MonitorTab \/ OtherCommand
  BY <1>2, <1>3, <1>5, AskSteps, AnswerSteps, MonitorSteps DEF SameHistory
<1>6. CASE LoadListCounted
  <2>1. SameBoard /\ promised' = promised
    BY <1>6 DEF LoadListCounted, SameBoard, board
  <2> QED
    BY <1>2, <1>3, <1>6, <2>1
<1>7. CASE SaveSuspend
  BY <1>7, SuspendStep DEF Taken, At
<1>8. CASE Puts
  BY <1>8, PutSteps DEF Taken, At, WritesTo
<1>9. CASE SavePersist
  BY <1>9, PersistStep DEF Taken, At
<1>10. CASE SaveResume
  <2>1. Taken /\ pos.step = "RESUME" /\ task' = "none"
    BY <1>10, ResumeStep
  <2>2. ~fw.need_to_persist /\ ~writing /\ ~writing'
    BY <2>1 DEF Taken, At
  <2>3. /\ ~fw'.need_to_persist /\ fw'.return_code = "UNKNOWN" /\ flash' = flash
        /\ ~At("save", "RESUME")'
    BY <1>10, <2>1, <2>2, ResumeStep DEF Taken, At
  <2>4. promised' # None => flash = promised'
    BY <1>10, ResumeStep
  <2> QED
    BY <2>2, <2>3, <2>4
<1>11. CASE MainLoop
  BY <1>1, <1>11, TurnOfMainLoop DEF At
<1>12. CASE FinishWrite
  BY <1>12, FinishStep
<1>13. CASE PowerOff
  BY <1>13, PowerSteps DEF PowerOff
<1>14. CASE PowerOn
  BY <1>14, PowerSteps DEF PowerOn, At
<1>15. CASE UNCHANGED vars
  BY <1>15 DEF vars, open_vars, board, ghosts, At
<1> QED
  BY <1>4, <1>5, <1>6, <1>7, <1>8, <1>9, <1>10, <1>11, <1>12, <1>13, <1>14, <1>15, StepKinds

LEMMA ShownIsConfigKept ==
  ASSUME TypeOK, Held, ShownIsConfig, [Next]_vars
  PROVE  ShownIsConfig'
<1> USE DEF ShownIsConfig, LoadsItems
<1>1. pos \in Position /\ past \in History /\ Fresh \in Position
  BY FreshIsPosition DEF TypeOK
<1>2. ASSUME NEW c \in Files, Replace(c)
      PROVE  ShownIsConfig'
  BY <1>2 DEF Replace
<1>3. ASSUME NEW x \in NewRows, AddRow(x)
      PROVE  ShownIsConfig'
  <2>1. past'.half = past.half /\ task' = task /\ pos'.step = pos.step
    BY <1>1, <1>3 DEF AddRow, History, Position
  <2>2. shown = config => shown' = config'
    BY <1>3 DEF AddRow
  <2> QED
    BY <2>1, <2>2
<1>4. ASSUME NEW v \in NewScalars, SetScalar(v)
      PROVE  ShownIsConfig'
  <2>1. past'.half = past.half /\ task' = task /\ pos' = pos
    BY <1>1, <1>4 DEF SetScalar, History
  <2>2. shown = config => shown' = config'
    BY <1>4 DEF SetScalar
  <2> QED
    BY <2>1, <2>2
<1>5. CASE Retry \/ CheckmarkFades \/ UNCHANGED vars
  <2>1. SamePlace /\ UNCHANGED <<past, config, shown>>
    BY <1>5, RetrySteps DEF vars, page, ghosts, SamePlace
  <2> QED
    BY <2>1 DEF SamePlace
<1>6. CASE Begins
  BY <1>6, BeginSteps
<1>7. CASE OpenCancelled \/ Reload
  BY <1>7 DEF OpenCancelled, Reload, page, ghosts
<1>8. CASE Throw
  <2>1. past'.half =
          (past.half \/ (task = "load" /\ pos.step \notin {"GET_CONFIG", "CONFIG_READ"}))
    BY <1>1, <1>8 DEF Throw, History
  <2>2. UNCHANGED <<config, shown>>
    BY <1>8 DEF Throw, page
  <2> QED
    BY <2>1, <2>2
<1>9. CASE AfterList /\ task = "load"
  BY <1>1, <1>9 DEF AfterList, Show, Position
<1>10. CASE LoadListCounted
  BY <1>9, <1>10 DEF LoadListCounted, CountReached, At
<1>11. CASE LoadItem
  <2>1. CASE Item = << >>
    BY <1>9, <1>11, <2>1 DEF LoadItem, At
  <2>2. CASE Item # << >>
    BY <1>1, <1>11, <2>2 DEF LoadItem, At, Position
  <2> QED
    BY <2>1, <2>2
<1>12. CASE LoadConfig
  BY <1>1, <1>12 DEF LoadConfig, At, Position
<1>13. CASE LoadAsk
  <2>1. task' = "load" /\ pos'.step = "ITEM_READ"
    BY <1>1, <1>13 DEF LoadAsk, SendAndGo, At, Position
  <2> QED
    BY <2>1, <1>13 DEF LoadAsk, At
<1>14. CASE UNCHANGED <<config, shown>> /\ past'.half = past.half /\ ~LoadsItems
  BY <1>14
<1>15. CASE VersionSend \/ OpenMonitor \/ UsagesSend \/ LoadSend
  <2>1. UNCHANGED <<config, shown, past>>
    BY <1>15, AskSteps DEF Asks
  <2>2. ~LoadsItems
    BY <1>15 DEF VersionSend, OpenMonitor, UsagesSend, LoadSend, At
  <2> QED
    BY <1>14, <2>1, <2>2
<1>16. CASE VersionRead \/ UsagesRead \/ SaveRead
  BY <1>14, <1>16 DEF VersionRead, UsagesRead, SaveRead, At, page, ghosts
<1>17. CASE MonitorTab \/ OtherCommand
  BY <1>17, MonitorSteps
<1>18. CASE SaveSuspend \/ Puts \/ SavePersist \/ SaveResume
  <2>1. UNCHANGED <<config, shown>> /\ past'.half = past.half /\ task = "save"
    BY <1>18, SuspendStep, PutSteps, PersistStep, ResumeStep DEF Taken
  <2> QED
    BY <1>14, <2>1
<1>19. CASE MainLoop
  BY <1>19, TurnOfMainLoop DEF TypeOK
<1>20. CASE FinishWrite
  BY <1>20, FinishStep
<1>21. CASE PowerOff \/ PowerOn
  BY <1>21, PowerSteps
<1> QED
  BY <1>2, <1>3, <1>4, <1>5, <1>6, <1>7, <1>8, <1>10, <1>11, <1>12, <1>13, <1>15, <1>16,
     <1>17, <1>18, <1>19, <1>20, <1>21, StepKinds DEF Edit, Ends, Asks, Answers
-----------------------------------------------------------------------------
(* Lists and configurations read and written piece by piece.               *)

LEMMA PrefixGrows ==
  ASSUME NEW start \in Seq(Items), NEW list \in Seq(Items), NEW n \in Nat,
         IsPrefix(start, list, n), n < Len(list)
  PROVE  /\ IsPrefix(Append(start, list[n + 1]), list, n + 1)
         /\ IsPrefix(start \o <<list[n + 1]>>, list, n + 1)
BY DEF IsPrefix

LEMMA PrefixFull ==
  ASSUME NEW start \in Seq(Items), NEW list \in Seq(Items), NEW n \in Nat,
         IsPrefix(start, list, n), n >= Len(list)
  PROVE  start = list
BY DEF IsPrefix

LEMMA PrefixEmpty ==
  ASSUME NEW list \in Seq(Items)
  PROVE  IsPrefix(<< >>, list, 0)
BY DEF IsPrefix

LEMMA SectionsDiffer ==
  ASSUME NEW i \in 1..Len(Sections), NEW j \in 1..Len(Sections), i # j
  PROVE  Sections[i] # Sections[j]
BY SectionsAssumption

LEMMA SameConfig ==
  ASSUME NEW c \in Config, NEW d \in Config, c.scalars = d.scalars,
         SectionsAgree(c, d, Len(Sections))
  PROVE  c = d
<1>1. \A n \in SectionNames : c.lists[n] = d.lists[n]
  BY DEF SectionsAgree, SectionNames
<1>2. c.lists = d.lists
  BY <1>1, ConfigParts
<1> QED
  BY <1>2 DEF Config
-----------------------------------------------------------------------------
(* Loading.                                                                *)

\* What a load has read so far.
ReadSoFar ==
  /\ config.scalars = fw.memory.scalars
  /\ \A n \in SectionNames : pos.count[n] = Len(fw.memory.lists[n])
  /\ SectionsAgree(config, fw.memory, pos.sec - 1)
  /\ IsPrefix(config.lists[Sections[pos.sec]], fw.memory.lists[Sections[pos.sec]], pos.idx)

LEMMA ReadsIsSoFar == Reads <=> (device /\ LoadsItems /\ ~past.touched => ReadSoFar)
BY DEF Reads, ReadSoFar

LEMMA PlaceOfLoad ==
  ASSUME TypeOK, Held, LoadsItems
  PROVE  /\ pos.sec \in 1..Len(Sections) /\ Sections[pos.sec] \in SectionNames
         /\ pos.idx \in Nat
<1>1. pos.sec \in 1..Len(Sections) /\ pos.idx \in Nat
  BY PositionParts, SectionsAssumption DEF TypeOK, Held, LoadsItems
<1> QED
  BY <1>1, SectionNamed

\* A list that has been read to its end is the device's.
LEMMA ListIsRead ==
  ASSUME TypeOK, Held, LoadsItems, ReadSoFar,
         pos.idx >= Len(fw.memory.lists[Sections[pos.sec]])
  PROVE  SectionsAgree(config, fw.memory, pos.sec)
<1> DEFINE n == Sections[pos.sec]
<1>1. pos.sec \in 1..Len(Sections) /\ n \in SectionNames /\ pos.idx \in Nat
  BY PlaceOfLoad
<1>2. config.lists[n] \in Seq(Items) /\ fw.memory.lists[n] \in Seq(Items)
  BY <1>1, ConfigParts DEF TypeOK, Firmware
<1>3. config.lists[n] = fw.memory.lists[n]
  BY <1>1, <1>2, PrefixFull DEF ReadSoFar
<1> QED
  BY <1>1, <1>3 DEF ReadSoFar, SectionsAgree

LEMMA NextListIsEmpty ==
  ASSUME TypeOK, Held, LoadsItems, ReadSoFar, AfterList, fw'.memory = fw.memory,
         SectionsAgree(config, fw.memory, pos.sec), LoadsItems'
  PROVE  ReadSoFar'
<1>1. pos.sec \in 1..Len(Sections) /\ pos \in Position /\ config \in Config
      /\ fw.memory \in Config
  BY PlaceOfLoad DEF TypeOK, Firmware
<1>2. pos.sec < Len(Sections)
  BY DEF AfterList, Done, LoadsItems
<1> DEFINE n == Sections[pos.sec + 1]
<1>3. pos.sec + 1 \in 1..Len(Sections) /\ n \in SectionNames
  BY <1>1, <1>2, SectionsAssumption, SectionNamed
<1>4. pos'.sec = pos.sec + 1 /\ pos'.idx = 0 /\ pos'.count = pos.count
  BY <1>1, <1>2, FreshIsPosition DEF AfterList, Position
<1>5. config' = [config EXCEPT !.lists[n] = << >>]
  BY <1>2 DEF AfterList
<1> HIDE DEF n
<1>6. /\ config'.scalars = config.scalars /\ config'.lists[n] = << >>
      /\ \A m \in SectionNames : m # n => config'.lists[m] = config.lists[m]
  BY <1>1, <1>3, <1>5 DEF Config
<1>7. SectionsAgree(config', fw.memory, pos.sec)
  <2> SUFFICES ASSUME NEW j \in 1..pos.sec
               PROVE  config'.lists[Sections[j]] = fw.memory.lists[Sections[j]]
    BY DEF SectionsAgree
  <2>1. j \in 1..Len(Sections) /\ j # pos.sec + 1
    BY <1>1
  <2>2. Sections[j] # n /\ Sections[j] \in SectionNames
    BY <1>3, <2>1, SectionsDiffer, SectionNamed DEF n
  <2> QED
    BY <1>6, <2>2 DEF SectionsAgree
<1>8. IsPrefix(config'.lists[n], fw.memory.lists[n], 0)
  <2>1. fw.memory.lists[n] \in Seq(Items)
    BY <1>1, <1>3, ConfigParts
  <2> QED
    BY <1>6, <2>1, PrefixEmpty
<1>9. pos'.sec - 1 = pos.sec
  BY <1>1, <1>4
<1> QED
  BY <1>4, <1>6, <1>7, <1>8, <1>9 DEF ReadSoFar, n

\* The answer to GET_ITEM is the entry after those that have been read.
LEMMA ItemIsNext ==
  ASSUME TypeOK, Held, AsksRight, LoadItem
  PROVE  LET l == fw.memory.lists[Sections[pos.sec]]
         IN /\ device /\ LoadsItems /\ fw'.memory = fw.memory
            /\ Item = IF pos.idx < Len(l) THEN << l[pos.idx + 1] >> ELSE << >>
<1>1. device /\ LoadsItems /\ HasAnswer /\ At("load", "ITEM_READ")
  BY DEF LoadItem, Read, LoadsItems, At
<1>2. fw.last # "NO_ANSWER"
  BY <1>1 DEF HasAnswer, Questions
<1>3. fw.asked = <<pos.sec, pos.idx>>
  BY <1>1, <1>2 DEF AsksRight
<1>4. fw'.memory = fw.memory
  BY AnswerSteps DEF Answers, Harmless, Kept
<1> QED
  BY <1>1, <1>3, <1>4 DEF Item

LEMMA ReadsKept ==
  ASSUME TypeOK, Held, AsksRight, Reads, [Next]_vars
  PROVE  Reads'
<1>1. pos \in Position /\ past \in History /\ Fresh \in Position
  BY FreshIsPosition DEF TypeOK
<1>2. ASSUME device' = device, SamePlace, config' = config, fw'.memory = fw.memory,
             past'.touched = past.touched
      PROVE  Reads'
  BY <1>2 DEF Reads, LoadsItems, SamePlace
<1>3. CASE ~device' \/ task' # "load" \/ pos'.step \notin {"LISTS", "ITEM_READ"} \/ past'.touched
  BY <1>3 DEF Reads, LoadsItems
<1>4. CASE Edit
  BY <1>3, <1>4, EditSteps DEF SamePlace, Touched
<1>5. CASE Retry \/ CheckmarkFades \/ UNCHANGED vars
  <2>1. device' = device /\ SamePlace /\ UNCHANGED <<past, config, fw>>
    BY <1>5, RetrySteps DEF SameBoard, vars, open_vars, page, ghosts, board, SamePlace
  <2> QED
    BY <1>2, <2>1
<1>6. CASE Begins \/ Ends
  BY <1>3, <1>6, BeginSteps, EndSteps
<1>7. CASE VersionSend \/ OpenMonitor \/ UsagesSend \/ VersionRead \/ UsagesRead \/ SaveRead
  <2>1. task' # "load"
    BY <1>7 DEF VersionSend, OpenMonitor, UsagesSend, VersionRead, UsagesRead, SaveRead,
                SendAndGo, At, Done
  <2> QED
    BY <1>3, <2>1
<1>8. CASE LoadSend
  <2>1. pos'.step = "CONFIG_READ"
    BY <1>1, <1>8 DEF LoadSend, SendAndGo, Position
  <2> QED
    BY <1>3, <2>1
<1>9. CASE LoadAsk
  <2>1. device' = device /\ fw'.memory = fw.memory /\ UNCHANGED <<task, config, past>>
    BY <1>9, AskSteps DEF Asks, Harmless, Kept
  <2>2. LoadsItems /\ pos'.sec = pos.sec /\ pos'.idx = pos.idx /\ pos'.count = pos.count
    BY <1>1, <1>9 DEF LoadAsk, SendAndGo, At, LoadsItems, Position
  <2> QED
    BY <2>1, <2>2 DEF Reads
<1>10. CASE LoadConfig
  <2>1. fw' = Silent /\ fw \in Firmware /\ fw.memory \in Config
    BY <1>10 DEF LoadConfig, Read, Answered, TypeOK, Firmware
  <2>2. fw'.memory = fw.memory
    BY <2>1, SilentKeeps DEF Kept
  <2>3. /\ pos'.sec = 1 /\ pos'.idx = 0
        /\ pos'.count = [n \in SectionNames |-> Len(fw.memory.lists[n])]
    BY <1>1, <1>10 DEF LoadConfig, Position
  <2>4. Sections[1] \in SectionNames
    BY FirstSection, SectionNamed
  <2>5. config'.scalars = fw.memory.scalars /\ config'.lists[Sections[1]] = << >>
    BY <1>10, <2>4 DEF LoadConfig, TypeOK, Config
  <2>6. fw.memory.lists[Sections[1]] \in Seq(Items)
    BY <2>1, <2>4, ConfigParts
  <2>7. IsPrefix(config'.lists[Sections[1]], fw.memory.lists[Sections[1]], 0)
    BY <2>5, <2>6, PrefixEmpty
  <2>8. SectionsAgree(config', fw'.memory, pos'.sec - 1)
    BY <2>3 DEF SectionsAgree
  <2> QED
    BY <2>2, <2>3, <2>5, <2>7, <2>8 DEF Reads
<1>11. CASE LoadItem /\ device' /\ LoadsItems' /\ ~past'.touched
  <2> DEFINE n == Sections[pos.sec]
             l == fw.memory.lists[n]
  <2>1. device /\ LoadsItems /\ ~past.touched /\ fw'.memory = fw.memory
    BY <1>11, ItemIsNext, AnswerSteps DEF Answers
  <2>2. ReadSoFar
    BY <2>1, ReadsIsSoFar
  <2>3. n \in SectionNames /\ pos.sec \in 1..Len(Sections) /\ pos.idx \in Nat
    BY <2>1, PlaceOfLoad
  <2>4. config.lists[n] \in Seq(Items) /\ l \in Seq(Items)
    BY <2>3, ConfigParts DEF TypeOK, Firmware
  <2>5. CASE pos.idx >= Len(l)
    <3>1. Item = << >>
      BY <1>11, <2>3, <2>4, <2>5, ItemIsNext
    <3>2. AfterList
      BY <1>11, <3>1 DEF LoadItem
    <3>3. SectionsAgree(config, fw.memory, pos.sec)
      BY <2>1, <2>2, <2>5, ListIsRead
    <3>4. ReadSoFar'
      BY <1>11, <2>1, <2>2, <3>2, <3>3, NextListIsEmpty
    <3> QED
      BY <3>4 DEF Reads, ReadSoFar
  <2>6. CASE pos.idx < Len(l)
    <3>1. Item = << l[pos.idx + 1] >> /\ Item # << >>
      <4>1. Item = << l[pos.idx + 1] >>
        BY <1>11, <2>6, ItemIsNext
      <4> QED
        BY <4>1
    <3>2. config' = [config EXCEPT !.lists[n] = @ \o Item]
      BY <1>11, <3>1 DEF LoadItem
    <3>3. pos'.sec = pos.sec /\ pos'.idx = pos.idx + 1 /\ pos'.count = pos.count
      <4>1. pos' = [Fresh EXCEPT !.step = "LISTS", !.idx = @ + 1]
        BY <1>11, <3>1, Zenon DEF LoadItem
      <4>2. /\ Fresh \in Position /\ Fresh.sec = pos.sec /\ Fresh.idx = pos.idx
            /\ Fresh.count = pos.count
        BY <1>1, FreshIsPosition
      <4> QED
        BY <4>1, <4>2 DEF Position
    <3>4. config.lists[n] \o Item \in Seq(Items)
      BY <2>4, <2>6, <2>3, <3>1
    <3>5. /\ config'.scalars = config.scalars
          /\ config'.lists[n] = config.lists[n] \o << l[pos.idx + 1] >>
          /\ \A m \in SectionNames : m # n => config'.lists[m] = config.lists[m]
      <4> DEFINE longer == config.lists[n] \o Item
      <4>1. config' = [config EXCEPT !.lists[n] = longer]
        BY <3>2
      <4>2. longer \in Seq(Items) /\ longer = config.lists[n] \o << l[pos.idx + 1] >>
        BY <3>1, <3>4
      <4>3. config \in Config
        BY DEF TypeOK
      <4> HIDE DEF n, l, longer
      <4>4. /\ config'.scalars = config.scalars /\ config'.lists[n] = longer
            /\ \A m \in SectionNames : m # n => config'.lists[m] = config.lists[m]
        BY <2>3, <4>1, <4>3 DEF Config
      <4> QED
        BY <4>2, <4>4
    <3>6. IsPrefix(config'.lists[n], l, pos.idx + 1)
      BY <2>2, <2>3, <2>4, <2>6, <3>5, PrefixGrows DEF ReadSoFar
    <3>7. SectionsAgree(config', fw.memory, pos.sec - 1)
      <4> SUFFICES ASSUME NEW j \in 1..pos.sec - 1
                   PROVE  config'.lists[Sections[j]] = fw.memory.lists[Sections[j]]
        BY DEF SectionsAgree
      <4>1. j \in 1..Len(Sections) /\ j # pos.sec
        BY <2>3
      <4>2. Sections[j] # n /\ Sections[j] \in SectionNames
        BY <2>3, <4>1, SectionsDiffer, SectionNamed
      <4> QED
        BY <2>2, <3>5, <4>2 DEF ReadSoFar, SectionsAgree
    <3> QED
      BY <2>1, <2>2, <3>3, <3>5, <3>6, <3>7 DEF ReadSoFar, Reads
  <2> QED
    BY <2>3, <2>4, <2>5, <2>6
<1>12. CASE LoadItem /\ ~(device' /\ LoadsItems' /\ ~past'.touched)
  BY <1>12 DEF Reads
<1>13. CASE LoadListCounted /\ device' /\ LoadsItems' /\ ~past'.touched
  <2>1. device /\ LoadsItems /\ AfterList /\ fw'.memory = fw.memory
        /\ pos.idx >= pos.count[Sections[pos.sec]]
    BY <1>13 DEF LoadListCounted, CountReached, At, LoadsItems, open_vars, board
  <2>2. ~past.touched
    BY <1>1, <1>13, <2>1 DEF AfterList, History
  <2>3. ReadSoFar
    BY <2>1, <2>2, ReadsIsSoFar
  <2>4. SectionsAgree(config, fw.memory, pos.sec)
    BY <2>1, <2>3, PlaceOfLoad, ListIsRead DEF ReadSoFar
  <2>5. ReadSoFar'
    BY <1>13, <2>1, <2>3, <2>4, NextListIsEmpty
  <2> QED
    BY <2>5 DEF Reads, ReadSoFar
<1>14. CASE LoadListCounted /\ ~(device' /\ LoadsItems' /\ ~past'.touched)
  BY <1>14 DEF Reads
<1>15. CASE MonitorTab \/ OtherCommand
  <2>1. device' = device /\ SamePlace /\ UNCHANGED <<config, past>>
    BY <1>15, MonitorSteps DEF SamePlace
  <2>2. fw'.memory = fw.memory
    BY <1>15, MonitorSteps DEF SameBoard, Harmless, Kept
  <2> QED
    BY <1>2, <2>1, <2>2
<1>16. CASE SaveSuspend \/ Puts \/ SavePersist \/ SaveResume
  <2>1. task' # "load"
    BY <1>16, SuspendStep, PutSteps, PersistStep, ResumeStep DEF Taken
  <2> QED
    BY <1>3, <2>1
<1>17. CASE MainLoop
  <2>1. device' = device /\ SamePlace /\ fw'.memory = fw.memory /\ UNCHANGED <<config, past>>
    BY <1>17, TurnOfMainLoop DEF TypeOK, SamePlace
  <2> QED
    BY <1>2, <2>1
<1>18. CASE FinishWrite
  <2>1. device' = device /\ SamePlace /\ fw'.memory = fw.memory /\ UNCHANGED <<config, past>>
    BY <1>18, FinishStep DEF SamePlace
  <2> QED
    BY <1>2, <2>1
<1>19. CASE PowerOff \/ PowerOn
  BY <1>3, <1>19, PowerSteps
<1> QED
  BY <1>4, <1>5, <1>6, <1>7, <1>8, <1>9, <1>10, <1>11, <1>12, <1>13, <1>14, <1>15, <1>16,
     <1>17, <1>18, <1>19, StepKinds DEF Asks, Answers
-----------------------------------------------------------------------------
(* Saving.                                                                 *)

\* What a save has written so far, between two lists or in one.
WrittenSoFar ==
  /\ fw.memory.scalars = config.scalars
  /\ SectionsAgree(fw.memory, config, pos.sec - 1)
  /\ pos.sec > 0 =>
       /\ pos.iterated = config.lists[Sections[pos.sec]]
       /\ IsPrefix(fw.memory.lists[Sections[pos.sec]], pos.iterated, pos.idx)

LEMMA SendsIsSoFar ==
  ASSUME Sends, device, task = "save", ~past.touched
  PROVE  /\ pos.step = "LISTS" => WrittenSoFar
         /\ pos.step = "PERSIST_READ" => fw.memory = config
         /\ pos.step = "RESUME" /\ pos.code = "SUCCESS" => flash = config
BY DEF Sends, WrittenSoFar

\* A list that has been written to its end is the tool's.
LEMMA ListIsWritten ==
  ASSUME TypeOK, WrittenSoFar, ListSent
  PROVE  SectionsAgree(fw.memory, config, pos.sec)
<1>1. pos.sec \in 0..Len(Sections) /\ pos.idx \in Nat /\ pos.iterated \in Seq(Items)
      /\ pos.idx >= Len(pos.iterated) /\ Len(Sections) \in Nat
  BY PositionParts, SectionsAssumption DEF TypeOK, ListSent
<1>2. CASE pos.sec = 0
  BY <1>2 DEF SectionsAgree
<1>3. CASE pos.sec > 0
  <2> DEFINE n == Sections[pos.sec]
  <2>1. n \in SectionNames
    BY <1>1, <1>3, SectionNamed
  <2>2. fw.memory.lists[n] \in Seq(Items)
    BY <2>1, ConfigParts DEF TypeOK, Firmware
  <2>3. fw.memory.lists[n] = config.lists[n]
    BY <1>1, <1>3, <2>2, PrefixFull DEF WrittenSoFar
  <2> QED
    BY <1>1, <2>3 DEF WrittenSoFar, SectionsAgree
<1> QED
  BY <1>1, <1>2, <1>3

LEMMA ClearedIsSoFar ==
  ASSUME TypeOK, WrittenSoFar, SaveClear
  PROVE  WrittenSoFar'
<1>1. pos.sec \in 0..Len(Sections) /\ pos \in Position /\ config \in Config
      /\ fw.memory \in Config /\ fw \in Firmware /\ Len(Sections) \in Nat
      /\ pos.sec < Len(Sections) /\ config' = config
  BY PositionParts, SectionsAssumption DEF TypeOK, Firmware, SaveClear, SendAndGo, page
<1> DEFINE n == Sections[pos.sec + 1]
<1>2. pos.sec + 1 \in 1..Len(Sections) /\ n \in SectionNames
  BY <1>1, SectionNamed
<1>3. /\ pos'.sec = pos.sec + 1 /\ pos'.idx = 0 /\ pos'.iterated = config.lists[n]
  BY <1>1 DEF SaveClear, SendAndGo, Position
<1>4. fw' = ClearList(n)
  BY DEF SaveClear, SendAndGo, Send
<1> HIDE DEF n
<1>5. fw'.memory = [fw.memory EXCEPT !.lists[n] = << >>]
  BY <1>1, <1>2, <1>4, ListWrites
<1>6. /\ fw'.memory.scalars = fw.memory.scalars /\ fw'.memory.lists[n] = << >>
      /\ \A m \in SectionNames : m # n => fw'.memory.lists[m] = fw.memory.lists[m]
  BY <1>1, <1>2, <1>5 DEF Config
<1>7. SectionsAgree(fw'.memory, config, pos.sec)
  <2> SUFFICES ASSUME NEW j \in 1..pos.sec
               PROVE  fw'.memory.lists[Sections[j]] = config.lists[Sections[j]]
    BY DEF SectionsAgree
  <2>1. j \in 1..Len(Sections) /\ j # pos.sec + 1
    BY <1>1
  <2>2. Sections[j] # n /\ Sections[j] \in SectionNames
    BY <1>2, <2>1, SectionsDiffer, SectionNamed DEF n
  <2>3. SectionsAgree(fw.memory, config, pos.sec)
    BY ListIsWritten DEF SaveClear
  <2> QED
    BY <1>6, <2>2, <2>3 DEF SectionsAgree
<1>8. IsPrefix(fw'.memory.lists[n], config.lists[n], 0)
  <2>1. config.lists[n] \in Seq(Items)
    BY <1>1, <1>2, ConfigParts
  <2> QED
    BY <1>6, <2>1, PrefixEmpty
<1>9. pos'.sec - 1 = pos.sec
  BY <1>1, <1>3
<1> QED
  BY <1>1, <1>3, <1>6, <1>7, <1>8, <1>9 DEF WrittenSoFar, n

LEMMA AddedIsSoFar ==
  ASSUME TypeOK, Held, WrittenSoFar, SaveItem
  PROVE  WrittenSoFar'
<1>1. pos \in Position /\ config \in Config /\ config' = config
      /\ fw.memory \in Config /\ fw \in Firmware
  BY DEF TypeOK, Firmware, SaveItem, SendAndGo, page
<1>2. pos.idx \in Nat /\ pos.iterated \in Seq(Items) /\ pos.idx < Len(pos.iterated)
  BY <1>1, PositionParts DEF SaveItem, ListSent
<1>3. pos.sec \in 1..Len(Sections)
  BY <1>1, <1>2, PositionParts, SectionsAssumption DEF SaveItem, Held
<1> DEFINE n == Sections[pos.sec]
           x == pos.iterated[pos.idx + 1]
           longer == Append(fw.memory.lists[n], x)
<1>4. n \in SectionNames /\ x \in Items
  BY <1>2, <1>3, SectionNamed
<1>5. /\ pos'.sec = pos.sec /\ pos'.idx = pos.idx + 1 /\ pos'.iterated = pos.iterated
  BY <1>1 DEF SaveItem, SendAndGo, Position
<1>6. fw' = AddToList(n, x)
  BY DEF SaveItem, SendAndGo, Send
<1>7. IsPrefix(longer, pos.iterated, pos.idx + 1)
  <2>1. fw.memory.lists[n] \in Seq(Items)
    BY <1>1, <1>4, ConfigParts
  <2>2. IsPrefix(fw.memory.lists[n], pos.iterated, pos.idx)
    BY <1>3 DEF WrittenSoFar
  <2> QED
    BY <1>2, <2>1, <2>2, PrefixGrows
<1>8. fw'.memory = [fw.memory EXCEPT !.lists[n] = longer]
  <2> HIDE DEF n, x
  <2> QED
    BY <1>1, <1>4, <1>6, ListWrites
<1>9. /\ fw'.memory.scalars = fw.memory.scalars /\ fw'.memory.lists[n] = longer
      /\ \A m \in SectionNames : m # n => fw'.memory.lists[m] = fw.memory.lists[m]
  <2> HIDE DEF n, x, longer
  <2> QED
    BY <1>1, <1>4, <1>8 DEF Config
<1>10. SectionsAgree(fw'.memory, config, pos.sec - 1)
  <2> SUFFICES ASSUME NEW j \in 1..pos.sec - 1
               PROVE  fw'.memory.lists[Sections[j]] = config.lists[Sections[j]]
    BY DEF SectionsAgree
  <2>1. j \in 1..Len(Sections) /\ j # pos.sec
    BY <1>3
  <2>2. Sections[j] # n /\ Sections[j] \in SectionNames
    BY <1>3, <2>1, SectionsDiffer, SectionNamed
  <2> HIDE DEF n, x, longer
  <2> QED
    BY <1>9, <2>2 DEF SectionsAgree, WrittenSoFar
<1> HIDE DEF longer, x
<1>11. pos.iterated = config.lists[n]
  BY <1>3 DEF WrittenSoFar
<1> QED
  BY <1>1, <1>5, <1>7, <1>9, <1>10, <1>11 DEF WrittenSoFar

LEMMA SendsKept ==
  ASSUME TypeOK, Held, Flashing, Sends, [Next]_vars
  PROVE  Sends'
<1>1. pos \in Position /\ past \in History /\ Fresh \in Position /\ fw \in Firmware
  BY FreshIsPosition DEF TypeOK
<1>2. ASSUME device' = device, SamePlace, pos'.iterated = pos.iterated, config' = config,
             fw'.memory = fw.memory, past'.touched = past.touched,
             flash' = flash \/ pos.step # "RESUME"
      PROVE  Sends'
  BY <1>2 DEF Sends, SamePlace
<1>3. CASE ~device' \/ task' # "save" \/ past'.touched
           \/ pos'.step \notin {"LISTS", "PERSIST_READ", "RESUME"}
  BY <1>3 DEF Sends
<1>4. CASE Edit
  BY <1>3, <1>4, EditSteps DEF SamePlace, Touched
<1>5. CASE Retry \/ CheckmarkFades \/ UNCHANGED vars
  <2>1. /\ device' = device /\ SamePlace /\ UNCHANGED <<past, config, fw, flash>>
        /\ pos'.iterated = pos.iterated
    BY <1>5, RetrySteps DEF SameBoard, vars, open_vars, page, ghosts, board, SamePlace
  <2> QED
    BY <1>2, <2>1
<1>6. CASE Begins \/ Ends
  BY <1>3, <1>6, BeginSteps, EndSteps
<1>7. CASE Asks
  <2>1. task' # "save"
    BY <1>7 DEF Asks, VersionSend, OpenMonitor, UsagesSend, LoadSend, LoadAsk, SendAndGo, At
  <2> QED
    BY <1>3, <2>1
<1>8. CASE VersionRead \/ UsagesRead \/ LoadConfig \/ LoadItem \/ LoadListCounted
  <2>1. task' # "save"
    BY <1>8 DEF VersionRead, UsagesRead, LoadConfig, LoadItem, LoadListCounted, CountReached,
                AfterList, At, Done
  <2> QED
    BY <1>3, <2>1
<1>9. CASE SaveRead
  <2>1. /\ device /\ task = "save" /\ pos.step = "PERSIST_READ" /\ flash' = flash
        /\ UNCHANGED <<device, task, config, past>>
    BY <1>9 DEF SaveRead, Read, At, open_vars, page, ghosts
  <2>2. pos'.step = "RESUME" /\ pos'.code = fw.return_code
    BY <1>1, <1>9 DEF SaveRead, Position
  <2>3. ~past.touched => fw.memory = config
    BY <2>1, SendsIsSoFar
  <2>4. fw.return_code = "SUCCESS" => flash = fw.memory
    BY DEF Flashing
  <2> QED
    BY <2>1, <2>2, <2>3, <2>4 DEF Sends
<1>10. CASE MonitorTab \/ OtherCommand
  <2>1. UNCHANGED <<device, task, pos, config, past>> /\ SamePlace
    BY <1>10, MonitorSteps DEF SamePlace
  <2>2. fw'.memory = fw.memory /\ flash' = flash
    BY <1>10, MonitorSteps DEF SameBoard, Harmless, Kept
  <2> QED
    BY <1>2, <2>1, <2>2
<1>11. CASE SaveSuspend \/ SaveResume
  <2>1. task' = "none" \/ pos'.step = "SET_CONFIG"
    BY <1>11, SuspendStep, ResumeStep
  <2> QED
    BY <1>3, <2>1
<1>12. CASE Puts
  <2>1. /\ device /\ task = "save" /\ UNCHANGED <<device, task, config>>
        /\ past'.touched = past.touched /\ pos'.step = "LISTS"
    BY <1>12, PutSteps DEF Taken
  <2>2. CASE SaveScalars
    <3>1. pos'.sec = 0
      BY <1>1, <2>2 DEF SaveScalars, SendAndGo, Position
    <3>2. fw' = SetConfig(config.scalars) /\ config.scalars \in Scalars
      BY <2>2, ConfigParts DEF SaveScalars, SendAndGo, Send, TypeOK
    <3>3. fw'.memory = [fw.memory EXCEPT !.scalars = config.scalars] /\ fw.memory \in Config
      BY <1>1, <3>2, SetConfigWrites DEF Firmware
    <3>4. fw'.memory.scalars = config.scalars
      BY <3>3 DEF Config
    <3>5. SectionsAgree(fw'.memory, config', pos'.sec - 1)
      BY <3>1 DEF SectionsAgree
    <3> QED
      BY <2>1, <3>1, <3>4, <3>5 DEF Sends
  <2>3. CASE (SaveClear \/ SaveItem) /\ ~past.touched
    <3>1. WrittenSoFar
      BY <2>1, <2>3, SendsIsSoFar DEF SaveClear, SaveItem, ListSent, At
    <3>2. WrittenSoFar'
      BY <2>3, <3>1, ClearedIsSoFar, AddedIsSoFar
    <3> QED
      BY <2>1, <3>2 DEF Sends, WrittenSoFar
  <2>4. CASE past.touched
    BY <1>3, <2>1, <2>4
  <2> QED
    BY <1>12, <2>2, <2>3, <2>4 DEF Puts
<1>13. CASE SavePersist
  <2>1. /\ device /\ task = "save" /\ UNCHANGED <<device, task, config, past>>
        /\ pos.step = "LISTS" /\ pos'.step = "PERSIST_READ" /\ fw'.memory = fw.memory
    BY <1>13, PersistStep DEF Taken
  <2>2. ASSUME ~past.touched
        PROVE  fw.memory = config
    <3>1. WrittenSoFar
      BY <2>1, <2>2, SendsIsSoFar
    <3>2. SectionsAgree(fw.memory, config, Len(Sections))
      BY <1>13, <3>1, ListIsWritten DEF SavePersist
    <3>3. fw.memory \in Config /\ config \in Config
      BY DEF TypeOK, Firmware
    <3> QED
      BY <3>1, <3>2, <3>3, SameConfig DEF WrittenSoFar
  <2> QED
    BY <2>1, <2>2 DEF Sends
<1>14. CASE MainLoop
  <2>1. /\ SamePlace /\ fw'.memory = fw.memory /\ UNCHANGED <<device, pos, config, past>>
        /\ flash' = flash \/ fw.need_to_persist
    BY <1>14, TurnOfMainLoop DEF TypeOK, SamePlace
  <2>2. CASE task # "save" \/ ~device
    BY <1>3, <2>1, <2>2 DEF SamePlace
  <2>3. CASE task = "save" /\ device
    BY <1>2, <2>1, <2>3 DEF Flashing, At
  <2> QED
    BY <2>2, <2>3
<1>15. CASE FinishWrite
  <2>1. /\ SamePlace /\ fw'.memory = fw.memory /\ UNCHANGED <<device, pos, config, past>>
        /\ writing
    BY <1>15, FinishStep DEF SamePlace
  <2>2. CASE task # "save" \/ ~device
    BY <1>3, <2>1, <2>2 DEF SamePlace
  <2>3. CASE task = "save" /\ device
    BY <1>2, <2>1, <2>3 DEF Flashing, At
  <2> QED
    BY <2>2, <2>3
<1>16. CASE PowerOff \/ PowerOn
  BY <1>3, <1>16, PowerSteps
<1> QED
  BY <1>4, <1>5, <1>6, <1>7, <1>8, <1>9, <1>10, <1>11, <1>12, <1>13, <1>14, <1>15, <1>16,
     StepKinds DEF Answers
-----------------------------------------------------------------------------
(* Theorems.                                                               *)

Inv == /\ TypeOK /\ Held /\ AsksSection
       /\ FramesStop /\ Versioned /\ AsksRight /\ Flashing
       /\ ShownIsConfig /\ Reads /\ Sends

LEMMA Initially == Init => Inv
<1> SUFFICES ASSUME Init PROVE Inv
  OBVIOUS
<1>1. fw \in Firmware /\ fw.asked = <<1, 0>> /\ ~fw.need_to_persist /\ fw.return_code = "UNKNOWN"
  BY BootIsClean DEF Init
<1>2. TypeOK
  BY <1>1, IdleIsPosition, ConfigsAssumption DEF Init, TypeOK, History
<1>3. AsksSection
  BY <1>1, FirstSection DEF AsksSection
<1>4. Held /\ Versioned /\ AsksRight /\ ShownIsConfig /\ Reads /\ Sends
  BY DEF Init, Held, Versioned, AsksRight, ShownIsConfig, Reads, LoadsItems, Sends, At
<1>5. FramesStop /\ Flashing
  BY <1>1 DEF Init, FramesStop, Writing, Flashing, At
<1> QED
  BY <1>2, <1>3, <1>4, <1>5 DEF Inv

\* What the user is told to be saved when a save ends is in the flash.
LEMMA PromiseIsStored ==
  ASSUME Inv, SaveResume, ~past.touched, ~past.half, pos.code = "SUCCESS"
  PROVE  flash = shown
<1>1. device /\ task = "save" /\ pos.step = "RESUME"
  BY ResumeStep DEF Inv, Taken
<1>2. flash = config
  BY <1>1, SendsIsSoFar DEF Inv
<1>3. shown = config
  BY <1>1 DEF Inv, ShownIsConfig, LoadsItems
<1> QED
  BY <1>2, <1>3

LEMMA Stepwise ==
  ASSUME Inv, [Next]_vars
  PROVE  Inv'
<1>1. TypeOK' /\ Held' /\ AsksSection'
  BY TypeOfNext, HeldOfNext, AsksSectionKept DEF Inv
<1>2. FramesStop'
  BY FramesStopKept DEF Inv
<1>3. Versioned' /\ AsksRight'
  BY VersionedKept, AsksRightKept DEF Inv
<1>4. Flashing'
  BY PromiseIsStored, FlashingKept DEF Inv
<1>5. ShownIsConfig' /\ Reads' /\ Sends'
  BY ShownIsConfigKept, ReadsKept, SendsKept DEF Inv
<1> QED
  BY <1>1, <1>2, <1>3, <1>4, <1>5 DEF Inv

LEMMA Invariance == Spec => []Inv
BY Initially, Stepwise, PTL DEF Spec

\* Every variable keeps its type: among others, the tool never writes or reads an entry
\* of a list the device does not have.
THEOREM TypeCorrect == Spec => []TypeOK
<1>1. Inv => TypeOK
  BY DEF Inv
<1> QED
  BY <1>1, Invariance, PTL

\* Frames run only on configurations written to their end, whenever the user edits, the
\* page is closed or the power goes.
THEOREM WholeConfigsRun == Spec => []FramesRunWholeConfigs
<1>1. Inv => FramesRunWholeConfigs
  BY DEF Inv, FramesStop, Stopped, FramesRunWholeConfigs
<1> QED
  BY <1>1, Invariance, PTL

\* A load that ends without an error, and without edits meanwhile, shows what is in the
\* device's memory.
LoadEnds ==
  task = "load" /\ task' = "none" /\ device' /\ ~error' /\ ~past.touched'
    => config' = fw.memory /\ shown' = config'

LEMMA LoadEndsWithAll ==
  ASSUME Inv, [Next]_vars
  PROVE  LoadEnds
<1> SUFFICES ASSUME task = "load", task' = "none", device', ~error', ~past'.touched
             PROVE  config' = fw.memory /\ shown' = config'
  BY DEF LoadEnds
<1> USE DEF Inv
<1>1. LoadItem \/ LoadListCounted
  <2>1. CASE Edit \/ Retry \/ CheckmarkFades
    BY <2>1, EditSteps, RetrySteps DEF SamePlace
  <2>2. CASE Begins \/ Ends
    BY <2>2, BeginSteps DEF Ends, OpenCancelled, Throw, Reload
  <2>3. CASE Asks \/ MonitorTab \/ OtherCommand
    BY <2>3, AskSteps, MonitorSteps
  <2>4. CASE VersionRead \/ UsagesRead \/ LoadConfig \/ SaveRead
    BY <2>4 DEF VersionRead, UsagesRead, LoadConfig, SaveRead, At
  <2>5. CASE SaveSuspend \/ Puts \/ SavePersist \/ SaveResume
    BY <2>5, SuspendStep, PutSteps, PersistStep, ResumeStep DEF Taken
  <2>6. CASE MainLoop \/ FinishWrite
    BY <2>6, TurnOfMainLoop, FinishStep DEF TypeOK
  <2>7. CASE PowerOff \/ PowerOn \/ UNCHANGED vars
    BY <2>7, PowerSteps DEF vars
  <2> QED
    BY <2>1, <2>2, <2>3, <2>4, <2>5, <2>6, <2>7, StepKinds DEF Answers
<1>2. device /\ LoadsItems
  BY <1>1, ItemIsNext DEF LoadListCounted, CountReached, At, LoadsItems, open_vars
<1>3. AfterList
  BY <1>1 DEF LoadItem, LoadListCounted
<1>4. ~past.touched
  BY <1>3 DEF AfterList, TypeOK, History
<1>5. ReadSoFar
  BY <1>2, <1>4, ReadsIsSoFar
<1>6. pos.sec \in 1..Len(Sections) /\ Sections[pos.sec] \in SectionNames /\ pos.idx \in Nat
  BY <1>2, PlaceOfLoad
<1>7. pos.idx >= Len(fw.memory.lists[Sections[pos.sec]])
  <2>1. CASE LoadItem
    <3>1. Item = << >>
      BY <2>1 DEF LoadItem
    <3>2. fw.memory.lists[Sections[pos.sec]] \in Seq(Items)
      BY <1>6, ConfigParts DEF TypeOK, Firmware
    <3> QED
      BY <1>6, <2>1, <3>1, <3>2, ItemIsNext
  <2>2. CASE LoadListCounted
    BY <1>5, <1>6, <2>2 DEF LoadListCounted, CountReached, ReadSoFar
  <2> QED
    BY <1>1, <2>1, <2>2
<1>8. SectionsAgree(config, fw.memory, pos.sec)
  BY <1>2, <1>5, <1>7, ListIsRead
<1>9. ~(pos.sec < Len(Sections)) /\ config' = config /\ shown' = config
  BY <1>3 DEF AfterList, Show
<1>10. pos.sec = Len(Sections)
  BY <1>6, <1>9, SectionsAssumption
<1>11. config = fw.memory
  <2>1. config \in Config /\ fw.memory \in Config
    BY DEF TypeOK, Firmware
  <2> QED
    BY <1>5, <1>8, <1>10, <2>1, SameConfig DEF ReadSoFar
<1> QED
  BY <1>9, <1>11

THEOREM LoadsAreFaithful == Spec => LoadIsFaithful
<1>1. Inv /\ [Next]_vars => [LoadEnds]_vars
  BY LoadEndsWithAll
<1> QED
  BY <1>1, Invariance, PTL DEF Spec, LoadIsFaithful, LoadEnds

\* The session with all its steps implements the store of ConfigStore: the flash is only
\* touched while no promise is made, and only what it holds is promised.
LEMMA StoreSteps ==
  ASSUME Inv, [Next]_vars
  PROVE  Store!Next \/ UNCHANGED <<flash, promised>>
<1> USE DEF Inv
<1>1. CASE Edit \/ Begins \/ Ends \/ Retry \/ CheckmarkFades
  BY <1>1, EditSteps, BeginSteps, EndSteps, RetrySteps DEF SameBoard, SameHistory
<1>2. CASE Asks \/ Answers \/ MonitorTab \/ OtherCommand
  BY <1>2, AskSteps, AnswerSteps, MonitorSteps DEF SameBoard, Harmless, SameHistory
<1>3. CASE LoadListCounted
  BY <1>3 DEF LoadListCounted, board
<1>4. CASE SaveSuspend \/ Puts
  BY <1>4, SuspendStep, PutSteps DEF Taken
<1>5. CASE SavePersist
  <2>1. Store!TakeBack
    BY <1>5, PersistStep DEF Taken, Store!TakeBack
  <2> QED
    BY <2>1 DEF Store!Next
<1>6. CASE SaveResume
  <2>1. flash' = flash
    BY <1>6, ResumeStep DEF Taken
  <2>2. CASE promised' = promised
    BY <2>1, <2>2
  <2>3. CASE promised' = shown /\ pos.code = "SUCCESS" /\ ~past.touched /\ ~past.half
    <3>1. flash = shown /\ shown \in Config
      BY <1>6, <2>3, PromiseIsStored DEF TypeOK
    <3>2. Store!Promise
      BY <2>1, <2>3, <3>1 DEF Store!Promise
    <3> QED
      BY <3>2 DEF Store!Next
  <2> QED
    BY <1>6, <2>2, <2>3, ResumeStep
<1>7. CASE MainLoop
  <2>1. CASE flash' = flash
    BY <1>7, <2>1, TurnOfMainLoop DEF TypeOK
  <2>2. CASE flash' # flash
    <3>1. fw.need_to_persist /\ flash' = Torn /\ promised' = promised
      BY <1>7, <2>2, TurnOfMainLoop DEF TypeOK
    <3>2. Store!Erase
      BY <3>1 DEF Flashing, Store!Erase
    <3> QED
      BY <3>2 DEF Store!Next
  <2> QED
    BY <2>1, <2>2
<1>8. CASE FinishWrite
  <2>1. writing /\ flash' = fw.memory /\ promised' = promised /\ fw.memory \in Config
    BY <1>8, FinishStep DEF TypeOK, Firmware
  <2>2. Store!Program
    BY <2>1 DEF Flashing, Store!Program
  <2> QED
    BY <2>2 DEF Store!Next
<1>9. CASE PowerOff \/ PowerOn \/ UNCHANGED vars
  BY <1>9, PowerSteps DEF vars, board, ghosts
<1> QED
  BY <1>1, <1>2, <1>3, <1>4, <1>5, <1>6, <1>7, <1>8, <1>9, StepKinds

THEOREM StoreIsImplemented == Spec => ImplementsStore
<1>1. Init => Store!Init
  BY DEF Init, Store!Init
<1>2. Inv /\ [Next]_vars => [Store!Next]_<<flash, promised>>
  BY StoreSteps
<1> QED
  BY <1>1, <1>2, Invariance, PTL DEF Spec, ImplementsStore, Store!Spec
=============================================================================
