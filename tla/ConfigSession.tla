---------------------------- MODULE ConfigSession ----------------------------
(***************************************************************************)
(* A session of the web configuration tool (code.js) with a device         *)
(* (config.cc, main.cc).  The tool speaks to the device in feature         *)
(* reports: a command is sent and, for some commands, an answer is read.   *)
(* Every `await' of a handler is a step here; between two of them the      *)
(* user goes on clicking (only open, load and save look at `busy'), the    *)
(* device's main loop goes on, and the device can lose its power, also     *)
(* while it writes its flash.                                              *)
(*                                                                         *)
(* A configuration is abstracted to its scalar part, written by            *)
(* SET_CONFIG, and named lists, each cleared and then written entry by     *)
(* entry (CLEAR_MAPPING and ADD_MAPPING, CLEAR_MACROS and APPEND_TO_MACRO, *)
(* and so on).                                                             *)
(***************************************************************************)
EXTENDS Integers, Sequences

CONSTANTS
  Scalars, Items,   \* values of the scalar part, entries of lists
  Sections,         \* names of the lists, in the order they are written and read
  Counted,          \* lists whose length GET_CONFIG tells; others are read to the end
  Files,            \* configurations in uploaded files and examples
  NewRows,          \* entries that add_mapping() appends to the first list
  NewScalars,       \* values the user may enter for the scalar part
  Blank, Defaults,  \* configuration of a fresh page, and of a fresh device
  Firmwares,        \* firmware the device may run, relative to what the tool knows
  Capacity,         \* entries that fit into the flash
  UserDoes,         \* what the user does, of "monitor", "other", "reload", "replace", "add", "set"
  MaxRows,          \* bound on a list, which rows added by hand and loads mixed up with
                    \* them or with a file make longer
  MaxAttempts,      \* attempts_left in read_config_feature()
  UsagePackets,     \* answers needed for the device's lists of usages
  Torn, None

ReturnCodes == {"UNKNOWN", "SUCCESS", "CONFIG_TOO_BIG"}
SectionNames == {Sections[i] : i \in 1..Len(Sections)}
Config == [scalars : Scalars, lists : [SectionNames -> Seq(Items)]]

ASSUME SectionsAssumption ==
  /\ Sections \in Seq(STRING) /\ Len(Sections) > 0
  /\ \A i, j \in 1..Len(Sections) : Sections[i] = Sections[j] => i = j
ASSUME ConfigsAssumption ==
  /\ Files \subseteq Config /\ {Blank, Defaults} \subseteq Config
  /\ NewRows \subseteq Items /\ NewScalars \subseteq Scalars
  /\ Torn \notin Config /\ None \notin Config
ASSUME BoundsAssumption ==
  /\ Firmwares \subseteq {"current", "older", "newer"}
  /\ MaxAttempts \in Nat \ {0} /\ UsagePackets \in Nat
  /\ Capacity \in Nat /\ MaxRows \in Nat

VARIABLES
  \* the tool
  device,           \* a device is held (device != null)
  enabled,          \* the buttons that need a device are enabled
  task,             \* which handler is busy: "none", "open", "load", "save"
  pos,              \* how far it is, see Position
  config,           \* the configuration the tool would save
  shown,            \* the configuration the page shows
  monitor_enabled, checkmark,
  error,            \* an error is displayed
  \* the device
  powered, firmware, flash, writing, fw,
  past,             \* what has happened, for the properties: see History
  promised          \* the configuration the user was last told to be saved

open_vars == <<device, enabled>>
page == <<config, shown, monitor_enabled>>
messages == <<checkmark, error>>
board == <<powered, firmware, flash, writing, fw>>
ghosts == <<past, promised>>
vars == <<open_vars, task, pos, page, messages, board, ghosts>>
-----------------------------------------------------------------------------
(* The firmware's side of a command, handle_set_report1() and              *)
(* handle_get_report1().                                                   *)

Boot(f) == [memory |-> IF f = Torn THEN Defaults ELSE f,
            suspended |-> FALSE, resume_pending |-> FALSE, config_updated |-> FALSE,
            derived |-> TRUE, last |-> "NO_ANSWER", asked |-> <<1, 0>>,
            need_to_persist |-> FALSE, return_code |-> "UNKNOWN", monitor |-> FALSE]

\* Of the last command only those are told apart that get an answer other than the
\* empty one; what they leave behind is looked at by their own answer only.
Heard(command) == [fw EXCEPT !.last = command, !.asked = <<1, 0>>, !.return_code = "UNKNOWN"]
Silent == Heard("NO_ANSWER")

SetConfig(s) == [Silent EXCEPT !.memory.scalars = s, !.derived = FALSE]
ClearList(n) == [Silent EXCEPT !.memory.lists[n] = << >>, !.derived = FALSE]
AddToList(n, x) ==
  [Silent EXCEPT !.memory.lists[n] = Append(@, x), !.derived = FALSE]
SuspendIgnored == Silent
Suspend == [Silent EXCEPT !.suspended = TRUE]
ResumeUnderived == [Silent EXCEPT !.resume_pending = TRUE]
Resume == [Silent EXCEPT !.resume_pending = TRUE, !.config_updated = TRUE]
PersistConfig ==
  [Heard("PERSIST_CONFIG") EXCEPT !.need_to_persist = TRUE]
SetMonitorEnabled(b) == [Silent EXCEPT !.monitor = b]
Get(s, i) == [Heard("GET_ITEM") EXCEPT !.asked = <<s, i>>]

\* command_version_ok(): a command of another version is only noted as invalid.
Understood(f) == IF firmware = "current" THEN f ELSE Heard("INVALID_COMMAND")

Questions == {"GET_CONFIG", "GET_USAGES", "GET_ITEM", "PERSIST_CONFIG", "INVALID_COMMAND"}

\* Other commands have no answer; PERSIST_CONFIG has none until it was carried out.
HasAnswer == /\ fw.last \in Questions
             /\ fw.last = "PERSIST_CONFIG" => fw.return_code # "UNKNOWN"

Answered == Silent

\* One turn of the main loop, after tud_task() has taken commands.
Persisting == fw.need_to_persist

TooBig(m) == \E n \in SectionNames : Len(m.lists[n]) > Capacity

MainLoop ==
  /\ powered /\ ~writing
  /\ fw.resume_pending \/ fw.config_updated \/ fw.need_to_persist
  /\ LET turned == [fw EXCEPT !.suspended = @ /\ ~fw.resume_pending,
                              !.resume_pending = FALSE,
                              !.derived = @ \/ fw.config_updated,
                              !.config_updated = FALSE]
     IN IF Persisting /\ TooBig(fw.memory)
        THEN /\ fw' = [turned EXCEPT !.need_to_persist = FALSE,
                                     !.return_code = "CONFIG_TOO_BIG"]
             /\ UNCHANGED <<flash, writing>>
        ELSE /\ fw' = turned
             /\ writing' = Persisting
             /\ flash' = IF Persisting THEN Torn ELSE flash
  /\ UNCHANGED <<open_vars, task, pos, page, messages, powered, firmware, ghosts>>

\* do_persist_config() returns; the processor did nothing else meanwhile.
FinishWrite ==
  /\ writing /\ writing' = FALSE
  /\ flash' = fw.memory
  /\ fw' = [fw EXCEPT !.need_to_persist = FALSE, !.return_code = "SUCCESS"]
  /\ UNCHANGED <<open_vars, task, pos, page, messages, powered, firmware, ghosts>>

\* Unplugging, a power failure, or RESET_INTO_BOOTSEL.  hid_on_disconnect() ignores
\* devices it does not hold.
PowerOff ==
  /\ powered /\ powered' = FALSE
  /\ writing' = FALSE
  /\ fw' = Boot(flash)
  /\ past' = [past EXCEPT !.whole = TRUE, !.interrupted = FALSE, !.hurried = FALSE]
  /\ device' = FALSE /\ enabled' = (enabled /\ ~device)
  /\ UNCHANGED <<task, pos, page, messages, firmware, flash, promised>>

PowerOn ==
  /\ ~powered /\ powered' = TRUE
  /\ fw' = Boot(flash)
  /\ UNCHANGED <<open_vars, task, pos, page, messages, firmware, flash, writing, ghosts>>
-----------------------------------------------------------------------------
(* Steps of a handler.                                                     *)

At(t, s) == task = t /\ pos.step = s

\* send_feature_command(): the device takes a command while it is not writing.
Send(f) == device /\ powered /\ ~writing /\ fw' = f
                  /\ UNCHANGED <<powered, firmware, flash, writing>>

\* ... and the handler goes on from p.
SendAndGo(f, p) == Send(f) /\ pos' = p /\ UNCHANGED <<open_vars, task, page, messages>>

\* read_config_feature() with an answer there; an empty one is retried by Retry.
Read == device /\ powered /\ ~writing /\ HasAnswer /\ fw' = Answered
               /\ UNCHANGED <<powered, firmware, flash, writing>>

\* The next call of read_config_feature() has all its attempts.
Fresh == [pos EXCEPT !.attempts_left = MaxAttempts]

Reading ==
  pos.step \in {"VERSION_READ", "USAGES_READ", "CONFIG_READ", "ITEM_READ", "PERSIST_READ"}

NoAnswer == Reading /\ device /\ powered /\ ~writing /\ ~HasAnswer

FewerNever(n) == n
Fewer(n) == n - 1

Retry ==
  /\ NoAnswer /\ pos.attempts_left > 1
  /\ pos' = [pos EXCEPT !.attempts_left = Fewer(@)]
  /\ UNCHANGED <<open_vars, task, page, messages, board, ghosts>>

\* A handler that is over keeps nothing.
Idle == [step |-> "", trying |-> 1, sec |-> 1, idx |-> 0, iterated |-> << >>, live |-> FALSE,
         count |-> [n \in SectionNames |-> 0], attempts_left |-> MaxAttempts,
         code |-> "UNKNOWN"]

Done == task' = "none" /\ pos' = Idle

\* An exception: the device is gone, or the attempts are used up.  In open_device()
\* `success' is true since the device was opened, and remains so.
Throw ==
  /\ task # "none"
  /\ ~device \/ (NoAnswer /\ pos.attempts_left <= 1)
  /\ Done /\ error' = TRUE
  /\ enabled' = (enabled \/ task = "open")
  /\ past' = [past EXCEPT
                !.half = @ \/ (task = "load" /\ pos.step \notin {"GET_CONFIG", "CONFIG_READ"}),
                !.interrupted = @ \/ (task = "save" /\ (fw.suspended \/ past.hurried))]
  /\ UNCHANGED <<device, page, checkmark, board, promised>>

\* What every handler does before its first await.
Begin(t, s) ==
  /\ task = "none" /\ task' = t /\ pos' = [pos EXCEPT !.step = s, !.trying = 1]
  /\ error' = FALSE
  /\ past' = [past EXCEPT !.touched = FALSE]
  /\ UNCHANGED <<enabled, page, board, promised>>
-----------------------------------------------------------------------------
(* open_device()                                                           *)

Versions == <<"current", "older">>   \* newest first, as far as the tool knows them

OpenDevice ==
  powered /\ Begin("open", "VERSION_SEND") /\ device' = TRUE /\ UNCHANGED checkmark

\* The user picks nothing, or the device does not open; one held before is dropped.
OpenCancelled ==
  /\ task = "none" /\ error' = FALSE
  /\ device' = FALSE /\ enabled' = FALSE
  /\ UNCHANGED <<task, pos, page, checkmark, board, ghosts>>

VersionSend ==
  /\ At("open", "VERSION_SEND")
  /\ SendAndGo(Heard(IF Versions[pos.trying] = firmware THEN "GET_CONFIG" ELSE "INVALID_COMMAND"),
               [pos EXCEPT !.step = "VERSION_READ"])
  /\ UNCHANGED ghosts

Reject == device' = FALSE /\ enabled' = FALSE /\ error' = TRUE

\* An invalid command is answered by bytes 0xFF.
VersionRead ==
  /\ At("open", "VERSION_READ") /\ Read
  /\ LET found == fw.last = "GET_CONFIG"
     IN \/ /\ found /\ Versions[pos.trying] = "current"
           /\ pos' = [Fresh EXCEPT !.step = "MONITOR"] /\ UNCHANGED <<open_vars, task, error>>
        \/ /\ ~found /\ pos.trying < Len(Versions)
           /\ pos' = [Fresh EXCEPT !.step = "VERSION_SEND", !.trying = @ + 1]
           /\ UNCHANGED <<open_vars, task, error>>
        \/ /\ IF found THEN Versions[pos.trying] # "current" ELSE pos.trying = Len(Versions)
           /\ Done /\ Reject
  /\ UNCHANGED <<page, checkmark, ghosts>>

OpenMonitor ==
  /\ At("open", "MONITOR")
  /\ SendAndGo(SetMonitorEnabled(monitor_enabled),
               [pos EXCEPT !.step = "USAGES_SEND", !.idx = 0])
  /\ UNCHANGED ghosts

\* get_usages_from_device(): GET_CONFIG, then packets of usages.
UsagesSend ==
  /\ At("open", "USAGES_SEND")
  /\ SendAndGo(Heard(IF pos.idx = 0 THEN "GET_CONFIG" ELSE "GET_USAGES"),
               [pos EXCEPT !.step = "USAGES_READ"])
  /\ UNCHANGED ghosts

UsagesRead ==
  /\ At("open", "USAGES_READ") /\ Read
  /\ IF pos.idx < UsagePackets
     THEN /\ pos' = [Fresh EXCEPT !.step = "USAGES_SEND", !.idx = @ + 1]
          /\ UNCHANGED <<enabled, task>>
     ELSE Done /\ enabled' = TRUE
  /\ UNCHANGED <<device, page, messages, ghosts>>
-----------------------------------------------------------------------------
(* load_from_device()                                                      *)

LoadStart == device /\ Begin("load", "GET_CONFIG") /\ UNCHANGED <<device, checkmark>>

LoadSend ==
  /\ At("load", "GET_CONFIG")
  /\ SendAndGo(Heard("GET_CONFIG"), [pos EXCEPT !.step = "CONFIG_READ"])
  /\ UNCHANGED ghosts

\* Each list of config is emptied when its turn comes, the first one here.
LoadConfig ==
  /\ At("load", "CONFIG_READ") /\ Read
  /\ pos' = [Fresh EXCEPT !.step = "LISTS", !.sec = 1, !.idx = 0,
                          !.count = [n \in SectionNames |-> Len(fw.memory.lists[n])]]
  /\ config' = [config EXCEPT !.scalars = fw.memory.scalars, !.lists[Sections[1]] = << >>]
  /\ UNCHANGED <<open_vars, task, shown, monitor_enabled, messages, ghosts>>

\* The loop over a counted list ends by itself, any other at the answer that says so.
CountReachedEarly == /\ At("load", "LISTS") /\ Sections[pos.sec] \in Counted
                     /\ pos.idx + 1 >= pos.count[Sections[pos.sec]]
CountReached == /\ At("load", "LISTS") /\ Sections[pos.sec] \in Counted
                /\ pos.idx >= pos.count[Sections[pos.sec]]

LoadAsk ==
  /\ At("load", "LISTS") /\ ~CountReached
  /\ SendAndGo(Get(pos.sec, pos.idx), [pos EXCEPT !.step = "ITEM_READ"])
  /\ UNCHANGED ghosts

Item == LET l == fw.memory.lists[Sections[fw.asked[1]]]
            i == fw.asked[2]
        IN IF i < Len(l) THEN <<l[i + 1]>> ELSE << >>

Show == shown' = config

\* The list is complete: empty the next one, or show what was read, set_ui_state().
AfterList ==
  IF pos.sec < Len(Sections)
  THEN /\ pos' = [Fresh EXCEPT !.step = "LISTS", !.sec = @ + 1, !.idx = 0]
       /\ config' = [config EXCEPT !.lists[Sections[pos.sec + 1]] = << >>]
       /\ UNCHANGED <<task, shown, past>>
  ELSE /\ Done /\ Show /\ past' = [past EXCEPT !.half = FALSE]
       /\ UNCHANGED config

LoadItem ==
  /\ At("load", "ITEM_READ") /\ Read
  /\ IF Item = << >>
     THEN AfterList
     ELSE /\ config' = [config EXCEPT !.lists[Sections[pos.sec]] = @ \o Item]
          /\ pos' = [Fresh EXCEPT !.step = "LISTS", !.idx = @ + 1]
          /\ UNCHANGED <<task, shown, past>>
  /\ UNCHANGED <<open_vars, monitor_enabled, messages, promised>>

\* Without an await: nothing else in the tool can happen before it, see UserMayAct.
LoadListCounted ==
  /\ CountReached /\ AfterList
  /\ UNCHANGED <<open_vars, monitor_enabled, messages, board, promised>>
-----------------------------------------------------------------------------
(* save_to_device()                                                        *)

SaveStart ==
  device /\ Begin("save", "SUSPEND") /\ checkmark' = FALSE /\ UNCHANGED device

SaveSuspend ==
  /\ At("save", "SUSPEND") /\ SendAndGo(Suspend, [pos EXCEPT !.step = "SET_CONFIG"])
  /\ past' = [past EXCEPT !.hurried = @ \/ fw.resume_pending] /\ UNCHANGED promised

SaveScalars ==
  /\ At("save", "SET_CONFIG")
  /\ SendAndGo(SetConfig(config.scalars),
               [pos EXCEPT !.step = "LISTS", !.sec = 0, !.idx = 0,
                           !.iterated = << >>, !.live = FALSE])
  /\ past' = [past EXCEPT !.whole = FALSE] /\ UNCHANGED promised

ListSent == At("save", "LISTS") /\ pos.idx >= Len(pos.iterated)

\* `for (const mapping of config["mappings"])' takes the array once.
SaveClear ==
  /\ ListSent /\ pos.sec < Len(Sections)
  /\ LET n == Sections[pos.sec + 1]
     IN SendAndGo(ClearList(n),
                  [pos EXCEPT !.sec = @ + 1, !.idx = 0, !.iterated = config.lists[n],
                              !.live = TRUE])
  /\ UNCHANGED ghosts

SaveItem ==
  /\ At("save", "LISTS") /\ ~ListSent
  /\ SendAndGo(AddToList(Sections[pos.sec], pos.iterated[pos.idx + 1]),
               [pos EXCEPT !.idx = @ + 1])
  /\ UNCHANGED ghosts

SavePersist ==
  /\ ListSent /\ pos.sec = Len(Sections)
  /\ SendAndGo(PersistConfig, [pos EXCEPT !.step = "PERSIST_READ"])
  /\ promised' = None /\ UNCHANGED past

SaveRead ==
  /\ At("save", "PERSIST_READ") /\ Read
  /\ pos' = [Fresh EXCEPT !.step = "RESUME", !.code = fw.return_code]
  /\ UNCHANGED <<open_vars, task, page, messages, ghosts>>

SavedAnyway == TRUE
Saved == pos.code = "SUCCESS"

\* Saved as the user saw it, unless it was edited meanwhile or not what is shown.
SaveResume ==
  /\ At("save", "RESUME") /\ Send(Resume) /\ Done
  /\ IF Saved
     THEN /\ checkmark' = TRUE /\ UNCHANGED error
          /\ promised' = IF past.touched \/ past.half THEN promised ELSE shown
     ELSE error' = TRUE /\ UNCHANGED <<checkmark, promised>>
  /\ past' = [past EXCEPT !.whole = TRUE, !.hurried = FALSE, !.interrupted = FALSE]
  /\ UNCHANGED <<open_vars, page>>

\* The timer set with the checkmark; a save that starts meanwhile stops it.
CheckmarkFades ==
  /\ checkmark /\ checkmark' = FALSE
  /\ UNCHANGED <<open_vars, task, pos, page, error, board, ghosts>>
-----------------------------------------------------------------------------
(* The user.  JavaScript runs each handler up to its next await.           *)

UserMayAct == ~CountReached

Touched == past.touched \/ task \in {"load", "save"}

TellMonitor == device

\* monitor_tab_shown(), monitor_tab_hide(): no look at `busy'.
MonitorTab ==
  /\ UserMayAct /\ "monitor" \in UserDoes
  /\ monitor_enabled' = ~monitor_enabled
  /\ IF TellMonitor THEN Send(Understood(SetMonitorEnabled(~monitor_enabled))) ELSE UNCHANGED board
  /\ UNCHANGED <<open_vars, task, pos, config, shown, messages, ghosts>>

\* pair_new_device(), clear_bonds(), flash_b_side(): neither do these.
OtherCommand ==
  /\ UserMayAct /\ "other" \in UserDoes /\ enabled
  /\ Send(Understood(Silent))
  /\ UNCHANGED <<open_vars, task, pos, page, messages, ghosts>>

\* What the rest of a load can add to c remains within MaxRows.
Bounded(c) ==
  \A n \in SectionNames :
    Len(c.lists[n]) + (IF task = "load" THEN Len(fw.memory.lists[n]) ELSE 0) =< MaxRows

\* file_uploaded() and load_example() replace config and show it, at any time.
Replace(c) ==
  /\ UserMayAct /\ "replace" \in UserDoes
  /\ config' = c /\ shown' = c /\ Bounded(config')
  /\ past' = [past EXCEPT !.half = FALSE, !.touched = Touched]
  /\ pos' = [pos EXCEPT !.live = FALSE]
  /\ UNCHANGED <<open_vars, task, monitor_enabled, messages, board, promised>>

\* add_empty_mapping(): pushes into the array, which save may be walking.
AddRow(x) ==
  /\ UserMayAct /\ "add" \in UserDoes
  /\ config' = [config EXCEPT !.lists[Sections[1]] = Append(@, x)]
  /\ shown' = [shown EXCEPT !.lists[Sections[1]] = Append(@, x)]
  /\ Bounded(config') /\ Bounded(shown')
  /\ pos' = IF At("save", "LISTS") /\ pos.sec = 1 /\ pos.live
            THEN [pos EXCEPT !.iterated = Append(@, x)] ELSE pos
  /\ past' = [past EXCEPT !.touched = Touched]
  /\ UNCHANGED <<open_vars, task, monitor_enabled, messages, board, promised>>

\* The onchange handlers of the settings tab.
SetScalar(s) ==
  /\ UserMayAct /\ "set" \in UserDoes
  /\ config' = [config EXCEPT !.scalars = s] /\ shown' = [shown EXCEPT !.scalars = s]
  /\ past' = [past EXCEPT !.touched = Touched]
  /\ UNCHANGED <<open_vars, task, pos, monitor_enabled, messages, board, promised>>

\* The page is closed, whatever it is doing, and opened anew.
Reload ==
  /\ "reload" \in UserDoes
  /\ device' = FALSE /\ enabled' = FALSE /\ Done
  /\ config' = Blank /\ shown' = Blank /\ monitor_enabled' = FALSE
  /\ checkmark' = FALSE /\ error' = FALSE
  /\ past' = [past EXCEPT !.touched = FALSE, !.half = FALSE,
                          !.interrupted = @ \/ (task = "save" /\ (fw.suspended \/ past.hurried))]
  /\ UNCHANGED <<board, promised>>
-----------------------------------------------------------------------------
Init ==
  /\ device = FALSE /\ enabled = FALSE /\ task = "none"
  /\ pos = Idle
  /\ config = Blank /\ shown = Blank /\ monitor_enabled = FALSE
  /\ checkmark = FALSE /\ error = FALSE
  /\ powered = FALSE /\ firmware \in Firmwares
  /\ flash = Torn /\ writing = FALSE /\ fw = Boot(flash)
  /\ past = [touched |-> FALSE, half |-> FALSE, hurried |-> FALSE,
             whole |-> TRUE, interrupted |-> FALSE]
  /\ promised = None

Open == OpenDevice \/ OpenCancelled \/ VersionSend \/ VersionRead \/ OpenMonitor
        \/ UsagesSend \/ UsagesRead
Load == LoadStart \/ LoadSend \/ LoadConfig \/ LoadAsk \/ LoadItem \/ LoadListCounted
Save == SaveStart \/ SaveSuspend \/ SaveScalars \/ SaveClear \/ SaveItem \/ SavePersist
        \/ SaveRead \/ SaveResume \/ CheckmarkFades
User == \/ MonitorTab \/ OtherCommand \/ Reload
        \/ \E c \in Files : Replace(c)
        \/ \E x \in NewRows : AddRow(x)
        \/ \E s \in NewScalars : SetScalar(s)
Board == MainLoop \/ FinishWrite \/ PowerOff \/ PowerOn

Next == Open \/ Load \/ Save \/ Retry \/ Throw \/ User \/ Board

Spec == Init /\ [][Next]_vars
-----------------------------------------------------------------------------
(* Properties.                                                             *)

Position ==
  [step : {"", "VERSION_SEND", "VERSION_READ", "MONITOR", "USAGES_SEND", "USAGES_READ",
           "GET_CONFIG", "CONFIG_READ", "LISTS", "ITEM_READ",
           "SUSPEND", "SET_CONFIG", "PERSIST_READ", "RESUME"},  \* the await it stands at
   trying : {1, 2},                    \* position in Versions, check_device_version()
   sec : 0..Len(Sections), idx : Nat,  \* the list being transferred, entries of it done
   iterated : Seq(Items),              \* the array the save loop walks ...
   live : BOOLEAN,                     \* ... and whether it is still the one in config
   count : [SectionNames -> Nat],      \* lengths told by GET_CONFIG
   attempts_left : 1..MaxAttempts,
   code : ReturnCodes]                 \* the answer to PERSIST_CONFIG

History ==
  [touched : BOOLEAN,      \* config was edited while the present handler was busy
   half : BOOLEAN,         \* a load failed midway and config has been only half read since
   hurried : BOOLEAN,      \* SUSPEND was handled before the preceding RESUME took effect
   whole : BOOLEAN,        \* memory holds a configuration written to the end
   interrupted : BOOLEAN]  \* a save ended without RESUME

Firmware == [memory : Config, suspended : BOOLEAN, resume_pending : BOOLEAN,
             config_updated : BOOLEAN, derived : BOOLEAN,
             last : Questions \cup {"NO_ANSWER"},
             asked : Nat \X Nat, need_to_persist : BOOLEAN,
             return_code : ReturnCodes, monitor : BOOLEAN]

TypeOK ==
  /\ {device, enabled, monitor_enabled, checkmark, error, powered, writing} \subseteq BOOLEAN
  /\ task \in {"none", "open", "load", "save"}
  /\ pos \in Position
  /\ config \in Config /\ shown \in Config
  /\ firmware \in Firmwares
  /\ flash \in Config \cup {Torn} /\ promised \in Config \cup {None}
  /\ fw \in Firmware
  /\ past \in History

Store == INSTANCE ConfigStore WITH stored <- flash

\* Saving implements the store: the promise is taken back before the flash is touched.
ImplementsStore == Store!Spec

\* While frames run (process_mapping() is not suspended), memory holds a configuration
\* that was written to its end.  Exempt: a SUSPEND handled in the same turn as the
\* RESUME before it, which that RESUME then undoes.
FramesRunWholeConfigs == powered /\ ~fw.suspended /\ ~past.hurried => past.whole

\* A load that reports no error has read what the device has, and shows it.
LoadIsFaithful ==
  [][task = "load" /\ task' = "none" /\ device' /\ ~error' /\ ~past.touched'
       => config' = fw.memory /\ shown' = config']_vars

\* No handler stays busy for ever, and buttons with it.
BusyEnds == task # "none" ~> task = "none"

\* A configuration told to be saved runs: frames go on, with mappings derived from it,
\* unless the power goes, the next save begins or one that failed stopped the frames.
SavedConfigRuns ==
  promised # None /\ task = "none" ~>
    \/ ~fw.suspended /\ fw.derived
    \/ ~powered \/ task = "save" \/ past.interrupted

Fairness == /\ WF_vars(MainLoop) /\ WF_vars(FinishWrite)
            /\ WF_vars(Retry) /\ WF_vars(Throw)
            /\ WF_vars(VersionSend \/ VersionRead \/ OpenMonitor \/ UsagesSend \/ UsagesRead)
            /\ WF_vars(LoadSend \/ LoadConfig \/ LoadAsk \/ LoadItem \/ LoadListCounted)
            /\ WF_vars(SaveSuspend \/ SaveScalars \/ SaveClear \/ SaveItem \/ SavePersist
                       \/ SaveRead \/ SaveResume)

FairSpec == Spec /\ Fairness
==============================================================================
