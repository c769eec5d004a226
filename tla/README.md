# HID Remapper: a verification project

HID Remapper is firmware for a small board that sits between USB (or Bluetooth)
input devices and a host. It parses what the attached devices report, applies a
user's mapping (layers, sticky inputs, taps and holds, macros, expressions) and
reports the result to the host as one emulated device. A configuration tool talks
to it over HID feature reports while it runs.

This directory holds TLA+ models of the firmware's core, of the web configuration
tool and of the example configurations the tool ships, the TLC runs that check
them on small instances, and TLAPS proofs of their main safety properties for all
values of the constants. `PROJECT.json` lists components, runs, the source lines
each definition stands for, the mutations every property was tested against, the
hazards, and the theorems.

Contents: [1 Inventory](#1-inventory) · [2 Modules](#2-modules) ·
[3 Runs and bounds](#3-runs-and-bounds) · [4 Fairness](#4-fairness) ·
[5 Proofs](#5-proofs) · [6 Findings](#6-findings) ·
[7 Not modelled](#7-what-is-left-out-and-why) · [8 Plan](#8-plan)

Paths below are relative to `src/firmware/src/` unless they say otherwise.

## 1 Inventory

### How the firmware runs

`main()` (main.cc) is one endless loop on one core. An interrupt sets `tick_pending` every
millisecond: a repeating timer on a single board (remapper_single.cc), the host's
start-of-frame in the dual and serial variants. Everything else happens in the loop, in this
order: handle reports received from attached devices (`read_report()`); rebuild tables if a
device came or went; run `process_mapping()` once if a tick is due (**a frame**); let the USB
device stack run (`tud_task()`, which calls back into the configuration protocol); do what
those callbacks only noted down (a change of protocol, `resume_pending`, `config_updated`);
send one queued report to the host if it is ready (`send_report()`); run the emulated
controller's own task; send a report to an attached device (`send_out_report()`); write the
configuration to flash if asked to. Concurrency is therefore about the order of
these parts and what comes in between: a tick is coalesced when the loop is busy, several
reports come between two frames or none, the host polls slower than frames are made,
commands of the configuration tool interrupt anything *between* two parts but nothing
*within* one. Interrupts matter in the Bluetooth variant, where Zephyr's work items and callbacks replace
the loop.

The web configuration tool (src/config-tool-web/code.js) is a page of event handlers in a
browser. A handler runs undisturbed up to its next `await`; there, other handlers and the device's main
loop go on. It keeps the configuration as one object, `config`, and shows it as elements of
the page, from which parts of `config` are made again when they are edited.

### Components

| Component (source) | State it keeps | Operations | Hard part | What makes it right |
|---|---|---|---|---|
| **Report rings** (remapper.cc, out_report.cc) | slots, head, tail, items | enqueue, amend the newest, dequeue, refuse when full | index wrap, the newest entry relative to a wrapping tail | it is a FIFO queue |
| **Outgoing reports** (remapper.cc, second half of `process_mapping()`, `send_report()`) | reports under construction, `prev_reports`, accumulators, the queue, `suspended` | overlay, loop over `report_ids`, aggregate, overflow, send, SUSPEND, RESUME | queue full in the middle of a frame; aggregation; a report taken off the queue but not delivered | host and firmware agree once the queue has drained; no change dropped, no movement lost |
| **Taps, holds, sticky inputs, layers** (remapper.cc, first half of `process_mapping()`, `set_mapping_from_config()`) | `tap_hold_state`, `sticky_state`, `layer_state_mask`, `prev_input_state` | frame, RESUME, protocol switch | three loops that toggle the same bits and one that clears them; reconfiguration with keys held | sticky state and layers agree; triggers do what they say, once |
| **Input state and hot-plug** (remapper.cc `handle_received_report()`, descriptor_parser.cc) | bit per interface and usage, interface indices, hub ports, derived tables | report, mount, unplug, rebuild tables, remap | two devices holding one key, 32 indices, one key as bit and in an array, tables older than the device | a device's bit tells what that device holds |
| **PS4 authentication relay** (ps_auth.cc, out_report.cc) | `state`, `busy`, parts sent and received, buffers | console's GET/SET reports, `ps4_main_loop_task()`, answers, plugging | console starts over while requests are in flight; queue shared with other devices | one request at a time; the signature is that of the challenge |
| **Reports to attached devices** (out_report.cc) | ring, `ready_to_send`, report under way | queue, send, completion | device gone during a transfer | see relay |
| **Configuration protocol and persistence** (config.cc, main.cc) | config lists, last command, `suspended`, `need_to_persist_config`, flash | ~25 commands by SET/GET feature report, load, persist | chunked transfers, retried answers, SUSPEND/RESUME handled late, a write cut off | what is read back is what was written; a write never runs beside a frame |
| **Mapping evaluation** (remapper.cc) | derived tables, registers, accumulators, input states of two frames | a frame from inputs to outputs; deriving the tables | order of the parts of a frame; state made of sticky inputs, registers, rounding; what an input passes through as on which layer | the example configurations do what their descriptions say |
| **Expressions** (remapper.cc `is_expr_valid()`, `eval_expr()`) | stack of 16, registers, port register, pointers kept by elements | write, check, evaluate | the check must cover the evaluator, which has no bounds; pointers into tables that are made anew | valid expressions never leave the stack; no stale pointer |
| **Macros** (remapper.cc) | `macro_queue` | trigger, type an entry, pop | an entry is held until the outgoing queue is empty | every entry is seen, in order, and a macro ends |
| **GPIO** (main.cc) | levels, last changes, directions, output mode | `read_gpio()`, `write_gpio()`, set directions | bounce; directions changed late | a level that lasts is taken; no input is driven |
| **Dual variant** (remapper_dual_a.cc, _b.cc, serial.cc, dual.h) | buffers, escape state | framed messages with checksum, drop or wait when full | both sides waiting; restart in the middle of a message | only whole messages, in order; nobody waits for ever |
| **Serial mouse** (remapper_serial.cc) | `byte_number`, buttons | one byte | a byte lost or too many; a button known only by what is not said | packets are found again |
| **Bluetooth variant** (src/firmware-bluetooth/src/main.cc) | message queues, connection flags | scanning, notifications, work items | separate queues for connects and reports, shared flags | no report under another connection's index |
| **Xbox driver** (xbox.cc), **monitor**, **MIDI** (remapper.cc) | small state machines | setup stages, double buffer | a lost completion | stages are reached |
| **Descriptor parser, quirks, emulated descriptors** | tables | parse, patch | data transformation | little control, except index assignment (above) |
| **Web configuration tool** (src/config-tool-web/code.js) | `device`, `busy`, `config`, the page, an open dialog | open, load, save, upload, edit rows, macros, expressions, choose usages | every `await`; page and `config` are two copies; answers that are taken away; objects replaced under a dialog | the page shows what would be saved; what is said to be saved is |
| **Examples** (src/config-tool-web/examples.js) | — | forty configurations, some of them programs of expressions and registers | order and coincidence of presses, rounding, counting | they do what they are called |
| **Command line tools, RadMapper, ScrollCapture, flashing, ADC, digital pots, LED** | — | scripts without anybody to interrupt them, one-shot flashing, thin drivers | — | out of scope |

Interactions: devices → input state → (frame: taps, sticky, layers → mapping → reports
under construction → ring) → host; the configuration tool → `suspended`, configuration, then
`set_mapping_from_config()`, which resets input state, sticky state and tap/hold state in
one go; the page → `config` → feature reports in chunks → `config_mappings`, macros and
expressions in memory → flash; chip B → serial link → chip A; console → relay → ring of output reports → signing device → relay → console.

The hazards in `PROJECT.json` name the line at which each of these can go wrong, the
properties that watch it, and why those without a property have none yet.

## 2 Modules

Each module's comments name the functions it models; `PROJECT.json` maps every definition
to its lines. History variables (marked as such where declared) are read by no action's
guard. Definitions marked *Mutant* are plausible errors, used to see that the properties
would notice them; no specification refers to them.

**Fifo** is the abstract specification of a bounded first-in first-out queue whose newest
entry may be amended. **Ring** is the code's array with head, tail and item count; its refinement
mapping `Waiting` reads the entries from head. **ReportPath** puts this array under OutgoingReports, which
has the queue as a sequence: every step does to the slots and counters what `process_mapping()` and `send_report()`
do, and `RingIsTheQueue` says that the two stay the same. AuthRelay uses the sequence for the other ring.

**OutgoingReports** is everything from the mapped inputs to the host. `BeginFrame` overlays inputs on
the reports under construction and puts whole steps of accumulated movement into relative
fields; `QueueReport` is one turn of the loop over `report_ids` with its four outcomes
(`Skip`, `Overflow`, `Aggregate`, `Enqueue`); `SendReport` is `send_report()` with the three
things that can become of a report after it has left the queue; `Suspend`, `Resume`,
`SelectDescriptor` are the configuration commands. The loop is single-stepped so that
*overflow in the middle* is visible, but nothing else runs while `cursor # 0`, as in the
code. A report is abstracted to the set of its controls that are on and one signed relative
field of a given width, with the wrap of `put_bits()`. `view` is what the host has, `lost`
marks reports of which the newest version was dropped by USB, `owed` counts movement.

**LayerEngine** is the first half of a frame. A configuration is a sequence of mappings;
`Effective`, `PlainMask`, `TapMask`, `HoldMask`, `TapHold` are what
`set_mapping_from_config()` derives. Masks have `LayerBits` layers (8 in the code), of which only those below `NLAYERS` (4 in
remapper.cc) make a momentary trigger present on its own layer. `BeginFrame` is the tap/hold loop and the three
sticky loops, `Apply` one turn of the loop over layer mappings (`ApplyMomentary`,
`ApplySticky`), `EndFrame` the default layer and `prev_input`. `Resume` and
`SwitchProtocol` differ in exactly what the code does: only the former resets layers.

**InputState** is hot-plug and the effect of reports of buttons and keys on the any-port
state (`input_state_0`, a bit per interface) and per-port states (`input_state_n`).
`FreeIndex` is `assign_interface_index()`. `Report` does the clear, read, read order of
`do_handle_received_report()`; `ReportIgnored` is a rollover or a report before its tables.

**AuthRelay** is console, relay, shared queue, USB transfer and signing device. `SendPart`,
`SeeReady`, `ReadPart`, `StartExchange` are the console's requests as
`ps4_handle_get_report()`/`set_report()` see them; `MainLoopTask` the relay's four states;
`SendOutReport` and `Complete` the transfer; `QueueOutput` another user of the queue;
`Sign`, `Plug`, `Unplug` the devices. `disturbed` marks an exchange that was started over
another one or lost its device, `failed` a refused request or a transfer cut off: the code
recovers from neither, and the properties that depend on it say so.

**MappingEvaluation** is the whole of `process_mapping()` in one step: taps and holds, sticky inputs
and layers as in LayerEngine, then expressions with registers, relative and binary targets, and the
outputs, under the `Tables` that `set_mapping_from_config()` derives (`ReverseMapping`, `MappedOn`, `PassedOn`).
`ReceiveInput` is a report; `SetMapping`, `Resume`, `SwitchProtocol` put a configuration into force.
**Configurations** is the notation for configurations and expressions, **Examples** those of examples.js, by
their descriptions, with the lines they come from in the map. **MCExamples** picks the inputs of each example and states what its description
promises.

**Expressions** is one expression being written, checked and evaluated, one element a step. `Taken` and `Put` are
what `eval_expr()` does to the stack, `Required`, `Change` and `NeedsRoom` what `is_expr_valid()`
believes it does, each from its own function, for all 55 operations. `Slot`s are input states,
`pointers` what elements keep of them.

**Macros** is the queue of entries against the queue of reports, with keys of other mappings and movement
competing. `Trigger` and `TriggerTwo` are frames that trigger macros, `Idle` one that does not. `keys_first` is the order of the
two reports in `report_ids`, which comes out of an `unordered_map`: either, and the same ever after. `display` is a history: what
the host has to see of macros, one set of keys after the other, the present one first. Reports that repeat the one before are nothing to see, so
neither are equal entries in a row; a report without keys of macros between two macros is, when the queue of entries is empty.

**ConfigSession** is the web tool and the device in one session: every `await` of
`open_device()`, `load_from_device()` and `save_to_device()` is a step, `read_config_feature()`'s attempts are
`Retry` and `Throw`, the firmware's handlers of commands are functions on `fw`, `MainLoop` is the part of the main
loop that acts on what they noted, and the flash is torn from the start of a write to its end. The user
replaces, edits, switches tabs, reloads the page; the power goes at any moment. A configuration is its
scalar part and lists of entries. **ConfigStore** is what saving promises, and ConfigSession refines it.
**ChunkTransfer** is how one list of macros or expressions really travels: cut by the tool at six items or 24 bytes,
put together by `handle_set_report1()`, cut by `handle_get_report1()` at six items or 27 bytes, put together by the
tool.

**MappingsPage**, **MacrosPage** and **ExpressionsPage** are the three tabs of the web tool. In the first, mappings are objects with
an identity and rows and the dialog hold on to them; in the second, `config` is made from the page by some handlers; in the third, texts in
two notations are converted into each other with rounding to thousandths, and what is uploaded or loaded is validated (`Validated`) as if it
had been typed.

**Gpio** has a pin's circuit, direction and levels; `Tick` is `read_gpio()` and `write_gpio()` as the main loop
calls them. **SerialMouse** is the decoder, with a mouse on a line that may lose any byte, and with or without a fourth byte behind each packet.

**DualLink** is `serial_write()` and `serial_read()` of both chips, byte by byte. A message on its way is a frame, with an id that
tells equal messages apart; what is in a buffer or on the line is a sequence of places of frames, of which `Byte` is what
`send_escaped_byte()` makes. `Write`, `PutByte` and `Pump` are the writing side, `ReadByte` a turn of the loop in `serial_read()`, with an
ideal checksum. Either chip may restart at any moment: `Restart` cuts off what it had to say, `Miss` loses what comes before
it runs again at `Boot`. The histories `atRisk` and `spoilt` mark the messages a restart has cut in two, and the one behind a cut in the
middle of an escape.

`MC*` modules give constants values; `*_proofs` hold the theorems. Two modules put parts side by side that share no
state, so that one run serves several: **Pages** (the three tabs and ChunkTransfer) and **MCPeripherals** (Gpio, Macros,
DualLink, SerialMouse). The part at work is chosen in the initial state and the others stay as they are: the behaviours
are those of each part alone.

## 3 Runs and bounds

| Run | Question | Instance |
|---|---|---|
| `report_path` | Does the host converge, is no change or movement lost, is the ring a queue, and does a press get through a queue that stays full? `PrevIsWhatHostWillSee`, `MovementIsConserved`, `ChangesAreQueued`, `ImplementsFifo`, `PressReachesHost`, `HostCatchesUp` | 2 reports, the one with movement first in `report_ids` and a keyboard's second, 1 control, queue of 2 in a ring of 2, fields of 2 bits, movements of −3 with 2 fractions per step |
| `layers` | Do layers, sticky state and triggers agree, and does a layer go off when all is released? `StickyLayersAreActive`, `MomentaryLayerHolds`, `LayersTurnOnByTrigger`, `TapNeverFollowsHold`, `NoLayerIsLeftOn` | 2 inputs, masks of 3 layers of which 2 are below `NLAYERS`, threshold of 2 ticks; pairs of triggers of the 5 kinds in both orders, and 5 configurations chosen to interact |
| `auth_relay` | Does the console get the signature of its challenge? `OneRequestAtATime`, `SignatureIsOfChallenge`, `ChallengeIsSigned` | a signing pad and a keyboard, 2 challenges, 2 nonce parts, 2 signature parts, queue of 1 |
| `session` | Is what is said to be saved saved, whatever is interrupted? `FramesRunWholeConfigs`, `ImplementsStore`, `LoadIsFaithful` | two lists, one counted and one read to its end; a blank page, one file with an entry in each list, rows and settings edited; power failures and reloads at any moment |
| `session_live` | Does every handler end? `BusyEnds`, `SavedConfigRuns` | one list, two attempts, three firmware versions, monitor commands that take answers away |
| `inputs` | Does one device disturb another's keys? Is the static check of expressions safe and exact, and are the pointers they keep to input states current? `BitsAreNotShared`, `BitTellsHeldInputs`, `StuckOnlyByUnplugging`, `StackStaysInBounds`, `CheckIsExact`, `PointersAreCurrent` | 2 devices, 3 interfaces, 2 ports, 1 usage reported as bit, in an array, and both ways; all pairs of the 55 operations on a stack of every height up to 4; programs of up to 3 elements written while frames run, one slot for two usages |
| `examples` | Do the examples do what their descriptions say? `OutIsTheImage`, `LocksByGesture`, `OppositesAreResolved`, `TextIsTypedOnce`, `MovementIsKept`, `SpeedsAreAsSet`, `PressesAreEarned` | each example as shipped, with the inputs that matter to it; time modulo what its expressions look at |
| `examples_upper_layer` | Is the key of a sticky trigger mapped on layers above 3? (it is not) `TriggersAreMapped` | ROT13 on layer 4 |
| `layers_upper` | Does a momentary trigger hold its layer from `NLAYERS` on, too? (it does not) `EveryMomentaryLayerHolds` | as `layers` |
| `pages` | Do the tabs show what would be saved, and comes back what was sent? `TabsShowConfig`, `ReadsBackWhatWasSent`, `LateChoicesAreHarmless` | up to two mappings; two macros of up to two entries; two expressions with numbers that round up, down and to nothing; for the transfer, macros of up to three entries of 0, 5 or 6 usages and expressions of up to 15 elements in runs of narrow and wide ones, so that packets of six items, 24 and 27 bytes are met exactly and missed by a little |
| `peripherals` | Pins, macros, link, serial mouse: `SteadyLevelIsTaken`, `EntriesAreTypedInOrder`, `MacrosEnd`, `LossesOnlyByRestart`, `WholePacketsAreUnderstood` | one pin, debounce of 2; two macros, one of one entry and one of two equal ones and a pause, entries of one frame or two, queue of 2, either report first; messages of two bytes, one of them to be escaped, buffer of 5 bytes, line of 1, one restart of either chip; packets of four bytes, any of them lost |
| `serial_mouse_guard` | Are bytes outside of packets skipped? (they are not) `ReportsStartWithFirstByte` | the decoder is finite |

Why these bounds reach the interesting cases:

* *Outgoing reports.* Two reports in a queue of two: a frame can overflow at the first or at
  the second report, and aggregate into the newest entry while an older one of the same id waits.
  Two-bit fields wrap after two steps; movements of −3 over 2 fractions leave remainders, and C's division differs
  from the mathematical one on them. One control is enough to tell reports with different absolute parts. A ring of two has
  every combination of head and count.
* *Layers.* Interaction needs a trigger that is present on a layer another one switches;
  three layers allow a trigger on the base layer, one on the layer switched to, and a third
  layer they share, which is beyond `NLAYERS`. A threshold of 2 with 1 to 3 ticks per frame gives releases before, on and
  after the threshold, and ticks that are coalesced across it.
* *Macros.* In a queue of two either report can take the last place before the other overflows. A macro of one entry can follow
  itself, and equal entries are in one macro and where it follows itself with a pause between.
* *Input state.* `Last = 1` (31 in the code) gives two bits for three interfaces: free indices, reuse
  after unplugging and the shared last bit all occur. Larger numbers are covered by the proofs.
* *Relay.* Two parts have a first, a last and an increment; a second challenge is needed for
  mixing exchanges. The queue of
  one is full when a report of the keyboard is in it. (Both devices being able to sign is a larger
  instance of the same module, which holds too; nothing takes over for a device that leaves.)

* *Session.* The order in which lists are written matters once there are two; a list longer than `Capacity` makes
  the save fail for size. One attempt reaches every place an answer can be missing at; two are for the retry itself.
* *Expressions.* A violation needs a height at the edge and one operation, the check's error one more; the height is what
  the stack is abstracted to, so a stack of 4 stands for 16. The proofs are for any size.
* *Dual link.* A buffer of 5 bytes takes one message and a part of the next, so the writer waits in every position
  of a message. That the two chips never wait for each other is the absence of deadlock in this run.
* *Gpio.* Pins do not influence each other; a debounce time of 2 has a change inside and at the end of the window.

Symmetry is used in `inputs` only (of the two ports), which has no liveness property. No run uses a state constraint. Deadlock
checking is on except where the system does stop: in `pages`, when a transfer is over, and in `inputs`, where a program changed after
its check leaves the stack.

## 4 Fairness

Only what the scheduling of the main loop justifies:

* `OutgoingReports`: `WF(Frame)` and `WF(QueueReport)`, because ticks come for ever (from a timer on
  a single board; from the host's start-of-frame, as long as it keeps the bus running, in the
  other variants) and the loop over `report_ids` is plain code; `SF(SendReport)`, because a host that keeps polling finds the
  loop between two frames again and again, but not continuously, since a frame disables
  sending. `Suspend` and `Resume` are under no fairness: `PressReachesHost` and `HostCatchesUp` say
  what follows if suspension ends. Host polling is not assumed to be *faster* than frames.
* `LayerEngine`: weak fairness of the frame's three kinds of steps.
* `AuthRelay`: weak fairness of the main loop's two tasks, of the completion of a transfer to an attached
  device and of signing. Nothing is assumed of the console after it has sent the nonce, nor
  of devices coming and going: the property's premise states that they stay.
* `ConfigSession`: weak fairness of the main loop and of each handler's steps: a browser resumes a handler whose
  promise is settled. None of the user, of power, or of edits.
* `Macros`: `WF` of a frame and `SF(SendReport)`, as in OutgoingReports.

Nothing is assumed of pins, of the serial line or of the link between the chips, of which only safety and the absence of deadlock are
checked, nor of the user of an example or of a page.

## 5 Proofs

All constants are arbitrary under the named assumptions: ring size, queue capacity, number of
parts, field width and fractions per step positive; a place in the queue for each of the two reports that compete in Macros; the report order a sequence without repetitions;
`NoPort`, `None` outside the sets they extend; configurations any set of finite
sequences of mappings; files and lists of a session any; macros any; messages between the chips any that have data
and fit what they are read into, buffer and line of any length, any bound of restarts; usages, layers, ports, flags and files of the page any in
which the neutral ones occur; packets of the transfer of any size that an element with a number fits into, macros without usages of 0. TLC evaluates
the assumptions in the runs.

What the library's induction theorems would be for is shown otherwise: a set of numbers that is not empty has a least one
(`LeastNumber`, from the well-foundedness of the numbers), so a statement about all of them holds if it has no least exception.

**OutgoingReports_proofs** (with Ring and ReportPath)

| Theorem | Argument |
|---|---|
| `RingInvariant`, `RingImplementsFifo` | `CountersAgree` is inductive with `RingTypeOK`; each ring step maps to a queue step under `Waiting`. The arithmetic is two lemmas on `%`: distinct offsets below `Size` give distinct slots, so writing at the tail changes no waiting entry. |
| `TypeCorrect` | Needs that truncation lands in the field and that what remains after C's division is below one step whatever the sign (`QuotientRemainder`). |
| `HostConverges` (`PrevIsWhatHostWillSee`) | Inductive with `TypeOK`, report by report (`Agrees`). `Aggregate` is the case that matters: it leaves the absolute part of the newest entry alone, which is why comparing it before aggregating is necessary. In `SendReport` the cases are whether another report of the same id waits. |
| `LoopKeepsChanges` (`ChangesAreQueued`), `QueueIsFifo` | Case split on the four outcomes of a turn; the queue refines `Fifo`. |
| `MovementConserved` (`MovementIsConserved`) | What was received equals what was delivered, dropped, is queued, under construction or accumulated, modulo the field (`Balance`). Each step keeps the sum: a frame by `Remainder` and `TruncateDrops`, aggregation because a wrapped sum is congruent to the sum. The movement in the queue is a sum over a sequence, defined by a recursive function; that the sum of an appended, shortened or amended queue is what it should be is proved by the least number for which two such functions differ (`SameSteps`). |
| `RingHoldsTheQueue`, `PathKeepsBoth` | Of `PathSpec`: the slots from head on are the queue. Each step of the pipeline is a step of `Fifo` (`QueueStep`), of which the length tells the kind, and the ring does the same. So all that is proved of the queue holds of the array and its counters. |

**Frame_proofs** (LayerEngine and Expressions, two parts of a frame, side by side as they share no state)

| Theorem | Argument |
|---|---|
| `StickyAndLayersAgree`, `MomentaryLayersHold`, `StickyPressesTurnOff`, `TapOrHoldNotBoth`, `TypeCorrect` | `StickyLayersAreActive` speaks of the time between frames, so it is not inductive: within a frame, `LoopSettles` says every mapping the loop has passed is `Settled` (its contribution to `new_layers` and the clearing of its sticky bits are done and agree). The lemma `SettledStays` shows that later mappings, which may share sticky bits, cannot undo it. `HeldLongEnough` (an input that is held has reached the threshold) is what tap-after-hold needs. |
| `LayersComeOnByTriggers` (`LayersTurnOnByTrigger`) | `Explained`: while the loop runs, each layer that is new has a mapping it has passed whose trigger acts in this frame. The edges a trigger depends on do not change during the loop (`TriggersStay`), and a sticky bit that is new was toggled by such an edge. |
| `ExpressionsTypeCorrect`, `AcceptedProgramsStayInBounds` (`StackStaysInBounds`), `NoStalePointer` (`PointersAreCurrent`) | `heights` is what the check found: a checked program of which nothing was changed has at each element the height the evaluator will meet there, so each operation's need (`Required`) covers what it takes, operation by operation. |
| `CheckMeetsItsPurpose` (`CheckIsExact`) | `OnceRefused`: a refused program has a place where the height the check found does not permit the next operation, and the heights up to there are those of a run (`HeightsCount`). That heights exist for every program is again shown by the least length without. |

**InputState_proofs**

| Theorem | Argument |
|---|---|
| `SharingOnlyTheLastBit`, `BitsTellTheTruth`, `OnlyUnpluggingSticks`, `ActiveMeansPluggedIn`, `TypeCorrect` | `IndicesInUse` (an attached interface's index is marked, or is the last) makes `FreeIndex` a free one. `AnyPortOwned`/`OnePortOwned` say of every bit which interface, or which departed device, it stands for; a bit without an owner is what *stuck* means. |

**AuthRelay_proofs**

| Theorem | Argument |
|---|---|
| `OneRequest`, `NonceStaysInRange`, `TypeCorrect` | `OneTransfer` (no transfer while ready to send) and `AskedInState` (what is under way belongs to the relay's state, or the relay has been started over since). |
| `SignatureIsRight` (`SignatureIsOfChallenge`) | `Exchange` describes how far an undisturbed exchange has got: what the signer has of the nonce, what has been sent on, how many parts have been received, and how many the console has read. It is the end-to-end invariant over console, relay, queue, transfer and device. |

**ConfigSession_proofs**

The steps are first sorted by what they do to the device (`StepKinds`): most do nothing to it, or give it a command that leaves its memory
alone (`Harmless`). The invariant then has one conjunct per idea, and only a few kinds of steps disturb each.

| Theorem | Argument |
|---|---|
| `WholeConfigsRun` (`FramesRunWholeConfigs`) | `FramesStop`: between the SUSPEND and the RESUME of a save the device is suspended without a RESUME pending, unless two commands were handled in one turn (`hurried`); memory that is not whole is in such a save, in one that was interrupted, or suspended. |
| `LoadsAreFaithful` (`LoadIsFaithful`) | `Reads`: what has been read of a list is the beginning of what the device has, and what was read before it is all of it. Needs `AsksRight`: the last command the device remembers is the one the handler waits for, or its answer is none, so that an answer that was taken away can be missing but never be another one's; `Versioned` gives that the commands are understood. |
| `StoreIsImplemented` (`ImplementsStore`) | Refinement of ConfigStore, step by step: the promise is withdrawn before the flash is written, and given again only when the write has ended. `Sends`: what has been written of the lists is the beginning of what the page has. `Flashing` relates a write under way and its return code to the save that asked for it. |
| `TypeCorrect` | Type correctness, which the others need of `pos` and of the answers. |

**Peripherals_proofs** (Gpio, SerialMouse, Macros)

| Theorem | Argument |
|---|---|
| `TypeIsKept`, `Correct`, `StateFollows`, `NoInputIsDriven`, `LevelsAreTaken` (`SteadyLevelIsTaken`) | For every set of pins and every debounce time. `PinsInv` relates, pin by pin, what was last taken with the direction in force and the one that is pending. |
| `WholePacketsTell` (`WholePacketsAreUnderstood`) | While the packet under way has lost nothing, `byte_number` is the number of its bytes that came before the next one, whatever it was when the packet began, and the report has what they said (`Progress`). |
| `EntriesInOrder` (`EntriesAreTypedInOrder`), `QueuesAccountForMacros` | `Accounted`: `display` is, with repetitions left out (`Squeezed`), what the host shows, then what the keyboard's reports in the queue will show (`Tells`, in the order of `Ranked` places), then the entry in front of `macro_queue`, if the reports do not have it yet (`Waiting`). Neighbours in it differ (`Distinct`), so a report shows the first of it or the second. An overflow at either report leaves the keys of an entry in the report under construction, which is the entry still in front (`KeysOfFront`). |

Equal reports in a row are one report to the host, and so are equal entries of macros: the property speaks of what can be
told apart. Assumed is only that the empty queue takes both reports (`SizesAssumption`; the code has room for 8): with room for one and movement
first, keys of two entries can gather in the report that is never reached.

**DualLink_proofs**

| Theorem | Argument |
|---|---|
| `LinkTypes` | Types, with the bounds of buffer, line and what is read into; an id that no message under way has exists by counting (`SomeIdIsFree`). |
| `OnlyRestartsLose` (`LossesOnlyByRestart`) | `LinkInv` speaks, for each direction, of everything on the way as one sequence of places, from the line over the buffer to the message being written (`Way`), which writing and pumping only lengthen (`WayPut`, `WayPump`). `Valid` and `Ordered`: the places are of messages expected, in their order, which are all different. `Chained`: each place is the one behind the last, or begins a message behind one that is complete or at risk. `Closed` says the same of what will be written next, `Covered` that a message that is not at risk is still there. For the reader, `Begun` says what it has gathered belongs to no message younger than the next place, and `Awaited` that it has gathered all that comes before that place in its message (`InStep`), unless that message is at risk. A restart cuts such a way at one place: that what remains is again of this form is shown by `WriterRestarts`, `ReaderRestarts` and `LosingKeeps`, the long part of the proof. When the END of a message is read, `InStep` says that it is whole, and `Ordered` with `Covered` that those before it were at risk (`NothingElseIsLost`). |

**Pages_proofs**

| Theorem | Argument |
|---|---|
| `TabsAgree` (`TabsShowConfig`) | `MappingsInv`: each mapping is listed once, and at most the dialog's is not listed (`Numbered`); the dialog's row is on the page as long as its mapping is listed (`Attached`); each row shows what the mapping at its place holds (`RowsShow`), forced boxes included (`Forces`), and sorting only changes the places. New objects get numbers nothing on the page has (`NewNumbers`, by counting). `MacrosInv` and `ExpressionsInv`: what is on these tabs turns back into what `config` has (`MacrosFromPage`, `ConvertsBack`). |
| `LateChoices` (`LateChoicesAreHarmless`) | A load makes objects whose numbers the open dialog does not have (`LoadsStay`), and a choice for a mapping that is not listed goes to an object nothing shows (`LateChoice`). |
| `ReadsBack` (`ReadsBackWhatWasSent`) | `TransferInv`, stage by stage: the lists before `index` are done, of the ones behind it nothing has come (`Partway`), and of the one at `index` the first *p* items have come and the rest is left to send (`Came`, `Left`). `Gathers` says what a macro looks like of which *p* items have come: whole entries, and a beginning of the next. One item more keeps it (`ItemGathers`), hence any chunk does (`ChunkComes`), wherever its ends are; a chunk that is not full is the last one (`ItemsGiven`, where the separator behind the last entry is what matters). For expressions, that as many elements as fit are at least one, and that the firmware reads as many out of a packet as the tool has put in (`FittingIs`). |

Only model-checked: the liveness properties (`PressReachesHost`, `HostCatchesUp`, `NoLayerIsLeftOn`,
`ChallengeIsSigned`, `BusyEnds`, `SavedConfigRuns`, `MacrosEnd`), because TLAPS's backends do not reason about fairness (`ENABLED`);
and what the examples compute (`OutIsTheImage` to `PressesAreEarned`), which is particular to them and has nothing to generalise.
Every other property of a run that passes is a theorem, for all values of the constants.
None of the modules proved about reaches a RECURSIVE operator or `Bitwise`, which the SMT backend cannot handle.

## 6 Findings

Three statements of the code that do not hold, each with a run that shows it:

* **Passthrough on the layers from 4 up** (`examples_upper_layer`). `NLAYERS` is 4 in remapper.cc and 8 elsewhere: the key of
  a sticky trigger of an upper layer is also typed on it.
* **Momentary triggers of the layers from 4 up** (`layers_upper`). For the same reason they are not "forced to BE present on the
  layer they trigger" (remapper.cc:423): one that is not ticked there switches its layer off while it is held, and on again. The tool's page ticks
  the box itself (code.js:1554–1573).
* **The serial mouse's guard is always true** (`serial_mouse_guard`). `byte_number` is unsigned and starts at −1, so bytes outside
  of packets are not skipped at remapper_serial.cc:120.

Comments and documents that do not agree with the code, met while modelling:

* The comment at remapper.cc:1380 says the value existing in a report under construction "is always zero"
  because mapping runs once per frame. A frame that meets a full queue breaks off at
  remapper.cc:1400 and leaves its reports as they are. Reading the existing value is therefore what
  keeps movement from being lost in an overflow (`MovementIsConserved`): removing it, as the
  comment invites to, would be an error.
* src/EXPRESSIONS.md:160 promises of `plugged_in` 1 "if something is plugged into the currently selected port"; the bit is set by the first
  report only (remapper.cc:1660) and cleared for all ports by every reconfiguration.
* An element of an expression keeps the pointer of its first
  evaluation (remapper.cc:765), so an expression that chooses between two usages goes on reading the first one;
  src/EXPRESSIONS.md:119 speaks of the usage on the stack.
* The comment at src/config-tool-web/code.js:1119 relies on
  `add_mapping()` to find the mapping of the dialog; after a load it is a new object.

Behaviour worth knowing that no document contradicts, and that properties therefore exempt or leave out:

* A key held while its device is unplugged stays on (`orphans`); a report lost on the way to the host is not
  sent again (`lost`); the authentication relay waits for ever after a refused request or a device
  that left (`failed`), and may return a wrong signature if the console starts over (`disturbed`).
* A SUSPEND handled in the same turn of the main loop as the RESUME before it has no effect (`hurried`): frames then run on a configuration that is being
  written, and expressions that were changed after their check. A save that fails midway leaves the device suspended
  (`interrupted`) until the next one.
* `open_device()` keeps a device when the check of its version ends in an exception. Edits made while a load or a
  save is under way end up in a mixture of both configurations (`touched`); a load that fails leaves `config` half
  read under a page that shows the old one (`half`). Commands of the monitor tab take answers away from other handlers, which then end in an error.
* A choice made in the dialog after a load came in under it is ignored. A macro that is one entry with nothing in it reads back as no entry. A
  file with fewer expressions or macros than there are leaves the previous ones on the page.
* Keys that change in every frame can hold a macro up, its keys pressed; the rest of a macro is typed after a
  change of the configuration; the queue of macros has no limit. Two equal entries in a row are seen as one.
  Whether keys or movement of one frame reach the host first depends on the order of an `unordered_map`.
* Opposite keys pressed in the same frame cancel each other until one is released, under both priorities.
  A long press whose release comes within one coalesced tick is neither tap nor hold.
* Two notches of the wheel in one frame change nothing in an example that says "if scroll up"; in the one that turns
  distance into arrow keys, distance is spent in even frames too, in which no key is pressed.
* A switch that is closed while the mappings change reads as open until it is next closed. Suspended, outputs keep their level.
* Chip B sends connections and answers in the waiting way: if chip A relays output reports at that moment with both
  buffers full, both wait. With what B sends in the dropping way they do not. A restart of B leaves
  the inputs held on A that were held. A lost packet of the serial mouse leaves the middle button inverted.

## 7 What is left out, and why

In the modules above:

* *OutgoingReports*: one order of the reports in the run (the proofs are for any), scroll resolution, arrays of usages, dpad values, macros writing into reports,
  `sanitize_report()`/`clear_report()` of particular descriptors (neutral is the empty report), and
  the switch of boot/report protocol, which reallocates reports while old ones wait.
* *LayerEngine*: what taps, holds and sticky inputs drive besides layers; MappingEvaluation has targets, Macros macros.
* *MappingEvaluation*: scroll targets, macro, GPIO, digital pot, dpad and register targets, default values, hub ports,
  overflow of 32-bit integers, the wrap of `time`, suspension; frames are those of the timer.
* *Expressions*: what the operations compute, except where the stack depends on it.
* *Macros*: reconfiguration, macro entries on pins and dpads, keys in more than one report.
* *ConfigSession*: contents of lists (ChunkTransfer has them), pairing, flashing, the crc of requests, configurations of older versions in flash and in
  files. *ChunkTransfer*: one list at a time, undisturbed.
* *MappingsPage*: scaling factors, the output's port, the search box; *MacrosPage*: previews; *ExpressionsPage*: white space,
  letter case, the range of numbers. Loads and uploads are the step in which they end.
* *Gpio*: ADC pins. *SerialMouse*: the size of movements, switching the mouse on. *DualLink*: what messages do, the
  handshake at the start; the checksum is ideal.
* *InputState*: axes, relative usages, scaling, raw states; each interface has one report.
* *AuthRelay*: answers of the relay that are constants, malformed reports from the console (dropped in the
  code), and transfers that fail and still call back: what the TinyUSB host stack does then is outside
  this repository, and the model lets a transfer complete or be cut off by unplugging.
* Timers are ticks; wrap-around of the 64-bit clock is ignored.

External, modelled from how the code uses them: TinyUSB (accept, refuse, complete a transfer), the
host, the console, attached devices.

Components that are not modelled are listed with the reason in `PROJECT.json`. Data transformations
(descriptor parser, quirks, descriptors) have little control to check; RadMapper and ScrollCapture are separate
Windows scripts; ADC, LED, digital pots and flashing are thin drivers.

## 8 Plan

Done: the modules above, in the order Ring, OutgoingReports, LayerEngine, InputState, AuthRelay; ConfigSession and ChunkTransfer;
Expressions, MappingEvaluation with the examples; the web tool's tabs; Gpio, Macros, DualLink, SerialMouse; ReportPath, which composes
the pipeline with its ring. Proofs of every safety property but those of particular examples.

Theorems to add: that the frame of MappingEvaluation and that of LayerEngine agree on layers and sticky state: the one is a single
step, the other its loops turn by turn.

Open in the models:

1. **Migration**: `load_config()` of every older version against `set_ui_state()` of a file of the same version: the two readers
   should agree on what an old configuration means.
2. Relative usages in InputState; the protocol switch in OutgoingReports, with reports of the other descriptor still queued.
3. DualLink with what the messages do: devices of a chip that restarted, and both chips in waiting writes.
4. **BluetoothQueues** (connect, disconnect and report queues; scanning flags) and **XboxSetup**, as far as the
   order of callbacks can be known without the host libraries.
