----------------------------- MODULE InputState -----------------------------
(***************************************************************************)
(* What the attached devices do to the input state: reports, plugging in   *)
(* and unplugging (remapper.cc, descriptor_parser.cc), for buttons and     *)
(* keys.                                                                   *)
(*                                                                         *)
(* The state of an input mapped from any port (input_state_0) is a word    *)
(* with one bit per interface, so that one device letting go of a key does *)
(* not release it for another; the state of an input mapped from one hub   *)
(* port (input_state_n) has no such bits for plain buttons.  A report can  *)
(* carry a usage as a bit of its own, as an entry of an array, or both     *)
(* ways.                                                                   *)
(***************************************************************************)
EXTENDS Integers, FiniteSets

CONSTANTS Devices,     \* device addresses
          Interfaces,  \* the HID interfaces they can have
          DeviceOf,    \* interface -> the device it belongs to
          Ports,       \* the hub ports a mapping can name
          NoPort,      \* HUB_PORT_NONE: not behind a hub
          Usages,      \* the usages mapped
          Plain,       \* interface -> usages it reports as a bit of their own
          Listed,      \* interface -> usages it reports in an array
          Last         \* the highest bit: 31

Index == 0 .. Last

ASSUME DevicesAssumption == DeviceOf \in [Interfaces -> Devices]
ASSUME UsagesAssumption == /\ Plain \in [Interfaces -> SUBSET Usages]
                           /\ Listed \in [Interfaces -> SUBSET Usages]
ASSUME PortsAssumption == NoPort \notin Ports
ASSUME LastAssumption == Last \in Nat

VARIABLES
  connected,     \* the interfaces with an entry in their_usages
  index,         \* interface_index, 0 where there is no entry
  index_in_use,  \* interface_index_in_use
  hub_ports,     \* device -> the port it is plugged into
  active_ports,  \* active_ports_mask
  derived,       \* the interfaces their_used_usages has entries for
  any_port,      \* usage -> input_state_0
  one_port,      \* port, usage -> input_state_n
  fresh,         \* history: interfaces heard of since all input was forgotten
  held,          \* history: interface -> what its last report held down
  orphans        \* history: usages held down by a device when it went away

vars == <<connected, index, index_in_use, hub_ports, active_ports, derived,
          any_port, one_port, fresh, held, orphans>>

Init == /\ connected = {} /\ derived = {} /\ fresh = {} /\ orphans = {}
        /\ index = [i \in Interfaces |-> 0]
        /\ index_in_use = {}
        /\ hub_ports = [d \in Devices |-> NoPort]
        /\ active_ports = {}
        /\ any_port = [u \in Usages |-> {}]
        /\ one_port = [p \in Ports |-> [u \in Usages |-> {}]]
        /\ held = [i \in Interfaces |-> {}]

PortOf(i) == hub_ports[DeviceOf[i]]
InterfacesOf(d) == {i \in Interfaces : DeviceOf[i] = d}
-----------------------------------------------------------------------------
(* Plugging in and unplugging.                                             *)

\* Mutant: the lowest index is taken whether it is in use or not.
LowestIndex == 0

\* assign_interface_index(): the lowest free index, or the last one when no
\* other is free ("if we have more than 32 interfaces, they end up sharing
\* bit 31").
FreeIndex ==
  CHOOSE k \in Index :
    /\ k = Last \/ k \notin index_in_use
    /\ \A j \in Index : j < k => j \in index_in_use

\* parse_descriptor() and device_connected_callback() for one interface.  The
\* tables for its reports follow with UpdateDerivates; those of a device that
\* went away are gone long before its address has been given to another.
Mount(i) ==
  /\ i \notin connected
  /\ i \notin derived
  /\ connected' = connected \cup {i}
  /\ index' = [index EXCEPT ![i] = FreeIndex]
  /\ index_in_use' = index_in_use \cup {FreeIndex}
  /\ IF InterfacesOf(DeviceOf[i]) \cap connected = {}
     THEN \E p \in Ports \cup {NoPort} :
            hub_ports' = [hub_ports EXCEPT ![DeviceOf[i]] = p]
     ELSE UNCHANGED hub_ports
  /\ UNCHANGED <<active_ports, derived, any_port, one_port, fresh, held,
                 orphans>>

\* device_disconnected_callback() and clear_descriptor_data(): the indices
\* become free (a detached interface has none: 0 in index), the bits they stand
\* for stay as they are.
Unplug(d) ==
  LET gone == InterfacesOf(d) \cap connected IN
  /\ gone # {}
  /\ connected' = connected \ gone
  /\ fresh' = fresh \ gone
  /\ held' = [i \in Interfaces |-> IF i \in gone THEN {} ELSE held[i]]
  /\ orphans' = orphans \cup UNION {held[i] : i \in gone}
  /\ index' = [i \in Interfaces |-> IF i \in gone THEN 0 ELSE index[i]]
  /\ index_in_use' = index_in_use \ {index[i] : i \in gone}
  /\ hub_ports' = [hub_ports EXCEPT ![d] = NoPort]
  /\ active_ports' = active_ports \ {hub_ports[d]}
  /\ UNCHANGED <<derived, any_port, one_port>>

\* The main loop rebuilds the tables once a descriptor came or went.
UpdateDerivates ==
  /\ derived # connected
  /\ derived' = connected
  /\ UNCHANGED <<connected, index, index_in_use, hub_ports, active_ports,
                 any_port, one_port, fresh, held, orphans>>

\* set_mapping_from_config(): all input is forgotten, whatever is held down,
\* and the tables are rebuilt.
Remap ==
  /\ any_port' = [u \in Usages |-> {}]
  /\ one_port' = [p \in Ports |-> [u \in Usages |-> {}]]
  /\ active_ports' = {}
  /\ derived' = connected
  /\ fresh' = {}
  /\ orphans' = {}
  /\ held' = [i \in Interfaces |-> {}]
  /\ UNCHANGED <<connected, index, index_in_use, hub_ports>>
-----------------------------------------------------------------------------
(* Reports.                                                                *)

Active(i) == active_ports' = active_ports \cup ({PortOf(i)} \ {NoPort})

\* Mutant: usages with a bit of their own are read last.
AnyPortPlainLast(i, plain, listed, u) ==
  CASE u \in Plain[i] -> IF u \in plain THEN any_port[u] \cup {index[i]}
                                        ELSE any_port[u] \ {index[i]}
    [] u \in Listed[i] \ Plain[i] ->
         IF u \in listed THEN any_port[u] \cup {index[i]}
                         ELSE any_port[u] \ {index[i]}
    [] OTHER -> any_port[u]

\* do_handle_received_report() for input_state_0: the bits of the array's
\* usages are cleared, then the usages of their own are read, then the array.
\* plain and listed: the usages held down, by how the report carries them.
AnyPort(i, plain, listed, u) ==
  IF u \in plain \cup listed THEN any_port[u] \cup {index[i]}
  ELSE IF u \in Plain[i] \cup Listed[i] THEN any_port[u] \ {index[i]}
  ELSE any_port[u]

\* Mutant: only the states for any port are cleared for the array.
OnePortWithoutClear(i, plain, listed, u) ==
  CASE u \in listed -> {index[i]}
    [] u \in Plain[i] \ listed -> IF u \in plain THEN {0} ELSE {}
    [] OTHER -> one_port[PortOf(i)][u]

\* The same for input_state_n: a usage of its own overwrites the state, a usage
\* in an array is cleared by bit but set by overwriting.
OnePort(i, plain, listed, u) ==
  LET old == one_port[PortOf(i)][u] IN
  CASE u \in listed -> {index[i]}
    [] u \in Plain[i] \ listed -> IF u \in plain THEN {0} ELSE {}
    [] u \in Listed[i] \ (Plain[i] \cup listed) -> old \ {index[i]}
    [] OTHER -> old

Report(i) ==
  /\ i \in connected \cap derived
  /\ \E plain \in SUBSET Plain[i], listed \in SUBSET Listed[i] :
       /\ any_port' = [u \in Usages |-> AnyPort(i, plain, listed, u)]
       /\ one_port' = IF PortOf(i) = NoPort THEN one_port
                      ELSE [one_port EXCEPT ![PortOf(i)] =
                             [u \in Usages |-> OnePort(i, plain, listed, u)]]
       /\ held' = [held EXCEPT ![i] = plain \cup listed]
  /\ fresh' = fresh \cup {i}
  /\ Active(i)
  /\ UNCHANGED <<connected, index, index_in_use, hub_ports, derived, orphans>>

\* A report that says too many keys are down, or one that comes before its
\* tables, tells only that the device is there.
ReportIgnored(i) ==
  /\ i \in connected
  /\ Active(i)
  /\ UNCHANGED <<connected, index, index_in_use, hub_ports, derived, any_port,
                 one_port, fresh, held, orphans>>

Next == \/ \E i \in Interfaces : Mount(i) \/ Report(i) \/ ReportIgnored(i)
        \/ \E d \in Devices : Unplug(d)
        \/ UpdateDerivates \/ Remap

Spec == Init /\ [][Next]_vars
-----------------------------------------------------------------------------
(* Properties.                                                             *)

TypeOK == /\ connected \subseteq Interfaces /\ derived \subseteq Interfaces
          /\ fresh \subseteq connected
          /\ index \in [Interfaces -> Index]
          /\ index_in_use \subseteq Index
          /\ hub_ports \in [Devices -> Ports \cup {NoPort}]
          /\ active_ports \subseteq Ports
          /\ any_port \in [Usages -> SUBSET Index]
          /\ one_port \in [Ports -> [Usages -> SUBSET Index]]
          /\ held \in [Interfaces -> SUBSET Usages]
          /\ orphans \subseteq Usages

\* No two attached interfaces share a bit, but for the last bit once the others
\* have run out.
BitsAreNotShared ==
  \A i, j \in connected :
    i # j /\ index[i] = index[j] => index[i] = Last

\* An input mapped from any port is on for a device exactly as long as the
\* device holds it down, whatever the other devices do, come and go: seen from
\* each interface that has been heard of, its bit tells the truth, unless it is
\* the last one.
BitTellsHeldInputs ==
  \A i \in fresh : \A u \in Plain[i] \cup Listed[i] :
    index[i] # Last => (index[i] \in any_port[u] <=> u \in held[i])

\* An input is on, for any port or for one of them, only while some device holds
\* it down, or because one went away while it did.
StuckOnlyByUnplugging ==
  \A u \in Usages :
    (any_port[u] # {} \/ \E p \in Ports : one_port[p][u] # {})
      => u \in orphans \cup UNION {held[i] : i \in Interfaces}

\* A port counts as active only while some device is plugged into it.
ActivePortsArePluggedIn ==
  \A p \in active_ports : \E i \in connected : PortOf(i) = p
=============================================================================
