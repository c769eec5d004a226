----------------------------- MODULE ConfigStore -----------------------------
(***************************************************************************)
(* What saving a configuration promises, without the protocol: a store     *)
(* that holds one configuration, or nothing valid while or after a write   *)
(* was cut off, and a promise made to the user.  The promise can only be   *)
(* of what is stored, and it has to be taken back before the store is      *)
(* touched again.                                                          *)
(***************************************************************************)
CONSTANTS Config,  \* configurations
          Torn,    \* what an unfinished write leaves: load_config() rejects it
          None     \* no promise

VARIABLES stored, promised

Init == stored \in Config \cup {Torn} /\ promised = None

TakeBack == promised' = None /\ UNCHANGED stored

Erase == promised = None /\ stored' = Torn /\ UNCHANGED promised

Program == /\ promised = None /\ stored = Torn
           /\ stored' \in Config
           /\ UNCHANGED promised

Promise == stored \in Config /\ promised' = stored /\ UNCHANGED stored

Next == TakeBack \/ Erase \/ Program \/ Promise

Spec == Init /\ [][Next]_<<stored, promised>>
==============================================================================
