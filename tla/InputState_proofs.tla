-------------------------- MODULE InputState_proofs -------------------------
(* Proofs about InputState, for every set of devices, interfaces and usages. *)
EXTENDS InputState, WellFoundedInduction, TLAPS

\* The index of an attached interface is marked as taken; the last one may have
\* been given back by another interface that shared it.
IndicesInUse == \A i \in connected : index[i] = Last \/ index[i] \in index_in_use

\* Only attached interfaces hold anything, and only usages they report.
HeldAreReported ==
  \A i \in Interfaces : /\ held[i] \subseteq Plain[i] \cup Listed[i]
                        /\ i \notin connected => held[i] = {}

\* Every bit set for any port is that of an interface holding the usage.
AnyPortOwned ==
  \A u \in Usages : \A k \in any_port[u] :
    u \in orphans \/ \E i \in connected : index[i] = k /\ u \in held[i]

\* So is every bit set for one port, or it is the 1 of a usage of its own.
OnePortOwned ==
  \A p \in Ports, u \in Usages : \A k \in one_port[p][u] :
    \/ u \in orphans
    \/ \E i \in connected : /\ PortOf(i) = p
                            /\ u \in held[i]
                            /\ index[i] = k \/ (k = 0 /\ u \in Plain[i])

Inv == /\ TypeOK /\ BitsAreNotShared /\ IndicesInUse /\ BitTellsHeldInputs
       /\ HeldAreReported /\ AnyPortOwned /\ OnePortOwned
       /\ ActivePortsArePluggedIn
-----------------------------------------------------------------------------
\* Some index can always be assigned, and it is free unless it is the last one.
LEMMA FreeIndexIsFree ==
  /\ FreeIndex \in Index
  /\ FreeIndex = Last \/ FreeIndex \notin index_in_use
<1> DEFINE Free == {k \in Index : k = Last \/ k \notin index_in_use}
<1>1. Free \subseteq Nat /\ Last \in Free
  BY LastAssumption DEF Index
<1>2. PICK k \in Free : \A j \in Free : ~ (<<j, k>> \in OpToRel(<, Nat))
  BY <1>1, WFMin, NatLessThanWellFounded
<1>3. \A j \in Index : j < k => j \in index_in_use
  <2> SUFFICES ASSUME NEW j \in Index, j < k, j \notin index_in_use PROVE FALSE
    OBVIOUS
  <2>1. j \in Free /\ j \in Nat /\ k \in Nat
    BY <1>1
  <2>2. <<j, k>> \in OpToRel(<, Nat)
    BY <2>1 DEF OpToRel
  <2> QED
    BY <1>2, <2>1, <2>2
<1> QED
  BY <1>3 DEF FreeIndex

LEMMA PortType ==
  ASSUME TypeOK, NEW i \in Interfaces
  PROVE  PortOf(i) \in Ports \cup {NoPort}
BY DevicesAssumption DEF TypeOK, PortOf

LEMMA Initially == Init => Inv
<1> SUFFICES ASSUME Init PROVE Inv
  OBVIOUS
<1>1. TypeOK
  BY LastAssumption DEF Init, TypeOK, Index
<1>2. /\ BitsAreNotShared /\ IndicesInUse /\ BitTellsHeldInputs
      /\ HeldAreReported /\ AnyPortOwned /\ ActivePortsArePluggedIn
  BY DEF Init, BitsAreNotShared, IndicesInUse, BitTellsHeldInputs,
         HeldAreReported, AnyPortOwned, ActivePortsArePluggedIn
<1>3. OnePortOwned
  BY DEF Init, OnePortOwned
<1> QED
  BY <1>1, <1>2, <1>3 DEF Inv

LEMMA MountKeeps ==
  ASSUME Inv, NEW i \in Interfaces, Mount(i)
  PROVE  Inv'
<1> DEFINE k == FreeIndex
<1>0. k \in Index /\ (k = Last \/ k \notin index_in_use)
  BY FreeIndexIsFree
<1> HIDE DEF k
<1>1. /\ index' = [index EXCEPT ![i] = k]
      /\ index_in_use' = index_in_use \cup {k}
      /\ connected' = connected \cup {i} /\ i \notin connected
      /\ UNCHANGED <<active_ports, derived, any_port, one_port, fresh, held, orphans>>
  BY DEF Mount, k
<1>2. TypeOK
  BY DEF Inv
<1>3. PICK p \in Ports \cup {NoPort} :
        hub_ports' = [hub_ports EXCEPT ![DeviceOf[i]] = p]
  <2>1. CASE InterfacesOf(DeviceOf[i]) \cap connected = {}
    BY <2>1 DEF Mount
  <2>2. CASE InterfacesOf(DeviceOf[i]) \cap connected # {}
    <3>1. hub_ports' = [hub_ports EXCEPT ![DeviceOf[i]] = PortOf(i)]
      BY <1>2, <2>2, DevicesAssumption DEF Mount, TypeOK, PortOf
    <3> QED
      BY <3>1, <1>2, PortType
  <2> QED
    BY <2>1, <2>2
<1>4. \A j \in connected : /\ j # i /\ j \in Interfaces
                           /\ index'[j] = index[j]
  BY <1>1, <1>2 DEF TypeOK
<1>5. \A j \in connected : PortOf(j)' = PortOf(j)
  <2> SUFFICES ASSUME NEW j \in connected PROVE PortOf(j)' = PortOf(j)
    OBVIOUS
  <2>1. CASE DeviceOf[j] = DeviceOf[i]
    <3>1. j \in InterfacesOf(DeviceOf[i]) \cap connected
      BY <2>1, <1>2 DEF InterfacesOf, TypeOK
    <3> QED
      BY <3>1 DEF Mount, PortOf
  <2>2. CASE DeviceOf[j] # DeviceOf[i]
    BY <2>2, <1>2, <1>3, <1>4, DevicesAssumption DEF TypeOK, PortOf
  <2> QED
    BY <2>1, <2>2
<1>6. index'[i] = k
  BY <1>1, <1>2 DEF TypeOK
<1>7. TypeOK'
  <2>1. hub_ports' \in [Devices -> Ports \cup {NoPort}]
    BY <1>2, <1>3 DEF TypeOK
  <2>2. index' \in [Interfaces -> Index] /\ index_in_use' \subseteq Index
    BY <1>0, <1>1, <1>2 DEF TypeOK
  <2> QED
    BY <1>1, <1>2, <2>1, <2>2 DEF TypeOK
<1>8. BitsAreNotShared'
  BY <1>0, <1>1, <1>4, <1>6 DEF Inv, BitsAreNotShared, IndicesInUse
<1>9. IndicesInUse'
  BY <1>1, <1>4, <1>6 DEF Inv, IndicesInUse
<1>10. BitTellsHeldInputs'
  BY <1>1, <1>2, <1>4 DEF Inv, BitTellsHeldInputs, TypeOK
<1>11. HeldAreReported'
  BY <1>1 DEF Inv, HeldAreReported
<1>12. AnyPortOwned'
  BY <1>1, <1>4 DEF Inv, AnyPortOwned
<1>13. OnePortOwned'
  BY <1>1, <1>4, <1>5 DEF Inv, OnePortOwned
<1>14. ActivePortsArePluggedIn'
  BY <1>1, <1>5 DEF Inv, ActivePortsArePluggedIn
<1> QED
  BY <1>7, <1>8, <1>9, <1>10, <1>11, <1>12, <1>13, <1>14 DEF Inv

LEMMA UnplugKeeps ==
  ASSUME Inv, NEW d \in Devices, Unplug(d)
  PROVE  Inv'
<1> DEFINE gone == InterfacesOf(d) \cap connected
<1>0. TypeOK
  BY DEF Inv
<1>1. /\ connected' = connected \ gone
      /\ fresh' = fresh \ gone
      /\ held' = [i \in Interfaces |-> IF i \in gone THEN {} ELSE held[i]]
      /\ orphans' = orphans \cup UNION {held[i] : i \in gone}
      /\ index' = [i \in Interfaces |-> IF i \in gone THEN 0 ELSE index[i]]
      /\ index_in_use' = index_in_use \ {index[i] : i \in gone}
      /\ hub_ports' = [hub_ports EXCEPT ![d] = NoPort]
      /\ active_ports' = active_ports \ {hub_ports[d]}
      /\ UNCHANGED <<derived, any_port, one_port>>
  BY DEF Unplug
<1>2. gone \subseteq connected /\ gone \subseteq Interfaces
  BY <1>0 DEF TypeOK
<1>3. \A i \in connected' : /\ i \in connected /\ i \in Interfaces /\ i \notin gone
                            /\ DeviceOf[i] # d
                            /\ index'[i] = index[i] /\ held'[i] = held[i]
                            /\ PortOf(i)' = PortOf(i)
  <2> SUFFICES ASSUME NEW i \in connected'
               PROVE  /\ i \in connected /\ i \in Interfaces /\ i \notin gone
                      /\ DeviceOf[i] # d
                      /\ index'[i] = index[i] /\ held'[i] = held[i]
                      /\ PortOf(i)' = PortOf(i)
    OBVIOUS
  <2>1. i \in connected /\ i \in Interfaces /\ i \notin gone /\ DeviceOf[i] # d
    BY <1>0, <1>1 DEF TypeOK, InterfacesOf
  <2>2. index'[i] = index[i] /\ held'[i] = held[i]
    BY <1>1, <2>1
  <2>3. PortOf(i)' = PortOf(i)
    BY <1>0, <1>1, <2>1, DevicesAssumption DEF TypeOK, PortOf
  <2> QED
    BY <2>1, <2>2, <2>3
<1> HIDE DEF gone
<1>4. TypeOK'
  <2>1. hub_ports' \in [Devices -> Ports \cup {NoPort}]
    BY <1>0, <1>1 DEF TypeOK
  <2>2. index' \in [Interfaces -> Index]
    BY <1>0, <1>1, LastAssumption DEF TypeOK, Index
  <2>3. held' \in [Interfaces -> SUBSET Usages]
    BY <1>0, <1>1 DEF TypeOK
  <2>4. orphans' \subseteq Usages
    BY <1>0, <1>1, <1>2 DEF TypeOK
  <2>5. /\ connected' \subseteq Interfaces /\ derived' \subseteq Interfaces
        /\ fresh' \subseteq connected' /\ index_in_use' \subseteq Index
        /\ active_ports' \subseteq Ports
    BY <1>0, <1>1 DEF TypeOK
  <2>6. /\ any_port' \in [Usages -> SUBSET Index]
        /\ one_port' \in [Ports -> [Usages -> SUBSET Index]]
    BY <1>0, <1>1 DEF TypeOK
  <2> QED
    BY <2>1, <2>2, <2>3, <2>4, <2>5, <2>6 DEF TypeOK
<1>5. BitsAreNotShared'
  BY <1>3 DEF Inv, BitsAreNotShared
<1>6. IndicesInUse'
  <2> SUFFICES ASSUME NEW i \in connected', index[i] # Last
               PROVE  index'[i] \in index_in_use'
    BY <1>3 DEF IndicesInUse
  <2>1. \A j \in gone : index[j] # index[i]
    BY <1>2, <1>3 DEF Inv, BitsAreNotShared
  <2> QED
    BY <1>1, <1>3, <2>1 DEF Inv, IndicesInUse
<1>7. BitTellsHeldInputs'
  <2>1. \A i \in fresh' : i \in fresh /\ i \in connected'
    BY <1>0, <1>1 DEF TypeOK
  <2> QED
    BY <1>1, <1>3, <2>1 DEF Inv, BitTellsHeldInputs
<1>8. HeldAreReported'
  BY <1>1, <1>2 DEF Inv, HeldAreReported
<1>9. \A u, i : u \in Usages /\ i \in connected /\ u \in held[i]
                => u \in orphans' \/ (i \in connected' /\ u \in held'[i])
  BY <1>1, <1>3
<1>10. AnyPortOwned'
  <2>0. any_port' = any_port
    BY <1>1
  <2> SUFFICES ASSUME NEW u \in Usages, NEW k \in any_port[u], u \notin orphans'
               PROVE  \E i \in connected' : index'[i] = k /\ u \in held'[i]
    BY <2>0, Zenon DEF AnyPortOwned
  <2>1. PICK i \in connected : index[i] = k /\ u \in held[i]
    BY <1>1 DEF Inv, AnyPortOwned
  <2> QED
    BY <1>3, <1>9, <2>1
<1>11. OnePortOwned'
  <2>0. one_port' = one_port
    BY <1>1
  <2> DEFINE Owned(p, u, k) ==
               \E i \in connected : /\ PortOf(i) = p
                                    /\ u \in held[i]
                                    /\ index[i] = k \/ (k = 0 /\ u \in Plain[i])
  <2>1. ASSUME NEW p \in Ports, NEW u \in Usages, NEW k \in one_port[p][u], u \notin orphans'
        PROVE  Owned(p, u, k)'
    <3>1. PICK i \in connected : /\ PortOf(i) = p
                                 /\ u \in held[i]
                                 /\ index[i] = k \/ (k = 0 /\ u \in Plain[i])
      BY <1>1, <2>1 DEF Inv, OnePortOwned
    <3> QED
      BY <1>3, <1>9, <2>1, <3>1
  <2>2. \A p \in Ports, u \in Usages : \A k \in one_port'[p][u] :
          u \in orphans' \/ Owned(p, u, k)'
    <3> HIDE DEF Owned
    <3> QED
      BY ONLY <2>0, <2>1
  <2> QED
    BY ONLY <2>2 DEF OnePortOwned
<1>12. ActivePortsArePluggedIn'
  <2> SUFFICES ASSUME NEW p \in active_ports'
               PROVE  \E i \in connected' : PortOf(i)' = p
    BY DEF ActivePortsArePluggedIn
  <2>1. p \in active_ports /\ p # hub_ports[d]
    BY <1>1
  <2>2. PICK i \in connected : PortOf(i) = p
    BY <2>1 DEF Inv, ActivePortsArePluggedIn
  <2>3. i \in connected'
    BY <1>1, <2>1, <2>2 DEF PortOf, InterfacesOf, gone
  <2> QED
    BY <1>3, <2>2, <2>3
<1> QED
  BY <1>4, <1>5, <1>6, <1>7, <1>8, <1>10, <1>11, <1>12 DEF Inv

LEMMA ReportKeeps ==
  ASSUME Inv, NEW i \in Interfaces, Report(i)
  PROVE  Inv'
<1>0. TypeOK
  BY DEF Inv
<1>1. PICK plain \in SUBSET Plain[i], listed \in SUBSET Listed[i] :
        /\ any_port' = [u \in Usages |-> AnyPort(i, plain, listed, u)]
        /\ one_port' = IF PortOf(i) = NoPort THEN one_port
                       ELSE [one_port EXCEPT ![PortOf(i)] =
                              [u \in Usages |-> OnePort(i, plain, listed, u)]]
        /\ held' = [held EXCEPT ![i] = plain \cup listed]
  BY DEF Report
<1>2. /\ i \in connected /\ i \in derived
      /\ fresh' = fresh \cup {i}
      /\ active_ports' = active_ports \cup ({PortOf(i)} \ {NoPort})
      /\ UNCHANGED <<connected, index, index_in_use, hub_ports, derived, orphans>>
  BY DEF Report, Active
<1>3. \A j \in Interfaces : PortOf(j)' = PortOf(j)
  BY <1>2 DEF PortOf
<1>4. /\ index[i] \in Index
      /\ PortOf(i) \in Ports \cup {NoPort}
      /\ Plain[i] \subseteq Usages /\ Listed[i] \subseteq Usages
  BY <1>0, PortType, UsagesAssumption DEF TypeOK
<1>5. /\ held'[i] = plain \cup listed
      /\ \A j \in Interfaces \ {i} : held'[j] = held[j]
  BY <1>0, <1>1 DEF TypeOK
<1>6. TypeOK'
  <2>1. any_port' \in [Usages -> SUBSET Index]
    <3> SUFFICES ASSUME NEW u \in Usages
                 PROVE  AnyPort(i, plain, listed, u) \subseteq Index
      BY <1>1
    <3> QED
      BY <1>0, <1>4 DEF TypeOK, AnyPort
  <2>2. one_port' \in [Ports -> [Usages -> SUBSET Index]]
    <3>1. CASE PortOf(i) = NoPort
      BY <3>1, <1>0, <1>1 DEF TypeOK
    <3>2. CASE PortOf(i) \in Ports
      <4>1. ASSUME NEW u \in Usages
            PROVE  OnePort(i, plain, listed, u) \subseteq Index
        <5>1. one_port[PortOf(i)][u] \subseteq Index
          BY <1>0, <3>2 DEF TypeOK
        <5>2. 0 \in Index
          BY LastAssumption DEF Index
        <5>3. CASE u \in listed
          BY <5>3, <1>4 DEF OnePort
        <5>4. CASE u \in Plain[i] /\ u \notin listed
          BY <5>4, <5>2 DEF OnePort
        <5>5. CASE u \notin listed /\ u \notin Plain[i]
          BY <5>5, <5>1 DEF OnePort
        <5> QED
          BY <5>3, <5>4, <5>5
      <4> QED
        BY <3>2, <4>1, <1>0, <1>1, PortsAssumption DEF TypeOK
    <3> QED
      BY <3>1, <3>2, <1>4
  <2>3. held' \in [Interfaces -> SUBSET Usages]
    BY <1>0, <1>1, <1>4 DEF TypeOK
  <2>4. active_ports' \subseteq Ports /\ fresh' \subseteq connected'
    BY <1>0, <1>2, <1>4 DEF TypeOK
  <2> QED
    BY <1>0, <1>2, <2>1, <2>2, <2>3, <2>4 DEF TypeOK
<1>7. BitsAreNotShared' /\ IndicesInUse'
  BY <1>2 DEF Inv, BitsAreNotShared, IndicesInUse
<1>8. BitTellsHeldInputs'
  <2> SUFFICES ASSUME NEW j \in fresh', NEW u \in Plain[j] \cup Listed[j],
                      index[j] # Last
               PROVE  index[j] \in any_port'[u] <=> u \in held'[j]
    BY <1>2 DEF BitTellsHeldInputs
  <2>0. j \in Interfaces /\ j \in connected
    BY <1>0, <1>2 DEF TypeOK
  <2>1. u \in Usages
    BY <2>0, UsagesAssumption
  <2>2. any_port'[u] = AnyPort(i, plain, listed, u)
    BY <1>1, <2>1
  <2>3. CASE j = i
    BY <2>2, <2>3, <1>5 DEF AnyPort
  <2>4. CASE j # i
    <3>1. index[j] # index[i]
      BY <2>0, <2>4, <1>2 DEF Inv, BitsAreNotShared
    <3>2. index[j] \in any_port'[u] <=> index[j] \in any_port[u]
      BY <2>2, <3>1 DEF AnyPort
    <3> QED
      BY <3>2, <2>0, <2>4, <1>2, <1>5 DEF Inv, BitTellsHeldInputs
  <2> QED
    BY <2>3, <2>4
<1>9. HeldAreReported'
  BY <1>2, <1>5 DEF Inv, HeldAreReported
<1>10. AnyPortOwned'
  <2> SUFFICES ASSUME NEW u \in Usages, NEW k \in any_port'[u], u \notin orphans
               PROVE  \E j \in connected : index[j] = k /\ u \in held'[j]
    BY <1>2 DEF AnyPortOwned
  <2>1. k \in AnyPort(i, plain, listed, u)
    BY <1>1
  <2>2. CASE k = index[i] /\ u \in plain \cup listed
    BY <2>2, <1>2, <1>5
  <2>3. CASE ~ (k = index[i] /\ u \in plain \cup listed)
    <3>1. k \in any_port[u] /\ (u \in Plain[i] \cup Listed[i] => k # index[i])
      BY <2>1, <2>3 DEF AnyPort
    <3>2. PICK j \in connected : index[j] = k /\ u \in held[j]
      BY <3>1 DEF Inv, AnyPortOwned
    <3>3. j # i
      BY <3>1, <3>2 DEF Inv, HeldAreReported
    <3> QED
      BY <3>2, <3>3, <1>0, <1>5 DEF TypeOK
  <2> QED
    BY <2>2, <2>3
<1>11. OnePortOwned'
  <2> SUFFICES ASSUME NEW p \in Ports, NEW u \in Usages,
                      NEW k \in one_port'[p][u], u \notin orphans
               PROVE  \E j \in connected :
                        /\ PortOf(j) = p
                        /\ u \in held'[j]
                        /\ index[j] = k \/ (k = 0 /\ u \in Plain[j])
    BY <1>0, <1>2, <1>3 DEF OnePortOwned, TypeOK
  <2>1. CASE p # PortOf(i)
    <3>1. k \in one_port[p][u]
      BY <2>1, <1>0, <1>1 DEF TypeOK
    <3>2. PICK j \in connected : /\ PortOf(j) = p
                                 /\ u \in held[j]
                                 /\ index[j] = k \/ (k = 0 /\ u \in Plain[j])
      BY <3>1 DEF Inv, OnePortOwned
    <3> QED
      BY <2>1, <3>2, <1>0, <1>5 DEF TypeOK
  <2>2. CASE p = PortOf(i)
    <3>1. k \in OnePort(i, plain, listed, u)
      BY <2>2, <1>0, <1>1, PortsAssumption DEF TypeOK
    <3>2. CASE u \in listed
      BY <3>1, <3>2, <2>2, <1>2, <1>5 DEF OnePort
    <3>3. CASE u \in Plain[i] /\ u \notin listed
      BY <3>1, <3>3, <2>2, <1>2, <1>5 DEF OnePort
    <3>4. CASE u \notin Plain[i] /\ u \notin listed
      <4>1. k \in one_port[p][u] /\ (u \in Listed[i] => k # index[i])
        BY <3>1, <3>4, <2>2 DEF OnePort
      <4>2. PICK j \in connected : /\ PortOf(j) = p
                                   /\ u \in held[j]
                                   /\ index[j] = k \/ (k = 0 /\ u \in Plain[j])
        BY <4>1 DEF Inv, OnePortOwned
      <4>3. j # i
        BY <4>1, <4>2, <3>4 DEF Inv, HeldAreReported
      <4> QED
        BY <4>2, <4>3, <1>0, <1>5 DEF TypeOK
    <3> QED
      BY <3>2, <3>3, <3>4
  <2> QED
    BY <2>1, <2>2
<1>12. ActivePortsArePluggedIn'
  <2> SUFFICES ASSUME NEW p \in active_ports'
               PROVE  \E j \in connected : PortOf(j) = p
    BY <1>0, <1>2, <1>3 DEF ActivePortsArePluggedIn, TypeOK
  <2> QED
    BY <1>2 DEF Inv, ActivePortsArePluggedIn
<1> QED
  BY <1>6, <1>7, <1>8, <1>9, <1>10, <1>11, <1>12 DEF Inv

\* The history variables, the ports and the bits each property speaks of are
\* untouched by the steps that are left, or forgotten together.
LEMMA RestKeeps ==
  ASSUME Inv,
         \/ \E i \in Interfaces : ReportIgnored(i)
         \/ UpdateDerivates \/ Remap \/ UNCHANGED vars
  PROVE  Inv'
<1>0. TypeOK
  BY DEF Inv
<1>1. ASSUME NEW i \in Interfaces, ReportIgnored(i) PROVE Inv'
  <2>1. /\ i \in connected
        /\ active_ports' = active_ports \cup ({PortOf(i)} \ {NoPort})
        /\ UNCHANGED <<connected, index, index_in_use, hub_ports, derived, any_port,
                       one_port, fresh, held, orphans>>
    BY <1>1 DEF ReportIgnored, Active
  <2>2. \A j : PortOf(j)' = PortOf(j)
    BY <2>1 DEF PortOf
  <2>3. TypeOK'
    BY <1>0, <2>1, PortType DEF TypeOK
  <2>4. ActivePortsArePluggedIn'
    BY <2>1, <2>2 DEF Inv, ActivePortsArePluggedIn
  <2>5. /\ BitsAreNotShared' /\ IndicesInUse' /\ BitTellsHeldInputs'
        /\ HeldAreReported' /\ AnyPortOwned' /\ OnePortOwned'
    BY <2>1, <2>2 DEF Inv, BitsAreNotShared, IndicesInUse, BitTellsHeldInputs,
                      HeldAreReported, AnyPortOwned, OnePortOwned
  <2> QED
    BY <2>3, <2>4, <2>5 DEF Inv
<1>2. CASE UpdateDerivates \/ UNCHANGED vars
  <2>1. UNCHANGED <<connected, index, index_in_use, hub_ports, active_ports,
                    any_port, one_port, fresh, held, orphans>>
    BY <1>2 DEF UpdateDerivates, vars
  <2>2. \A j : PortOf(j)' = PortOf(j)
    BY <2>1 DEF PortOf
  <2>3. TypeOK'
    BY <1>0, <1>2, <2>1 DEF TypeOK, UpdateDerivates, vars
  <2>4. /\ BitsAreNotShared' /\ IndicesInUse' /\ BitTellsHeldInputs'
        /\ HeldAreReported' /\ AnyPortOwned' /\ OnePortOwned'
        /\ ActivePortsArePluggedIn'
    BY <2>1, <2>2 DEF Inv, BitsAreNotShared, IndicesInUse, BitTellsHeldInputs,
                      HeldAreReported, AnyPortOwned, OnePortOwned,
                      ActivePortsArePluggedIn
  <2> QED
    BY <2>3, <2>4 DEF Inv
<1>3. CASE Remap
  <2>1. TypeOK'
    BY <1>0, <1>3 DEF TypeOK, Remap
  <2>2. BitsAreNotShared' /\ IndicesInUse'
    BY <1>3 DEF Inv, Remap, BitsAreNotShared, IndicesInUse
  <2>3. /\ BitTellsHeldInputs' /\ HeldAreReported' /\ AnyPortOwned'
        /\ ActivePortsArePluggedIn'
    BY <1>3 DEF Remap, BitTellsHeldInputs, HeldAreReported, AnyPortOwned,
                ActivePortsArePluggedIn
  <2>4. OnePortOwned'
    BY <1>3 DEF Remap, OnePortOwned
  <2> QED
    BY <2>1, <2>2, <2>3, <2>4 DEF Inv
<1> QED
  BY <1>1, <1>2, <1>3

THEOREM Invariance == Spec => []Inv
<1>1. Inv /\ [Next]_vars => Inv'
  BY MountKeeps, UnplugKeeps, ReportKeeps, RestKeeps DEF Next
<1> QED
  BY <1>1, Initially, PTL DEF Spec
-----------------------------------------------------------------------------
\* Every variable keeps its type: the indices never leave the state word.
THEOREM TypeCorrect == Spec => []TypeOK
<1>1. Inv => TypeOK
  BY DEF Inv
<1> QED
  BY <1>1, Invariance, PTL

\* No two attached interfaces share a bit but the last.
THEOREM SharingOnlyTheLastBit == Spec => []BitsAreNotShared
<1>1. Inv => BitsAreNotShared
  BY DEF Inv
<1> QED
  BY <1>1, Invariance, PTL

\* A device's bit tells what it holds down, whatever the others do.
THEOREM BitsTellTheTruth == Spec => []BitTellsHeldInputs
<1>1. Inv => BitTellsHeldInputs
  BY DEF Inv
<1> QED
  BY <1>1, Invariance, PTL

\* An input stays on without being held only if a device was unplugged with it
\* down.
THEOREM OnlyUnpluggingSticks == Spec => []StuckOnlyByUnplugging
<1>1. Inv => StuckOnlyByUnplugging
  <2> SUFFICES ASSUME Inv, NEW u \in Usages, u \notin orphans,
                      \A i \in Interfaces : u \notin held[i]
               PROVE  any_port[u] = {} /\ \A p \in Ports : one_port[p][u] = {}
    BY DEF StuckOnlyByUnplugging
  <2>1. connected \subseteq Interfaces
    BY DEF Inv, TypeOK
  <2>2. any_port[u] = {}
    BY <2>1 DEF Inv, AnyPortOwned
  <2>3. \A p \in Ports : one_port[p][u] = {}
    BY <2>1 DEF Inv, OnePortOwned
  <2> QED
    BY <2>2, <2>3
<1> QED
  BY <1>1, Invariance, PTL

\* No port counts as active without a device.
THEOREM ActiveMeansPluggedIn == Spec => []ActivePortsArePluggedIn
<1>1. Inv => ActivePortsArePluggedIn
  BY DEF Inv
<1> QED
  BY <1>1, Invariance, PTL
=============================================================================
