----------------------------- MODULE SlotsProofs -----------------------------
(***************************************************************************)
(* Proofs about Slots: which trap a slot holds, what flash has of it, when *)
(* the gateway is about to restart, and how many traps it then shows.      *)
(*                                                                         *)
(* The handlers change the table in four ways (a packet observed, a new    *)
(* address, a new binding, a slot freed); the lemmas say what each leaves  *)
(* of a slot, and the steps of the invariant use nothing else of them.     *)
(***************************************************************************)
EXTENDS Slots, FiniteSetTheorems, TLAPS

USE SlotsAssumption

\* A trap's address is one of the addresses, and not the address of a free slot.
LEMMA AddressType ==
  ASSUME TypeOK, NEW t \in Traps
  PROVE  /\ Address(t) \in Traps \X (1..MaxMoves + 1)
         /\ Address(t) # NoAddress /\ Address(t)[1] = t /\ Address(t)[2] = at[t]
BY DEF TypeOK, Address, NoAddress, Traps

\* on_advertisement leaves every address, and every other slot, alone.
LEMMA ObservedKeeps ==
  ASSUME NEW tab \in [Slots -> Slot], NEW s \in Slots, NEW t \in Traps, NEW p \in Packets(t)
  PROVE  /\ Observed(tab, s, p) \in [Slots -> Slot]
         /\ \A u \in Slots : Observed(tab, s, p)[u].address = tab[u].address
         /\ \A u \in Slots : u # s => Observed(tab, s, p)[u] = tab[u]
         /\ Observed(tab, s, p)[s].serial = IF p.serial # 0 THEN p.serial ELSE tab[s].serial
         /\ ~Identifies(tab, s, p) => Observed(tab, s, p)[s].model = tab[s].model
<1> DEFINE model  == IF Identifies(tab, s, p) THEN p.model ELSE tab[s].model
           serial == IF p.serial # 0 THEN p.serial ELSE tab[s].serial
           row    == [address |-> tab[s].address, model |-> model, serial |-> serial]
<1>1. tab[s] \in Slot
  OBVIOUS
<1>2. p.serial \in 0..NumTraps /\ p.model \in Models
  BY DEF Packets, Traps, Model, Models
<1>3. row \in Slot
  BY <1>1, <1>2 DEF Slot
<1>4. Observed(tab, s, p) = [tab EXCEPT ![s] = row]
  BY <1>1 DEF Observed, Identifies, Slot
<1> HIDE DEF row
<1>5. /\ Observed(tab, s, p) \in [Slots -> Slot]
      /\ Observed(tab, s, p)[s] = row
      /\ \A u \in Slots : u # s => Observed(tab, s, p)[u] = tab[u]
  BY <1>3, <1>4
<1>6. row.address = tab[s].address /\ row.model = model /\ row.serial = serial
  BY DEF row
<1> QED
  BY <1>5, <1>6

\* The serial a packet shows is its sender's, if it must show one.
LEMMA PacketSerial ==
  ASSUME NEW t \in Traps, NEW p \in Packets(t)
  PROVE  /\ p.serial \in 0..NumTraps /\ p.model \in Models
         /\ t \notin Mice => p.serial = 0
         /\ t \in Mice /\ "serial" \notin PartialPackets => p.serial = t /\ p.serial # 0
BY DEF Packets, Traps, Model, Models

\* A restart reason depends only on the addresses and the models.
LEMMA ReasonSame ==
  ASSUME TypeOK, NEW tab \in [Slots -> Slot], NEW new \in [Slots -> Slot],
         \A s \in Slots : new[s].address = tab[s].address /\ new[s].model = tab[s].model
  PROVE  RestartReason(new) <=> RestartReason(tab)
<1>1. app.active \in Slots
  BY DEF TypeOK
<1>2. \A s \in Slots : Bound(new, s) <=> Bound(tab, s)
  BY DEF Bound
<1>3. IsWanted(app.active, new) <=> IsWanted(app.active, tab)
  BY <1>1, <1>2 DEF IsWanted
<1>4. \A s \in Slots : NeedsReregister(new, s) <=> NeedsReregister(tab, s)
  BY <1>2 DEF NeedsReregister
<1> QED
  BY <1>3, <1>4 DEF RestartReason

\* After schedule_restart_if_needed the timer runs exactly if there is a reason.
LEMMA ScheduleRight ==
  ASSUME app' = app, timer' = Schedule(table')
  PROVE  RestartIffReason' /\ timer' \in {"off", "armed", "due"}
<1>1. RestartReason(table)' <=> RestartReason(table')
  BY DEF RestartReason, IsWanted, NeedsReregister, Bound
<1>2. CASE RestartReason(table')
  BY <1>1, <1>2 DEF Schedule, RestartIffReason
<1>3. CASE ~RestartReason(table')
  BY <1>1, <1>3 DEF Schedule, RestartIffReason
<1> QED
  BY <1>2, <1>3

\* A boot shows what the slots hold: there is no reason left to restart.
LEMMA BootShows ==
  ASSUME NEW tab \in [Slots -> Slot], NEW d \in BOOLEAN, Boot(tab, d), table' = tab
  PROVE  /\ app' \in [active : Slots, registered : [Slots -> Models], discovery : BOOLEAN]
         /\ ~RestartReason(table)'
<1>1. PICK n \in Slots :
        /\ IsWanted(n, tab)
        /\ app' = [active     |-> n,
                   registered |-> [s \in Slots |-> IF s <= n /\ Bound(tab, s)
                                                  THEN tab[s].model ELSE "UNKNOWN"],
                   discovery  |-> d]
  BY DEF Boot
<1>2. \A s \in Slots : tab[s].model \in Models
  BY DEF Slot
<1>3. app' \in [active : Slots, registered : [Slots -> Models], discovery : BOOLEAN]
  BY <1>1, <1>2 DEF Models
<1>4. IsWanted(app.active, table)'
  BY <1>1 DEF IsWanted, Bound
<1>5. \A s \in Slots : ~NeedsReregister(table, s)'
  BY <1>1 DEF NeedsReregister, Bound
<1> QED
  BY <1>3, <1>4, <1>5 DEF RestartReason

-----------------------------------------------------------------------------
LEMMA InitInv == Init => IInv
<1> SUFFICES ASSUME Init PROVE IInv
  OBVIOUS
<1>1. \A s \in Slots : table[s] = Free /\ flash[s] = Free
  BY DEF Init
<1>2. 1 \in Slots
  BY DEF Slots
<1>3. TypeOK
  BY <1>2 DEF Init, TypeOK, Slot, Free, Models, NoAddress, Slots, Traps
<1>4. \A s \in Slots : ~Bound(table, s) /\ ~Bound(flash, s)
  BY <1>1 DEF Bound, Free
<1>5. ~RestartReason(table)
  BY <1>2, <1>4 DEF Init, RestartReason, IsWanted, NeedsReregister
<1>6. RestartIffReason
  BY <1>5 DEF Init, RestartIffReason
<1>7. AddressUnique /\ BindingsInFlash /\ OneSlotPerTrap
  BY <1>1, <1>4 DEF AddressUnique, BindingsInFlash, OneSlotPerTrap
<1>8. A24sStay
  BY <1>4 DEF Init, A24sStay
<1>9. SerialRight(table) /\ SerialRight(flash)
  BY <1>4 DEF SerialRight
<1> QED
  BY <1>3, <1>6, <1>7, <1>8, <1>9 DEF IInv

LEMMA MoveInv ==
  ASSUME IInv, NEW t \in Traps, Move(t)
  PROVE  IInv'
<1>1. TypeOK'
  BY DEF IInv, TypeOK, Move
<1>2. A24sStay'
  BY DEF IInv, TypeOK, A24sStay, Owner, Bound, Move
<1>3. AddressUnique' /\ BindingsInFlash'
  BY DEF IInv, AddressUnique, BindingsInFlash, Bound, Move
<1>4. RestartIffReason'
  BY DEF IInv, RestartIffReason, RestartReason, IsWanted, NeedsReregister, Bound, Move
<1>5. "serial" \notin PartialPackets
      => SerialRight(table)' /\ SerialRight(flash)' /\ OneSlotPerTrap'
  BY DEF IInv, SerialRight, OneSlotPerTrap, Owner, Bound, Move
<1> QED
  BY <1>1, <1>2, <1>3, <1>4, <1>5 DEF IInv

\* What depends on the addresses alone, when no slot's address changes.
LEMMA AddressesSame ==
  ASSUME IInv, at' = at, \A u \in Slots : table'[u].address = table[u].address
  PROVE  /\ AddressUnique' /\ A24sStay'
         /\ "serial" \notin PartialPackets => OneSlotPerTrap'
<1>1. AddressUnique'
  BY DEF IInv, AddressUnique, Bound
<1>2. A24sStay'
  BY DEF IInv, A24sStay, Owner, Bound
<1>3. "serial" \notin PartialPackets => OneSlotPerTrap'
  BY DEF IInv, OneSlotPerTrap, Bound
<1> QED
  BY <1>1, <1>2, <1>3

\* A model that does not change is no new reason to restart.
LEMMA ReasonKept ==
  ASSUME IInv, table' \in [Slots -> Slot], app' = app, timer' = timer,
         \A u \in Slots : table'[u].address = table[u].address /\ table'[u].model = table[u].model
  PROVE  RestartIffReason'
<1>1. RestartReason(table') <=> RestartReason(table)
  BY ReasonSame DEF IInv, TypeOK
<1>2. RestartReason(table)' <=> RestartReason(table')
  BY DEF RestartReason, IsWanted, NeedsReregister, Bound
<1> QED
  BY <1>1, <1>2 DEF IInv, RestartIffReason

LEMMA HeardAgainInv ==
  ASSUME IInv, NEW t \in Traps, NEW p \in Packets(t), NEW s \in Slots,
         HeardAgain(t, p, s), UNCHANGED <<at, app, left>>
  PROVE  IInv'
<1>1. table \in [Slots -> Slot] /\ TypeOK
  BY DEF IInv, TypeOK
<1>2. /\ table' = Observed(table, s, p)
      /\ timer' = IF Identifies(table, s, p) THEN Schedule(table') ELSE timer
      /\ flash' = flash
      /\ Bound(table, s) /\ table[s].address = Address(t)
  BY DEF HeardAgain, IsFirst, ByAddress
<1>3. /\ table' \in [Slots -> Slot]
      /\ \A u \in Slots : table'[u].address = table[u].address
      /\ \A u \in Slots : u # s => table'[u] = table[u]
      /\ table'[s].serial = IF p.serial # 0 THEN p.serial ELSE table[s].serial
      /\ ~Identifies(table, s, p) => table'[s].model = table[s].model
  BY <1>1, <1>2, ObservedKeeps
<1>4. RestartIffReason' /\ timer' \in {"off", "armed", "due"}
  <2>1. CASE Identifies(table, s, p)
    BY <1>2, <2>1, ScheduleRight
  <2>2. CASE ~Identifies(table, s, p)
    <3>1. timer' = timer
      BY <1>2, <2>2
    <3>2. \A u \in Slots : table'[u].model = table[u].model
      BY <1>3, <2>2
    <3> QED
      BY <1>1, <1>3, <3>1, <3>2, ReasonKept DEF TypeOK
  <2> QED
    BY <2>1, <2>2
<1>5. TypeOK'
  BY <1>1, <1>2, <1>3, <1>4 DEF TypeOK
<1>6. AddressUnique' /\ A24sStay' /\ ("serial" \notin PartialPackets => OneSlotPerTrap')
  BY <1>3, AddressesSame
<1>7. BindingsInFlash'
  BY <1>2, <1>3 DEF IInv, BindingsInFlash
<1>8. ASSUME "serial" \notin PartialPackets
      PROVE  SerialRight(table)' /\ SerialRight(flash)'
  <2>1. SerialRight(table) /\ SerialRight(flash)
    BY <1>8 DEF IInv
  <2>2. table[s].address[1] = t
    BY <1>1, <1>2, AddressType
  <2>3. table'[s].serial = table[s].serial
    BY <1>2, <1>3, <1>8, <2>1, <2>2, PacketSerial DEF SerialRight, Owner
  <2>4. SerialRight(table)'
    BY <1>3, <2>1, <2>3 DEF SerialRight, Owner, Bound
  <2> QED
    BY <1>2, <2>1, <2>4 DEF SerialRight, Owner, Bound
<1> QED
  BY <1>4, <1>5, <1>6, <1>7, <1>8 DEF IInv

LEMMA HeardMovedInv ==
  ASSUME IInv, NEW t \in Traps, NEW p \in Packets(t), NEW s \in Slots,
         HeardMoved(t, p, s), UNCHANGED <<at, app, left>>
  PROVE  IInv'
<1> DEFINE row   == [address |-> Address(t), model |-> table[s].model, serial |-> table[s].serial]
           moved == [table EXCEPT ![s].address = Address(t)]
<1>1. table \in [Slots -> Slot] /\ flash \in [Slots -> Slot] /\ TypeOK
  BY DEF IInv, TypeOK
<1>2. /\ table' = Observed(moved, s, p) /\ flash' = moved
      /\ timer' = IF Identifies(moved, s, p) THEN Schedule(table') ELSE timer
      /\ ByAddress(t) = {}
      /\ p.serial # 0 /\ Bound(table, s) /\ table[s].serial = p.serial
  BY DEF HeardMoved, IsFirst, BySerial
<1>3. Address(t) \in Traps \X (1..MaxMoves + 1) /\ Address(t) # NoAddress /\ Address(t)[1] = t
      /\ Address(t)[2] = at[t]
  BY <1>1, AddressType
<1>4. /\ moved \in [Slots -> Slot]
      /\ moved[s].address = Address(t) /\ moved[s].model = table[s].model
      /\ moved[s].serial = table[s].serial
      /\ \A u \in Slots : u # s => moved[u] = table[u]
  <2>1. row \in Slot
    BY <1>1, <1>3 DEF Slot
  <2>2. table[s] \in Slot
    BY <1>1
  <2> DEFINE new == [table[s] EXCEPT !.address = Address(t)]
  <2>3. new = row
    BY <2>2 DEF Slot
  <2>4. moved = [table EXCEPT ![s] = new]
    OBVIOUS
  <2> HIDE DEF new
  <2>5. moved = [table EXCEPT ![s] = row]
    BY <2>3, <2>4
  <2> HIDE DEF row, moved
  <2>6. moved \in [Slots -> Slot] /\ moved[s] = row /\ \A u \in Slots : u # s => moved[u] = table[u]
    BY <1>1, <2>1, <2>5
  <2> QED
    BY <2>6 DEF row
<1> HIDE DEF moved, row
<1>5. /\ table' \in [Slots -> Slot]
      /\ \A u \in Slots : table'[u].address = moved[u].address
      /\ \A u \in Slots : u # s => table'[u] = moved[u]
      /\ table'[s].serial = moved[s].serial
      /\ ~Identifies(moved, s, p) => table'[s].model = moved[s].model
  BY <1>2, <1>4, ObservedKeeps
<1>6. \A u \in Slots : Bound(table, u) => table[u].address # Address(t)
  BY <1>2 DEF ByAddress
<1>7. RestartIffReason' /\ timer' \in {"off", "armed", "due"}
  <2>1. CASE Identifies(moved, s, p)
    BY <1>2, <2>1, ScheduleRight
  <2>2. CASE ~Identifies(moved, s, p)
    <3>1. \A u \in Slots : /\ Bound(table', u) <=> Bound(table, u)
                           /\ table'[u].model = table[u].model
      BY <1>2, <1>3, <1>4, <1>5, <2>2 DEF Bound
    <3>2. app.active \in Slots /\ timer' = timer
      BY <1>1, <1>2, <2>2 DEF TypeOK
    <3>3. RestartReason(table)' <=> RestartReason(table)
      <4>1. IsWanted(app.active, table)' <=> IsWanted(app.active, table)
        BY <3>1, <3>2 DEF IsWanted, Bound
      <4>2. \A u \in Slots : NeedsReregister(table, u)' <=> NeedsReregister(table, u)
        BY <3>1 DEF NeedsReregister, Bound
      <4> QED
        BY <4>1, <4>2 DEF RestartReason
    <3> QED
      BY <1>1, <3>2, <3>3 DEF IInv, TypeOK, RestartIffReason
  <2> QED
    BY <2>1, <2>2
<1>8. TypeOK'
  BY <1>1, <1>2, <1>4, <1>5, <1>7 DEF TypeOK
<1>9. AddressUnique'
  BY <1>3, <1>4, <1>5, <1>6 DEF IInv, AddressUnique, Bound
<1>10. BindingsInFlash'
  BY <1>2, <1>5 DEF BindingsInFlash
<1>11. A24sStay'
  BY <1>3, <1>4, <1>5 DEF IInv, A24sStay, Owner, Bound
<1>12. ASSUME "serial" \notin PartialPackets
       PROVE  SerialRight(table)' /\ SerialRight(flash)' /\ OneSlotPerTrap'
  <2>1. SerialRight(table) /\ OneSlotPerTrap
    BY <1>12 DEF IInv
  <2>2. t \in Mice /\ p.serial = t
    BY <1>2, <1>12, PacketSerial
  <2>3. table[s].address[1] = t
    BY <1>2, <2>1, <2>2 DEF SerialRight, Owner
  <2>4. \A u \in Slots : Bound(table', u) <=> Bound(table, u)
    BY <1>2, <1>3, <1>4, <1>5 DEF Bound
  <2>5. \A u \in Slots : /\ table'[u].address[1] = table[u].address[1]
                         /\ moved[u].address[1] = table[u].address[1]
                         /\ table'[u].serial = table[u].serial
                         /\ moved[u].serial = table[u].serial
    BY <1>3, <1>4, <1>5, <2>3
  <2>6. SerialRight(table)'
    BY <2>1, <2>4, <2>5 DEF SerialRight, Owner, Bound
  <2>7. SerialRight(flash)'
    <3>1. \A u \in Slots : Bound(moved, u) <=> Bound(table, u)
      BY <2>4, <1>5 DEF Bound
    <3> QED
      BY <1>2, <2>1, <2>5, <3>1 DEF SerialRight, Owner, Bound
  <2>8. OneSlotPerTrap'
    BY <2>1, <2>4, <2>5 DEF OneSlotPerTrap, Bound
  <2> QED
    BY <2>6, <2>7, <2>8
<1> QED
  BY <1>7, <1>8, <1>9, <1>10, <1>11, <1>12 DEF IInv

LEMMA DiscoveredInv ==
  ASSUME IInv, NEW t \in Traps, NEW p \in Packets(t), NEW s \in Slots,
         Discovered(t, p, s), UNCHANGED <<at, app, left>>
  PROVE  IInv'
<1> DEFINE row == [address |-> Address(t), model |-> p.model, serial |-> p.serial]
<1>1. table \in [Slots -> Slot] /\ TypeOK
  BY DEF IInv, TypeOK
<1>2. /\ table' = [table EXCEPT ![s] = row] /\ flash' = table'
      /\ timer' = Schedule(table')
      /\ ByAddress(t) = {} /\ BySerial(p) = {}
  BY DEF Discovered
<1>3. /\ Address(t) \in Traps \X (1..MaxMoves + 1) /\ Address(t) # NoAddress
      /\ Address(t)[1] = t /\ Address(t)[2] = at[t]
  BY <1>1, AddressType
<1>4. row \in Slot
  BY <1>3, PacketSerial DEF Slot
<1>5. row.address = Address(t) /\ row.serial = p.serial
  OBVIOUS
<1> HIDE DEF row
<1>6. /\ table' \in [Slots -> Slot]
      /\ table'[s].address = Address(t) /\ table'[s].serial = p.serial
      /\ \A u \in Slots : u # s => table'[u] = table[u]
  BY <1>1, <1>2, <1>4, <1>5
<1>7. \A u \in Slots : Bound(table, u) => table[u].address # Address(t)
  BY <1>2 DEF ByAddress
<1>8. RestartIffReason' /\ timer' \in {"off", "armed", "due"}
  BY <1>2, ScheduleRight
<1>9. TypeOK'
  BY <1>1, <1>2, <1>6, <1>8 DEF TypeOK
<1>10. AddressUnique'
  BY <1>3, <1>6, <1>7 DEF IInv, AddressUnique, Bound
<1>11. BindingsInFlash'
  BY <1>2 DEF BindingsInFlash
<1>12. A24sStay'
  BY <1>3, <1>6 DEF IInv, A24sStay, Owner, Bound
<1>13. ASSUME "serial" \notin PartialPackets
       PROVE  SerialRight(table)' /\ SerialRight(flash)' /\ OneSlotPerTrap'
  <2>1. SerialRight(table) /\ OneSlotPerTrap
    BY <1>13 DEF IInv
  <2>2. p.serial = IF t \in Mice THEN t ELSE 0
    BY <1>13, PacketSerial
  <2>3. SerialRight(table)'
    BY <1>3, <1>6, <2>1, <2>2 DEF SerialRight, Owner, Bound
  <2>4. SerialRight(flash)'
    BY <1>2, <2>3 DEF SerialRight, Owner, Bound
  <2>5. \A u \in Slots : Bound(table, u) => table[u].address[1] # t
    <3> SUFFICES ASSUME NEW u \in Slots, Bound(table, u), table[u].address[1] = t
                 PROVE  FALSE
      OBVIOUS
    <3>1. CASE t \in Mice
      <4>1. table[u].serial = t /\ p.serial = t /\ p.serial # 0
        BY <1>13, <2>1, <3>1, PacketSerial DEF SerialRight, Owner
      <4> QED
        BY <1>2, <4>1 DEF BySerial
    <3>2. CASE t \notin Mice
      <4>1. table[u].address \in Traps \X (1..MaxMoves + 1)
        BY <1>1 DEF Slot, Bound
      <4>2. table[u].address[2] = 1 /\ at[t] = 1
        BY <3>2 DEF IInv, A24sStay, Owner
      <4>3. table[u].address = Address(t)
        BY <1>3, <4>1, <4>2
      <4> QED
        BY <1>7, <4>3
    <3> QED
      BY <3>1, <3>2
  <2>6. OneSlotPerTrap'
    BY <1>3, <1>6, <2>1, <2>5 DEF OneSlotPerTrap, Bound
  <2> QED
    BY <2>3, <2>4, <2>6
<1> QED
  BY <1>8, <1>9, <1>10, <1>11, <1>12, <1>13 DEF IInv

LEMMA AdvertiseInv ==
  ASSUME IInv, NEW t \in Traps, Advertise(t)
  PROVE  IInv'
<1>1. PICK p \in Packets(t), s \in Slots :
        HeardAgain(t, p, s) \/ HeardMoved(t, p, s) \/ Discovered(t, p, s)
  BY DEF Advertise
<1>2. UNCHANGED <<at, app, left>>
  BY DEF Advertise
<1> QED
  BY <1>1, <1>2, HeardAgainInv, HeardMovedInv, DiscoveredInv

LEMMA SerialReadInv ==
  ASSUME IInv, NEW s \in Slots, SerialRead(s)
  PROVE  IInv'
<1> DEFINE row == [address |-> table[s].address, model |-> "A24", serial |-> table[s].serial]
           new == [table[s] EXCEPT !.model = "A24"]
<1>1. table \in [Slots -> Slot] /\ TypeOK
  BY DEF IInv, TypeOK
<1>2. /\ table' = [table EXCEPT ![s] = new] /\ flash' = table' /\ timer' = Schedule(table')
      /\ UNCHANGED <<at, app, left>>
  BY DEF SerialRead
<1>3. new = row
  <2>1. table[s] \in Slot
    BY <1>1
  <2> QED
    BY <2>1 DEF Slot
<1> HIDE DEF new
<1>4. row \in Slot
  BY <1>1 DEF Slot, Models
<1>5. row.address = table[s].address /\ row.serial = table[s].serial
  OBVIOUS
<1> HIDE DEF row
<1>6. /\ table' \in [Slots -> Slot]
      /\ \A u \in Slots : table'[u].address = table[u].address /\ table'[u].serial = table[u].serial
  BY <1>1, <1>2, <1>3, <1>4, <1>5
<1>7. RestartIffReason' /\ timer' \in {"off", "armed", "due"}
  BY <1>2, ScheduleRight
<1>8. TypeOK'
  BY <1>1, <1>2, <1>6, <1>7 DEF TypeOK
<1>9. AddressUnique' /\ A24sStay' /\ ("serial" \notin PartialPackets => OneSlotPerTrap')
  BY <1>2, <1>6, AddressesSame
<1>10. BindingsInFlash'
  BY <1>2 DEF BindingsInFlash
<1>11. "serial" \notin PartialPackets => SerialRight(table)' /\ SerialRight(flash)'
  BY <1>2, <1>6 DEF IInv, SerialRight, Owner, Bound
<1> QED
  BY <1>7, <1>8, <1>9, <1>10, <1>11 DEF IInv

\* Of one slot (forget_trap) or of all (forget_all_traps).
LEMMA ForgetInv ==
  ASSUME IInv, NEW S \in SUBSET Slots, Forget(S)
  PROVE  IInv'
<1>1. table \in [Slots -> Slot] /\ flash \in [Slots -> Slot] /\ TypeOK
  BY DEF IInv, TypeOK
<1>2. Free \in Slot /\ Free.address = NoAddress
  BY DEF Free, Slot, Models
<1>3. timer' = Schedule(table') /\ UNCHANGED <<at, app>> /\ left' \in [Events -> Nat]
  BY <1>1 DEF Forget, Spend, TypeOK, Events
<1>4. RestartIffReason' /\ timer' \in {"off", "armed", "due"}
  BY <1>3, ScheduleRight
<1>5. /\ table' \in [Slots -> Slot] /\ flash' \in [Slots -> Slot]
      /\ \A u \in Slots : table'[u] = table[u] \/ ~Bound(table', u)
      /\ (table' = table /\ flash' = flash) \/ flash' = table'
  BY <1>1, <1>2 DEF Forget, Bound
<1>6. TypeOK'
  BY <1>1, <1>3, <1>4, <1>5 DEF TypeOK
<1>7. \A u \in Slots : Bound(table', u) => Bound(table, u) /\ table'[u] = table[u]
  BY <1>5 DEF Bound
<1>8. AddressUnique' /\ A24sStay'
  BY <1>3, <1>7 DEF IInv, AddressUnique, A24sStay, Owner, Bound
<1>9. BindingsInFlash'
  BY <1>5 DEF IInv, BindingsInFlash
<1>10. ASSUME "serial" \notin PartialPackets
       PROVE  SerialRight(table)' /\ SerialRight(flash)' /\ OneSlotPerTrap'
  <2>1. SerialRight(table) /\ SerialRight(flash) /\ OneSlotPerTrap
    BY <1>10 DEF IInv
  <2>2. SerialRight(table)' /\ OneSlotPerTrap'
    BY <1>7, <2>1 DEF SerialRight, OneSlotPerTrap, Owner, Bound
  <2>3. SerialRight(flash)'
    BY <1>5, <2>1, <2>2 DEF SerialRight, Owner, Bound
  <2> QED
    BY <2>2, <2>3
<1> QED
  BY <1>4, <1>6, <1>8, <1>9, <1>10 DEF IInv

\* Nothing but the timer, flash's copy of the same bindings, or discovery changes.
LEMMA QuietInv ==
  ASSUME IInv, SetDiscovery \/ Sync \/ TimerAges \/ UNCHANGED vars
  PROVE  IInv'
<1>1. TypeOK /\ TypeOK'
  BY DEF IInv, TypeOK, SetDiscovery, Sync, TimerAges, vars
<1>2. UNCHANGED <<at, table>> /\ (flash' = flash \/ flash' = table)
  BY DEF SetDiscovery, Sync, TimerAges, vars
<1>3. /\ app'.active = app.active /\ app'.registered = app.registered
      /\ timer' = "off" <=> timer = "off"
  BY <1>1 DEF TypeOK, SetDiscovery, Sync, TimerAges, vars
<1>4. RestartIffReason'
  BY <1>2, <1>3 DEF IInv, RestartIffReason, RestartReason, IsWanted, NeedsReregister, Bound
<1>5. AddressUnique' /\ BindingsInFlash' /\ A24sStay'
  BY <1>2 DEF IInv, AddressUnique, BindingsInFlash, A24sStay, Owner, Bound
<1>6. "serial" \notin PartialPackets
      => SerialRight(table)' /\ SerialRight(flash)' /\ OneSlotPerTrap'
  BY <1>2 DEF IInv, SerialRight, OneSlotPerTrap, Owner, Bound
<1> QED
  BY <1>1, <1>4, <1>5, <1>6 DEF IInv

\* A boot with the slots as they are, or as flash has them.
LEMMA BootInv ==
  ASSUME IInv, NEW d \in BOOLEAN, NEW tab \in {table, flash}, Boot(tab, d),
         table' = tab, flash' = tab, timer' = "off", at' = at, left' \in [Events -> Nat]
  PROVE  IInv'
<1>1. TypeOK /\ tab \in [Slots -> Slot]
  BY DEF IInv, TypeOK
<1>2. /\ app' \in [active : Slots, registered : [Slots -> Models], discovery : BOOLEAN]
      /\ ~RestartReason(table)'
  BY <1>1, BootShows
<1>3. TypeOK'
  BY <1>1, <1>2 DEF TypeOK
<1>4. RestartIffReason'
  BY <1>2 DEF RestartIffReason
<1>5. \A u \in Slots : table'[u].address = table[u].address
  BY DEF IInv, BindingsInFlash
<1>6. AddressUnique' /\ A24sStay' /\ ("serial" \notin PartialPackets => OneSlotPerTrap')
  BY <1>5, AddressesSame
<1>7. BindingsInFlash'
  BY DEF BindingsInFlash
<1>8. "serial" \notin PartialPackets => SerialRight(table)' /\ SerialRight(flash)'
  BY DEF IInv, SerialRight, Owner, Bound
<1> QED
  BY <1>3, <1>4, <1>6, <1>7, <1>8 DEF IInv

LEMMA RestartsInv ==
  ASSUME IInv, TimerFires \/ Restart \/ PowerLoss
  PROVE  IInv'
<1>1. app.discovery \in BOOLEAN /\ left \in [Events -> Nat]
  BY DEF IInv, TypeOK
<1>2. ASSUME NEW e \in Events, Spend(e)
      PROVE  left' \in [Events -> Nat]
  BY <1>1, <1>2 DEF Spend
<1>3. CASE TimerFires
  <2>1. RestartReason(table)
    BY <1>3 DEF TimerFires, IInv, RestartIffReason
  <2>2. /\ Boot(table, app.discovery) /\ table' = table /\ flash' = table
        /\ timer' = "off" /\ at' = at /\ left' \in [Events -> Nat]
    BY <1>1, <1>3, <2>1 DEF TimerFires
  <2> QED
    BY <1>1, <2>2, BootInv
<1>4. CASE Restart
  <2>1. /\ Boot(table, app.discovery) /\ table' = table /\ flash' = table
        /\ timer' = "off" /\ at' = at /\ left' \in [Events -> Nat]
    BY <1>2, <1>4 DEF Restart, Events
  <2> QED
    BY <1>1, <2>1, BootInv
<1>5. CASE PowerLoss
  <2>1. PICK d \in BOOLEAN : Boot(flash, d)
    BY <1>5 DEF PowerLoss
  <2>2. /\ table' = flash /\ flash' = flash
        /\ timer' = "off" /\ at' = at /\ left' \in [Events -> Nat]
    BY <1>2, <1>5 DEF PowerLoss, Events
  <2> QED
    BY <2>1, <2>2, BootInv
<1> QED
  BY <1>3, <1>4, <1>5

LEMMA StepInv == IInv /\ [Next]_vars => IInv'
<1> SUFFICES ASSUME IInv, [Next]_vars PROVE IInv'
  OBVIOUS
<1>1. ASSUME NEW t \in Traps, Move(t) \/ Advertise(t) PROVE IInv'
  BY <1>1, MoveInv, AdvertiseInv
<1>2. ASSUME NEW s \in Slots, SerialRead(s) \/ ForgetTrap(s) PROVE IInv'
  BY <1>2, SerialReadInv, ForgetInv DEF ForgetTrap
<1>5. CASE ForgetAllTraps
  BY <1>5, ForgetInv DEF ForgetAllTraps
<1>3. CASE SetDiscovery \/ Sync \/ TimerAges \/ UNCHANGED vars
  BY <1>3, QuietInv
<1>4. CASE TimerFires \/ Restart \/ PowerLoss
  BY <1>4, RestartsInv
<1> QED
  BY <1>1, <1>2, <1>3, <1>4, <1>5 DEF Next

-----------------------------------------------------------------------------
\* The inductive invariant holds in every reachable state.
THEOREM InvariantHolds == Spec => []IInv
BY InitInv, StepInv, PTL DEF Spec

\* find_trap_ finds at most one slot for an address.
THEOREM AddressUniqueHolds == Spec => []AddressUnique
<1>1. IInv => AddressUnique
  BY DEF IInv
<1> QED
  BY <1>1, InvariantHolds, PTL

\* The restart timer runs exactly while the slots differ from what was
\* registered at boot (schedule_restart_if_needed is called wherever it must be).
THEOREM RestartIffReasonHolds == Spec => []RestartIffReason
<1>1. IInv => RestartIffReason
  BY DEF IInv
<1> QED
  BY <1>1, InvariantHolds, PTL

\* Whatever moment the power fails at, no binding, no forgetting and no new
\* address is lost.
THEOREM BindingsInFlashHolds == Spec => []BindingsInFlash
<1>1. IInv => BindingsInFlash
  BY DEF IInv
<1> QED
  BY <1>1, InvariantHolds, PTL

\* With packets that always show the serial, a trap never holds two slots.
THEOREM OneSlotPerTrapHolds ==
  ASSUME "serial" \notin PartialPackets
  PROVE  Spec => []OneSlotPerTrap
<1>1. IInv => OneSlotPerTrap
  BY DEF IInv
<1> QED
  BY <1>1, InvariantHolds, PTL

-----------------------------------------------------------------------------
(***************************************************************************)
(* How many traps there are.  Until one is forgotten the slots in use are  *)
(* the first ones, as a new trap gets the first that is free.              *)
(***************************************************************************)
Packed ==
  /\ left["forget"] <= Budget["forget"]
  /\ left["forget"] = Budget["forget"] =>
       \A s, u \in Slots : Bound(table, s) /\ u <= s => Bound(table, u)

LEMMA InitPacked == Init => Packed
BY DEF Init, Packed, Bound, Free, Events

\* A step that binds and frees no slot.
LEMMA PackedKept ==
  ASSUME Packed, left' \in [Events -> Nat], left'["forget"] = left["forget"],
         \A s \in Slots : Bound(table, s)' <=> Bound(table, s)
  PROVE  Packed'
<1>1. Budget' = Budget /\ Slots' = Slots
  BY DEF Slots
<1> QED
  BY <1>1 DEF Packed

LEMMA HeardPacked ==
  ASSUME IInv, Packed, NEW t \in Traps, NEW p \in Packets(t), NEW s \in Slots,
         HeardAgain(t, p, s) \/ HeardMoved(t, p, s) \/ Discovered(t, p, s), UNCHANGED left
  PROVE  Packed'
<1>1. TypeOK /\ table \in [Slots -> Slot] /\ left \in [Events -> Nat]
  BY DEF IInv, TypeOK
<1>2. CASE HeardAgain(t, p, s)
  <2>1. \A u \in Slots : table'[u].address = table[u].address
    BY <1>1, <1>2, ObservedKeeps DEF HeardAgain
  <2> QED
    BY <1>1, <2>1, PackedKept DEF Bound
<1>3. CASE HeardMoved(t, p, s)
  <2> DEFINE moved == [table EXCEPT ![s].address = Address(t)]
  <2>1. Bound(table, s) /\ table' = Observed(moved, s, p)
    BY <1>3 DEF HeardMoved, IsFirst, BySerial
  <2>2. Address(t) # NoAddress /\ Address(t) \in Traps \X (1..MaxMoves + 1)
    BY <1>1, AddressType
  <2>3. /\ moved \in [Slots -> Slot] /\ moved[s].address = Address(t)
        /\ \A u \in Slots : u # s => moved[u] = table[u]
    BY <1>1, <2>2 DEF Slot
  <2> HIDE DEF moved
  <2>4. \A u \in Slots : table'[u].address = moved[u].address
    BY <2>1, <2>3, ObservedKeeps
  <2>5. \A u \in Slots : Bound(table, u)' <=> Bound(table, u)
    BY <2>1, <2>2, <2>3, <2>4 DEF Bound
  <2> QED
    BY <1>1, <2>5, PackedKept
<1>4. CASE Discovered(t, p, s)
  <2> DEFINE row == [address |-> Address(t), model |-> p.model, serial |-> p.serial]
  <2>1. table' = [table EXCEPT ![s] = row] /\ IsFirst(s, FreeSlots)
    BY <1>4 DEF Discovered
  <2>2. row.address # NoAddress
    BY <1>1, AddressType
  <2> HIDE DEF row
  <2>3. \A u \in Slots : Bound(table, u)' <=> u = s \/ Bound(table, u)
    BY <1>1, <2>1, <2>2 DEF Bound
  <2>4. \A u \in Slots : u < s => Bound(table, u)
    BY <2>1 DEF IsFirst, FreeSlots, Slots
  <2> QED
    BY <2>3, <2>4 DEF Packed, Slots
<1> QED
  BY <1>2, <1>3, <1>4

LEMMA StepPacked == IInv /\ Packed /\ [Next]_vars => Packed'
<1> SUFFICES ASSUME IInv, Packed, [Next]_vars PROVE Packed'
  OBVIOUS
<1>1. TypeOK /\ left \in [Events -> Nat] /\ Budget \in [Events -> Nat] /\ table \in [Slots -> Slot]
  BY DEF IInv, TypeOK
<1>2. ASSUME NEW t \in Traps, Advertise(t) PROVE Packed'
  BY <1>2, HeardPacked DEF Advertise
<1>3. ASSUME NEW s \in Slots, SerialRead(s) PROVE Packed'
  <2>1. table' = [table EXCEPT ![s].model = "A24"] /\ left' = left
    BY <1>3 DEF SerialRead
  <2>2. \A u \in Slots : table'[u].address = table[u].address
    BY <1>1, <2>1 DEF Slot
  <2> QED
    BY <1>1, <2>1, <2>2, PackedKept DEF Bound
<1>4. ASSUME NEW S, Forget(S) PROVE Packed'
  <2>1. left'["forget"] < Budget["forget"]
    BY <1>1, <1>4 DEF Forget, Spend, Packed, Events
  <2>2. left'["forget"] \in Nat /\ Budget["forget"] \in Nat
    BY <1>1, <1>4 DEF Forget, Spend, Events
  <2> QED
    BY <2>1, <2>2 DEF Packed
<1>5. ASSUME UNCHANGED left, table' = table PROVE Packed'
  BY <1>1, <1>5, PackedKept DEF Bound
<1>6. CASE Restart
  <2>1. table' = table /\ left' \in [Events -> Nat] /\ left'["forget"] = left["forget"]
    BY <1>1, <1>6 DEF Restart, Spend, Events
  <2> QED
    BY <2>1, PackedKept DEF Bound
<1>7. CASE PowerLoss
  <2>1. table' = flash /\ left' \in [Events -> Nat] /\ left'["forget"] = left["forget"]
    BY <1>1, <1>7 DEF PowerLoss, Spend, Events
  <2>2. \A u \in Slots : table'[u].address = table[u].address
    BY <2>1 DEF IInv, BindingsInFlash
  <2> QED
    BY <2>1, <2>2, PackedKept DEF Bound
<1>8. ASSUME NEW t \in Traps, Move(t) PROVE Packed'
  BY <1>5, <1>8 DEF Move
<1>9. CASE SetDiscovery \/ Sync \/ TimerAges \/ TimerFires \/ UNCHANGED vars
  BY <1>5, <1>9 DEF SetDiscovery, Sync, TimerAges, TimerFires, vars
<1> QED
  BY <1>2, <1>3, <1>4, <1>6, <1>7, <1>8, <1>9 DEF Next, ForgetTrap, ForgetAllTraps

\* The gateway that has settled registered as many trap devices as it discovered
\* traps, whatever addresses they took and whenever the power failed; up to the
\* first Forget Trap, which may leave a free slot between others.
THEOREM RegistersTrapsDiscoveredHolds == Spec => []RegistersTrapsDiscovered
<1>1. ASSUME IInv, Packed PROVE RegistersTrapsDiscovered
  <2> SUFFICES ASSUME timer = "off", left["forget"] = Budget["forget"]
               PROVE  LET bound == Cardinality({s \in Slots : Bound(table, s)}) IN
                      app.active = IF bound = 0 THEN 1 ELSE bound
    BY DEF RegistersTrapsDiscovered
  <2> DEFINE B == {s \in Slots : Bound(table, s)}
             n == app.active
  <2>1. n \in Slots /\ n \in Nat /\ n >= 1 /\ 1 \in Slots
    BY <1>1 DEF IInv, TypeOK, Slots
  <2>2. IsWanted(n, table)
    BY <1>1 DEF IInv, RestartIffReason, RestartReason
  <2>3. CASE Bound(table, n)
    <3>1. B = 1..n
      BY <1>1, <2>1, <2>2, <2>3 DEF Packed, IsWanted, Slots
    <3>2. Cardinality(1..n) = n
      BY <2>1, FS_Interval
    <3>3. Cardinality(B) = n
      <4> HIDE DEF B, n
      <4> QED
        BY <3>1, <3>2
    <3>4. n # 0
      BY <2>1
    <3> QED
      BY <3>3, <3>4
  <2>4. CASE ~Bound(table, n)
    <3>1. n = 1
      BY <2>2, <2>4 DEF IsWanted
    <3>2. B = {}
      BY <2>2, <2>4, <3>1 DEF IsWanted, Slots
    <3>3. Cardinality(B) = 0
      BY <3>2, FS_EmptySet
    <3> QED
      BY <3>1, <3>3
  <2> QED
    BY <2>3, <2>4
<1>2. Spec => []Packed
  BY InitInv, InitPacked, StepInv, StepPacked, PTL DEF Spec
<1> QED
  BY <1>1, <1>2, InvariantHolds, PTL
=============================================================================
