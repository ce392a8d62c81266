-------------------------------- MODULE Slots --------------------------------
(***************************************************************************)
(* Which trap a slot holds, and what Home Assistant is shown of it.        *)
(*                                                                         *)
(* The hub binds a trap it hears to a slot, follows a Mouse Trap to a new  *)
(* address by its serial, and unbinds on Forget Trap.  A slot's entities   *)
(* are registered at boot, so a change of the slots in use, or of a slot's *)
(* model, is followed by a restart 5 s later.  Bindings are in flash.      *)
(*                                                                         *)
(* Trap t's n-th address is <<t, n>>: an address is never used twice.      *)
(* <<0, 0>> is the address 0 of a free slot, and 0 the serial not known.   *)
(***************************************************************************)
EXTENDS Integers, FiniteSets

CONSTANTS NumSlots,      \* slots compiled in
          NumTraps,      \* traps in the air
          Mice,          \* the Mouse Traps among them; the others are A24s
          PartialPackets,\* what a packet may lack: "model", "serial"
          MaxMoves,      \* bound: changes of a Mouse Trap's address
          Budget         \* bound: how often each event happens

Slots  == 1..NumSlots
Traps  == 1..NumTraps
Events == {"forget", "restart", "power"}

ASSUME SlotsAssumption ==
  /\ NumSlots \in Nat \ {0} /\ NumTraps \in Nat /\ MaxMoves \in Nat
  /\ Mice \subseteq Traps
  /\ PartialPackets \subseteq {"model", "serial"}
  /\ Budget \in [Events -> Nat]

VARIABLES
  at,      \* how often each trap has changed its address
  table,   \* prefs_ of each slot: address, model, serial_raw
  flash,   \* what flash holds of table
  app,     \* active_slots_, registered_model_, discovery_enabled_
  timer,   \* "slots_restart": off, armed, or due
  left     \* events still to come

vars == <<at, table, flash, app, timer, left>>

Models    == {"UNKNOWN", "A24", "C20"}
NoAddress == <<0, 0>>
Free      == [address |-> NoAddress, model |-> "UNKNOWN", serial |-> 0]
Address(t) == <<t, at[t]>>
Model(t)   == IF t \in Mice THEN "C20" ELSE "A24"

Bound(tab, s) == tab[s].address # NoAddress
IsFirst(s, S)  == s \in S /\ \A u \in S : s <= u

-----------------------------------------------------------------------------
(***************************************************************************)
(* The restart.                                                            *)
(***************************************************************************)
\* n is wanted_slots_: up to the highest bound one, and at least one.
IsWanted(n, tab) ==
  /\ n = 1 \/ Bound(tab, n)
  /\ \A s \in Slots : Bound(tab, s) => s <= n

NeedsReregister(tab, s) ==
  s <= app.active /\ Bound(tab, s) /\ app.registered[s] # tab[s].model

RestartReason(tab) ==
  ~IsWanted(app.active, tab) \/ \E s \in Slots : NeedsReregister(tab, s)

\* schedule_restart_if_needed, with the table as it is then.
Schedule(tab) == IF RestartReason(tab) THEN "armed" ELSE "off"

\* setup, after the slots were loaded as tab, with discovery as restored.
Boot(tab, discovery) ==
  \E n \in Slots :
    /\ IsWanted(n, tab)
    /\ app' = [active     |-> n,
               registered |-> [s \in Slots |-> IF s <= n /\ Bound(tab, s)
                                              THEN tab[s].model ELSE "UNKNOWN"],
               discovery  |-> discovery]

Init ==
  /\ at = [t \in Traps |-> 1]
  /\ table = [s \in Slots |-> Free]
  /\ flash = table
  /\ app = [active |-> 1, registered |-> [s \in Slots |-> "UNKNOWN"], discovery |-> TRUE]
  /\ timer = "off"
  /\ left = Budget

Spend(e) == left[e] > 0 /\ left' = [left EXCEPT ![e] = @ - 1]

-----------------------------------------------------------------------------
(***************************************************************************)
(* The radio.  A packet of t shows its model, and a Mouse Trap's its       *)
(* serial, unless the half of it that has them was not received.           *)
(***************************************************************************)
Packets(t) ==
  [model  : {Model(t)} \cup (IF "model" \in PartialPackets THEN {"UNKNOWN"} ELSE {}),
   serial : IF t \notin Mice THEN {0}
            ELSE {t} \cup (IF "serial" \in PartialPackets THEN {0} ELSE {})]

Move(t) ==
  /\ t \in Mice /\ at[t] <= MaxMoves
  /\ at' = [at EXCEPT ![t] = @ + 1]
  /\ UNCHANGED <<table, flash, app, timer, left>>

ByAddress(t) == {s \in Slots : Bound(table, s) /\ table[s].address = Address(t)}
BySerial(p)  == {s \in Slots : p.serial # 0 /\ Bound(table, s) /\ table[s].serial = p.serial}
FreeSlots    == {s \in Slots : ~Bound(table, s)}

\* on_advertisement: a model and a serial not known before are taken over, and
\* a model is followed by schedule_restart_if_needed.
Identifies(tab, s, p) == tab[s].model = "UNKNOWN" /\ p.model # "UNKNOWN"

Observed(tab, s, p) ==
  [tab EXCEPT ![s] =
     [address |-> @.address,
      model   |-> IF Identifies(tab, s, p) THEN p.model ELSE @.model,
      serial  |-> IF p.serial # 0 THEN p.serial ELSE @.serial]]

\* parse_device, by how it finds the slot s.
HeardAgain(t, p, s) ==
  /\ IsFirst(s, ByAddress(t))
  /\ table' = Observed(table, s, p)
  /\ timer' = IF Identifies(table, s, p) THEN Schedule(table') ELSE timer
  /\ UNCHANGED flash

\* Mutant: the new address is not flushed.
HeardMovedUnflushed(t, p, s) ==
  LET moved == [table EXCEPT ![s].address = Address(t)] IN
  /\ ByAddress(t) = {} /\ IsFirst(s, BySerial(p))
  /\ table' = Observed(moved, s, p)
  /\ timer' = IF Identifies(moved, s, p) THEN Schedule(table') ELSE timer
  /\ UNCHANGED flash

HeardMoved(t, p, s) ==
  LET moved == [table EXCEPT ![s].address = Address(t)] IN
  /\ ByAddress(t) = {} /\ IsFirst(s, BySerial(p))
  /\ flash' = moved                                 \* rebind_address
  /\ table' = Observed(moved, s, p)
  /\ timer' = IF Identifies(moved, s, p) THEN Schedule(table') ELSE timer

\* Mutant: a trap is not looked for by its serial.
DiscoveredByAddressOnly(t, p, s) ==
  LET new == [table EXCEPT ![s] = [address |-> Address(t), model |-> p.model, serial |-> p.serial]] IN
  /\ ByAddress(t) = {} /\ IsFirst(s, FreeSlots) /\ app.discovery
  /\ flash' = new /\ table' = new /\ timer' = Schedule(new)

\* Mutant: the slot is bound and the restart forgotten.
DiscoveredUnscheduled(t, p, s) ==
  LET new == [table EXCEPT ![s] = [address |-> Address(t), model |-> p.model, serial |-> p.serial]] IN
  /\ ByAddress(t) = {} /\ BySerial(p) = {} /\ IsFirst(s, FreeSlots) /\ app.discovery
  /\ flash' = new /\ table' = new /\ timer' = timer

Discovered(t, p, s) ==
  LET new == [table EXCEPT ![s] = [address |-> Address(t), model |-> p.model, serial |-> p.serial]] IN
  /\ ByAddress(t) = {} /\ BySerial(p) = {} /\ IsFirst(s, FreeSlots) /\ app.discovery
  /\ flash' = new /\ table' = new                   \* bind
  /\ timer' = Schedule(new)

Advertise(t) ==
  /\ \E p \in Packets(t), s \in Slots :
       HeardAgain(t, p, s) \/ HeardMoved(t, p, s) \/ Discovered(t, p, s)
  /\ UNCHANGED <<at, app, left>>

\* Mutant: the model is noted and the restart forgotten.
SerialReadUnscheduled(s) ==
  /\ Bound(table, s) /\ table[s].address[1] \notin Mice
  /\ table[s].model = "UNKNOWN"
  /\ table' = [table EXCEPT ![s].model = "A24"]
  /\ flash' = table'
  /\ UNCHANGED <<at, app, timer, left>>

\* apply_a24_characteristic: a session with a trap of unknown model reads an
\* A24's serial.
SerialRead(s) ==
  /\ Bound(table, s) /\ table[s].address[1] \notin Mice
  /\ table[s].model = "UNKNOWN"
  /\ table' = [table EXCEPT ![s].model = "A24"]
  /\ flash' = table'
  /\ timer' = Schedule(table')
  /\ UNCHANGED <<at, app, left>>

-----------------------------------------------------------------------------
(***************************************************************************)
(* The user, flash and time.                                               *)
(***************************************************************************)
Forget(S) ==
  /\ Spend("forget")
  /\ table' = [s \in Slots |-> IF s \in S /\ Bound(table, s) THEN Free ELSE table[s]]
  /\ flash' = IF \E s \in S : Bound(table, s) THEN table' ELSE flash    \* unbind
  /\ timer' = Schedule(table')
  /\ UNCHANGED <<at, app>>

ForgetTrap(s)  == Forget({s})
ForgetAllTraps == Forget(Slots)

SetDiscovery ==
  /\ app' = [app EXCEPT !.discovery = ~@]
  /\ UNCHANGED <<at, table, flash, timer, left>>

\* The preferences are written back every so often.
Sync ==
  /\ flash # table
  /\ flash' = table
  /\ UNCHANGED <<at, table, app, timer, left>>

TimerAges ==
  /\ timer = "armed"
  /\ timer' = "due"
  /\ UNCHANGED <<at, table, flash, app, left>>

\* Mutant: the timer is set again instead of the restart.
TimerFiresAgain ==
  /\ timer = "due"
  /\ timer' = Schedule(table)
  /\ UNCHANGED <<at, table, flash, app, left>>

\* safe_reboot writes the preferences back first.
TimerFires ==
  /\ timer = "due" /\ timer' = "off"
  /\ IF RestartReason(table) THEN flash' = table /\ Boot(table, app.discovery)
     ELSE UNCHANGED <<flash, app>>
  /\ UNCHANGED <<at, table, left>>

\* A restart asked for otherwise: a button, an update.
Restart ==
  /\ Spend("restart")
  /\ flash' = table /\ Boot(table, app.discovery)
  /\ timer' = "off"
  /\ UNCHANGED <<at, table>>

PowerLoss ==
  /\ Spend("power")
  /\ table' = flash
  /\ \E d \in BOOLEAN : Boot(flash, d)
  /\ timer' = "off"
  /\ UNCHANGED <<at, flash>>

Next ==
  \/ \E t \in Traps : Move(t) \/ Advertise(t)
  \/ \E s \in Slots : SerialRead(s) \/ ForgetTrap(s)
  \/ ForgetAllTraps \/ SetDiscovery \/ Sync \/ TimerAges \/ TimerFires \/ Restart \/ PowerLoss

Spec == Init /\ [][Next]_vars

\* The scheduler's clock advances and runs what is due.
FairSpec == Spec /\ WF_vars(TimerAges) /\ WF_vars(TimerFires)

-----------------------------------------------------------------------------
Slot == [address : {NoAddress} \cup (Traps \X (1..MaxMoves + 1)), model : Models,
         serial : 0..NumTraps]

\* Every variable has its type.
TypeOK ==
  /\ at \in [Traps -> 1..MaxMoves + 1]
  /\ table \in [Slots -> Slot] /\ flash \in [Slots -> Slot]
  /\ app \in [active : Slots, registered : [Slots -> Models], discovery : BOOLEAN]
  /\ timer \in {"off", "armed", "due"}
  /\ left \in [Events -> Nat]

\* find_trap_ is unambiguous: no two slots are bound to one address.
AddressUnique ==
  \A s, u \in Slots :
    Bound(table, s) /\ table[s].address = table[u].address => s = u

\* A restart is on its way exactly while what Home Assistant was shown at boot
\* differs from the slots: nobody waits for entities that never come, and the
\* gateway does not restart for a difference that has gone.
RestartIffReason == timer # "off" <=> RestartReason(table)

\* A binding is in flash as soon as it is made: a power loss forgets no trap,
\* brings no forgotten one back, and loses no new address.
BindingsInFlash == \A s \in Slots : flash[s].address = table[s].address

\* A trap holds one slot, whatever its address: none is counted twice.
OneSlotPerTrap ==
  \A s, u \in Slots :
    /\ Bound(table, s) /\ Bound(table, u)
    /\ table[s].address[1] = table[u].address[1]
    => s = u

\* Traps Discovered: the gateway registers this many trap devices (at least one),
\* once it has settled - until a trap is forgotten: it registers up to the highest
\* slot in use, a free one below it included.
RegistersTrapsDiscovered ==
  timer = "off" /\ left["forget"] = Budget["forget"] =>
    LET bound == Cardinality({s \in Slots : Bound(table, s)}) IN
    app.active = IF bound = 0 THEN 1 ELSE bound

(***************************************************************************)
(* The inductive invariant behind the first four of them (proved in        *)
(* SlotsProofs).  A slot's owner is the trap its address belongs to: an    *)
(* A24 has only one address, and of a Mouse Trap the slot has the serial,  *)
(* in RAM and in flash, as long as every packet shows it.                  *)
(***************************************************************************)
Owner(tab, s) == tab[s].address[1]

A24sStay ==
  /\ \A t \in Traps \ Mice : at[t] = 1
  /\ \A s \in Slots : Bound(table, s) /\ Owner(table, s) \notin Mice => table[s].address[2] = 1

SerialRight(tab) ==
  \A s \in Slots : Bound(tab, s) =>
    tab[s].serial = IF Owner(tab, s) \in Mice THEN Owner(tab, s) ELSE 0

IInv ==
  /\ TypeOK /\ AddressUnique /\ RestartIffReason /\ BindingsInFlash /\ A24sStay
  /\ "serial" \notin PartialPackets => SerialRight(table) /\ SerialRight(flash) /\ OneSlotPerTrap

\* The gateway settles: when the user stops forgetting traps and restarting it,
\* it stops restarting itself.
Settles == <>[](timer = "off")

-----------------------------------------------------------------------------
\* hub.cpp: a Mouse Trap is followed by its serial when its address changes; so
\* no two slots have one serial.
SerialUnique ==
  \A s, u \in Slots :
    Bound(table, s) /\ table[s].serial # 0 /\ Bound(table, u) /\ table[s].serial = table[u].serial
    => s = u
=============================================================================
