--------------------------- MODULE NetmapPnpProofs ----------------------------
(***************************************************************************)
(* Proofs about the driver shell: where a device is says whether its       *)
(* registers are mapped and whether the adapter is one the driver knows,   *)
(* whatever fails, times out or is rewritten meanwhile; and what it has    *)
(* read, summed up and stored is what the NVM holds, unless another device *)
(* or a write that was given up has disturbed it.                          *)
(***************************************************************************)
EXTENDS NetmapPnp, MicrowireProofs, Integers, FiniteSetTheorems

(* Places before the registers are mapped, with calls to the shared code,  *)
(* after the function table was found, after the PHY was, and the others   *)
(* where the registers are mapped.                                         *)
Unmapped == {"none", "added", "identify", "map"}
Calling  == {"validate", "validate again", "address", "update", "rewrite",
             "stored"}
KnownPhy == Calling \cup {"store", "dirty", "started", "bus", "reset"}
KnownMac == KnownPhy \cup {"phy", "phy again"}
Mapped   == KnownMac \cup {"init"}

PnpTypes ==
  /\ adapter \in Adapters /\ rebalances \in Nat
  /\ pc \in [Functions -> Places] /\ todo = [f \in Functions |-> todo[f]]
  /\ virtual \in [Functions -> BOOLEAN] /\ mappings \in [Functions -> Int]
  /\ hw = [f \in Functions |-> hw[f]]

(* A call that has something left to do is one of a device that is in a    *)
(* loop over words or in a write.                                          *)
CallInPlace(f) == todo[f] # <<>> => pc[f] \in Calling

(* Without a rebalance a device is mapped once or not at all.              *)
MappedOnce(f) ==
  /\ pc[f] \in Mapped => virtual[f] = TRUE
  /\ rebalances = 0 =>
       /\ mappings[f] = IF virtual[f] THEN 1 ELSE 0
       /\ pc[f] \in Unmapped \cup {"deleted"} => virtual[f] = FALSE
       /\ pc[f] # "stopped"

(* The id a device has is the adapter's, and each place comes after the    *)
(* checks that lead to it.                                                 *)
Known(f) ==
  /\ {"device_id", "ops"} \subseteq DOMAIN hw[f]
  /\ hw[f].device_id \in {"unset", adapter.family}
  /\ pc[f] \in KnownMac => hw[f].ops = TRUE /\ adapter.family = "82540"
  /\ pc[f] \in KnownPhy => adapter.phy = TRUE

DeviceOK(f) == CallInPlace(f) /\ MappedOnce(f) /\ Known(f)
ShellInv == PnpTypes /\ \A f \in Functions : DeviceOK(f)

-----------------------------------------------------------------------------
(* What a step of the bus does to the calls.                               *)

(* Only the call of f changes, and it had something left to do.            *)
CallGoesOn(f) ==
  /\ todo[f] # <<>> /\ todo' = [g \in Functions |-> todo'[g]]
  /\ \A g \in Functions \ {f} : todo'[g] = todo[g]

(* A step of the bus takes a routine off one call.                         *)
LEMMA BusStepEffect ==
  ASSUME PnpTypes, NEW f \in Functions, BusStep(f)
  PROVE  CallGoesOn(f)
<1>1. \E x : todo' = [todo EXCEPT ![f] = x]
  BY Zenon DEF BusStep, DrivePins, Request, Granted, GrantTimeout, Written,
               WriteTimeout, Release, Consume
<1>2. todo[f] # <<>>
  BY Zenon DEF BusStep, DrivePins, Request, Granted, GrantTimeout, Written,
               WriteTimeout, Release, NextIs
<1>. QED BY <1>1, <1>2 DEF CallGoesOn, PnpTypes

(* A call that begins changes nobody else's.                               *)
OneCallBegins(f) ==
  /\ todo' = [g \in Functions |-> todo'[g]]
  /\ \A g \in Functions \ {f} : todo'[g] = todo[g]

(* A call begins at one device.                                            *)
LEMMA BeginEffect ==
  ASSUME PnpTypes, NEW f \in Functions, NEW c, NEW program,
         Begin(f, c, program)
  PROVE  OneCallBegins(f)
<1>1. \E x : todo' = [todo EXCEPT ![f] = x]
  BY Zenon DEF Begin
<1>. QED BY <1>1 DEF OneCallBegins, PnpTypes

(* A device that is sent to a place, and the others.                       *)
LEMMA GotoEffect ==
  ASSUME pc \in [Functions -> Places], NEW f \in Functions,
         NEW place \in Places, Goto(f, place)
  PROVE  /\ pc' \in [Functions -> Places] /\ pc'[f] = place
         /\ \A g \in Functions \ {f} : pc'[g] = pc[g]
BY DEF Goto

(* Setting a field leaves the others.                                      *)
LEMMA OtherField ==
  ASSUME NEW r, NEW a, NEW v, NEW b \in DOMAIN r, b # a
  PROVE  LET s == [r EXCEPT ![a] = v] IN s[b] = r[b] /\ DOMAIN s = DOMAIN r
OBVIOUS

-----------------------------------------------------------------------------
(* A step of one device leaves the others as they are.                     *)

OnlyDevice(f) ==
  /\ PnpTypes' /\ adapter' = adapter /\ (rebalances' = 0 => rebalances = 0)
  /\ \A g \in Functions \ {f} :
       /\ pc'[g] = pc[g] /\ todo'[g] = todo[g] /\ virtual'[g] = virtual[g]
       /\ mappings'[g] = mappings[g] /\ hw'[g] = hw[g]

(* Only the device that moves has to be looked at.                         *)
LEMMA OneDevice ==
  ASSUME ShellInv, NEW f \in Functions, OnlyDevice(f), DeviceOK(f)'
  PROVE  ShellInv'
<1>1. ASSUME NEW g \in Functions \ {f} PROVE DeviceOK(g)'
  BY <1>1 DEF ShellInv, OnlyDevice, DeviceOK, CallInPlace, MappedOnce, Known
<1>. QED BY <1>1 DEF ShellInv, OnlyDevice

(* A step that moves no device and leaves it what it has.                  *)
SameDevices ==
  UNCHANGED <<adapter, pc, virtual, mappings, hw, rebalances>>

(* No device moves, only the call of one of them.                          *)
LEMMA SameDevice ==
  ASSUME ShellInv, SameDevices, NEW f \in Functions,
         CallGoesOn(f) \/ OneCallBegins(f), CallInPlace(f)'
  PROVE  ShellInv'
<1>1. OnlyDevice(f)
  BY DEF ShellInv, PnpTypes, SameDevices, OnlyDevice, CallGoesOn, OneCallBegins
<1>2. DeviceOK(f)'
  BY DEF ShellInv, SameDevices, DeviceOK, MappedOnce, Known
<1>. QED BY <1>1, <1>2, OneDevice

(* No device and no call moves.                                            *)
LEMMA NothingMoves ==
  ASSUME ShellInv, SameDevices, UNCHANGED todo
  PROVE  ShellInv'
BY DEF ShellInv, PnpTypes, SameDevices, DeviceOK, CallInPlace, MappedOnce,
   Known

(* A step of f that moves it, and changes at most its field perm, func or  *)
(* addr of hw.                                                             *)
Moved(f, place) ==
  /\ place \in Places /\ Goto(f, place)
  /\ UNCHANGED <<adapter, virtual, mappings, rebalances>>
  /\ todo' = [g \in Functions |-> todo'[g]]
  /\ \A g \in Functions \ {f} : todo'[g] = todo[g]
  /\ todo'[f] # <<>> => place \in Calling

SameFields(h, k, f) ==
  /\ k = [g \in Functions |-> k[g]]
  /\ \A g \in Functions \ {f} : k[g] = h[g]
  /\ DOMAIN k[f] = DOMAIN h[f]
  /\ k[f].device_id = h[f].device_id /\ k[f].ops = h[f].ops
SameHw(f) == SameFields(hw, hw', f)

(* A device that moves on may do so as far as the invariant goes.          *)
LEMMA MovedDevice ==
  ASSUME ShellInv, NEW f \in Functions, NEW place, Moved(f, place), SameHw(f),
         place \in Mapped => pc[f] \in Mapped,
         place \in KnownMac => pc[f] \in KnownMac,
         place \in KnownPhy => pc[f] \in KnownPhy \/ adapter.phy = TRUE,
         place \in Unmapped => pc[f] \in Unmapped \cup {"stopped"},
         place = "deleted" => pc[f] \in Unmapped,
         place # "stopped"
  PROVE  ShellInv'
<1>1. /\ pc' \in [Functions -> Places] /\ pc'[f] = place
      /\ \A g \in Functions \ {f} : pc'[g] = pc[g]
  BY GotoEffect DEF Moved, ShellInv, PnpTypes
<1>2. OnlyDevice(f)
  BY <1>1 DEF ShellInv, PnpTypes, Moved, SameHw, SameFields, OnlyDevice
<1>3. CallInPlace(f)'
  BY <1>1 DEF Moved, CallInPlace
<1>4. MappedOnce(f)'
  BY <1>1 DEF ShellInv, Moved, DeviceOK, MappedOnce
<1>5. Known(f)'
  BY <1>1 DEF ShellInv, Moved, SameHw, SameFields, DeviceOK, Known
<1>. QED BY <1>2, <1>3, <1>4, <1>5, OneDevice DEF DeviceOK

(* A step that leaves hw leaves what was identified.                       *)
LEMMA HwUnchanged ==
  ASSUME PnpTypes, UNCHANGED hw, NEW f \in Functions
  PROVE  SameHw(f)
BY DEF PnpTypes, SameHw, SameFields

(* A field of one device's hw is set that is neither its id nor its ops.   *)
LEMMA FieldSet ==
  ASSUME NEW f \in Functions, NEW h, h = [g \in Functions |-> h[g]],
         {"device_id", "ops"} \subseteq DOMAIN h[f],
         NEW a, a \notin {"device_id", "ops"}, NEW v,
         NEW k, k = [h EXCEPT ![f] = [h[f] EXCEPT ![a] = v]]
  PROVE  SameFields(h, k, f)
<1>1. DOMAIN h = Functions
  OBVIOUS
<1>2. k[f] = [h[f] EXCEPT ![a] = v]
  BY <1>1
<1>3. /\ DOMAIN k[f] = DOMAIN h[f]
      /\ k[f].device_id = h[f].device_id /\ k[f].ops = h[f].ops
  BY <1>2, OtherField
<1>. QED BY <1>1, <1>3 DEF SameFields

(* A step that sets another field leaves what was identified.              *)
LEMMA HwField ==
  ASSUME ShellInv, NEW f \in Functions, NEW a, a \notin {"device_id", "ops"},
         NEW v, hw' = [hw EXCEPT ![f] = [hw[f] EXCEPT ![a] = v]]
  PROVE  SameHw(f)
<1>1. /\ hw = [g \in Functions |-> hw[g]]
      /\ {"device_id", "ops"} \subseteq DOMAIN hw[f]
  BY DEF ShellInv, PnpTypes, DeviceOK, Known
<1>. HIDE DEF ShellInv
<1>. QED BY <1>1, FieldSet DEF SameHw

-----------------------------------------------------------------------------
(* One lemma for the steps that only move a device on, one for those of    *)
(* the calls, one for each of the others.                                  *)

(* A device moves while it has no call, or from one call to another.       *)
LEMMA QuietMove ==
  ASSUME ShellInv, NEW f \in Functions, NEW place \in Places, Goto(f, place),
         UNCHANGED <<todo, adapter, virtual, mappings, rebalances>>,
         pc[f] \in Calling => place \in Calling \/ todo[f] = <<>>
  PROVE  Moved(f, place)
BY DEF ShellInv, PnpTypes, DeviceOK, CallInPlace, Moved

(* The steps of a start that touch neither a mapping nor the hardware.     *)
LEMMA StartStep ==
  ASSUME ShellInv, NEW f \in Functions,
         AddDevice(f) \/ StartDevice(f) \/ GetPhyId(f) \/ ResetHw(f)
  PROVE  ShellInv'
<1>. USE DEF Unmapped, Calling, KnownPhy, KnownMac, Mapped, busVars
<1>1. SameHw(f)
  BY HwUnchanged DEF ShellInv, AddDevice, StartDevice, GetPhyId, ResetHw
<1>2. CASE AddDevice(f)
  <2>1. PICK place \in {"added", "deleted"} : Goto(f, place)
    BY <1>2 DEF AddDevice
  <2>2. Moved(f, place)
    BY <1>2, <2>1, QuietMove DEF AddDevice, Places
  <2>. QED BY <1>1, <1>2, <2>2, MovedDevice DEF AddDevice
<1>3. CASE StartDevice(f)
  <2>1. PICK place \in {"identify", "failed"} : Goto(f, place)
    BY <1>3 DEF StartDevice
  <2>2. Moved(f, place)
    BY <1>3, <2>1, QuietMove DEF StartDevice, Places
  <2>. QED BY <1>1, <1>3, <2>2, MovedDevice DEF StartDevice
<1>4. CASE GetPhyId(f)
  <2>1. PICK place \in {"bus", "phy again", "failed"} :
          Goto(f, place) /\ (place = "bus" => adapter.phy)
    BY <1>4 DEF GetPhyId, PhyIsKnown
  <2>2. adapter.phy \in BOOLEAN
    BY PnpAssumption DEF ShellInv, PnpTypes
  <2>3. Moved(f, place)
    BY <1>4, <2>1, QuietMove DEF GetPhyId, Places
  <2>. QED BY <1>1, <1>4, <2>1, <2>2, <2>3, MovedDevice DEF GetPhyId
<1>5. CASE ResetHw(f)
  <2>1. Moved(f, "validate")
    BY <1>5, QuietMove DEF ResetHw, Places
  <2>. QED BY <1>1, <1>5, <2>1, MovedDevice DEF ResetHw
<1>. QED BY <1>2, <1>3, <1>4, <1>5

(* The configuration space is read, or not.                                *)
LEMMA IdentifyHardwareStep ==
  ASSUME ShellInv, NEW f \in Functions, IdentifyHardware(f)
  PROVE  ShellInv'
<1>. USE DEF Unmapped, Calling, KnownPhy, KnownMac, Mapped, busVars
<1>1. /\ pc[f] = "identify" /\ Goto(f, "map")
      /\ UNCHANGED <<todo, adapter, virtual, mappings, rebalances>>
  BY DEF IdentifyHardware
<1>2. /\ pc' \in [Functions -> Places] /\ pc'[f] = "map"
      /\ \A g \in Functions \ {f} : pc'[g] = pc[g]
  BY <1>1, GotoEffect DEF ShellInv, PnpTypes, Places
<1>3. /\ hw' = [g \in Functions |-> hw'[g]]
      /\ \A g \in Functions \ {f} : hw'[g] = hw[g]
      /\ {"device_id", "ops"} \subseteq DOMAIN hw'[f]
      /\ hw'[f].device_id \in {"unset", adapter.family}
  BY DEF ShellInv, PnpTypes, DeviceOK, Known, IdentifyHardware
<1>4. OnlyDevice(f)
  BY <1>1, <1>2, <1>3 DEF ShellInv, PnpTypes, OnlyDevice
<1>5. DeviceOK(f)'
  BY <1>1, <1>2, <1>3 DEF ShellInv, DeviceOK, CallInPlace, MappedOnce, Known
<1>. QED BY <1>4, <1>5, OneDevice

(* The registers are mapped, or not.                                       *)
LEMMA AllocatePciResourcesStep ==
  ASSUME ShellInv, NEW f \in Functions, AllocatePciResources(f)
  PROVE  ShellInv'
<1>. USE DEF Unmapped, Calling, KnownPhy, KnownMac, Mapped, busVars
<1>1. /\ pc[f] = "map" /\ UNCHANGED <<todo, adapter, hw, rebalances>>
      /\ rebalances = 0 => mappings[f] = 0
  BY DEF AllocatePciResources, ShellInv, DeviceOK, MappedOnce
<1>2. CASE /\ Goto(f, "init") /\ virtual' = [virtual EXCEPT ![f] = TRUE]
           /\ mappings' = [mappings EXCEPT ![f] = mappings[f] + 1]
  <2>1. /\ pc' \in [Functions -> Places] /\ pc'[f] = "init"
        /\ \A g \in Functions \ {f} : pc'[g] = pc[g]
    BY <1>2, GotoEffect DEF ShellInv, PnpTypes, Places
  <2>2. /\ virtual' \in [Functions -> BOOLEAN] /\ virtual'[f] = TRUE
        /\ \A g \in Functions \ {f} : virtual'[g] = virtual[g]
    BY <1>2 DEF ShellInv, PnpTypes
  <2>3. /\ mappings' \in [Functions -> Int] /\ mappings'[f] = mappings[f] + 1
        /\ \A g \in Functions \ {f} : mappings'[g] = mappings[g]
    BY <1>2 DEF ShellInv, PnpTypes
  <2>4. OnlyDevice(f)
    BY <1>1, <2>1, <2>2, <2>3 DEF ShellInv, PnpTypes, OnlyDevice
  <2>5. CallInPlace(f)' /\ Known(f)'
    BY <1>1, <2>1 DEF ShellInv, DeviceOK, CallInPlace, Known
  <2>6. MappedOnce(f)'
    BY <1>1, <2>1, <2>2, <2>3 DEF MappedOnce
  <2>. QED BY <2>4, <2>5, <2>6, OneDevice DEF DeviceOK
<1>3. CASE /\ Goto(f, "failed") /\ virtual' = [virtual EXCEPT ![f] = FALSE]
           /\ mappings' = mappings
  <2>1. /\ pc' \in [Functions -> Places] /\ pc'[f] = "failed"
        /\ \A g \in Functions \ {f} : pc'[g] = pc[g]
    BY <1>3, GotoEffect DEF ShellInv, PnpTypes, Places
  <2>2. /\ virtual' \in [Functions -> BOOLEAN] /\ virtual'[f] = FALSE
        /\ \A g \in Functions \ {f} : virtual'[g] = virtual[g]
    BY <1>3 DEF ShellInv, PnpTypes
  <2>3. /\ mappings' \in [Functions -> Int] /\ mappings'[f] = mappings[f]
        /\ \A g \in Functions \ {f} : mappings'[g] = mappings[g]
    BY <1>3 DEF ShellInv, PnpTypes
  <2>4. OnlyDevice(f)
    BY <1>1, <2>1, <2>2, <2>3 DEF ShellInv, PnpTypes, OnlyDevice
  <2>5. CallInPlace(f)' /\ Known(f)'
    BY <1>1, <2>1 DEF ShellInv, DeviceOK, CallInPlace, Known
  <2>6. MappedOnce(f)'
    BY <1>1, <2>1, <2>2, <2>3 DEF MappedOnce
  <2>. QED BY <2>4, <2>5, <2>6, OneDevice DEF DeviceOK
<1>. QED BY <1>2, <1>3 DEF AllocatePciResources

(* Only the id of the 82540 family leads to a function table.              *)
LEMMA SetupInitFuncsStep ==
  ASSUME ShellInv, NEW f \in Functions, SetupInitFuncs(f)
  PROVE  ShellInv'
<1>. USE DEF Unmapped, Calling, KnownPhy, KnownMac, Mapped, busVars
<1>1. /\ pc[f] = "init"
      /\ UNCHANGED <<todo, adapter, virtual, mappings, rebalances>>
  BY DEF SetupInitFuncs
<1>2. CASE hw[f].device_id = "82540" /\ Goto(f, "phy")
           /\ hw' = [hw EXCEPT ![f].ops = TRUE]
  <2>1. /\ pc' \in [Functions -> Places] /\ pc'[f] = "phy"
        /\ \A g \in Functions \ {f} : pc'[g] = pc[g]
    BY <1>2, GotoEffect DEF ShellInv, PnpTypes, Places
  <2>2. /\ hw' = [g \in Functions |-> hw'[g]]
        /\ \A g \in Functions \ {f} : hw'[g] = hw[g]
        /\ hw'[f] = [hw[f] EXCEPT !.ops = TRUE]
    BY <1>2 DEF ShellInv, PnpTypes
  <2>3. {"device_id", "ops"} \subseteq DOMAIN hw[f]
    BY DEF ShellInv, DeviceOK, Known
  <2>4. /\ {"device_id", "ops"} \subseteq DOMAIN hw'[f]
        /\ hw'[f].device_id = hw[f].device_id /\ hw'[f].ops = TRUE
    BY <2>2, <2>3, OtherField
  <2>5. OnlyDevice(f)
    BY <1>1, <2>1, <2>2 DEF ShellInv, PnpTypes, OnlyDevice
  <2>6. DeviceOK(f)'
    BY <1>1, <1>2, <2>1, <2>4
       DEF ShellInv, DeviceOK, CallInPlace, MappedOnce, Known
  <2>. QED BY <2>5, <2>6, OneDevice
<1>3. CASE Goto(f, "failed") /\ UNCHANGED hw
  <2>1. Moved(f, "failed")
    BY <1>1, <1>3, QuietMove DEF Places
  <2>2. SameHw(f)
    BY <1>3, HwUnchanged DEF ShellInv
  <2>. QED BY <2>1, <2>2, MovedDevice
<1>. QED
  BY <1>2, <1>3 DEF SetupInitFuncs, init_functions

(* The number of the function is found.                                    *)
LEMMA GetBusInfoStep ==
  ASSUME ShellInv, NEW f \in Functions, GetBusInfo(f)
  PROVE  ShellInv'
<1>. USE DEF Unmapped, Calling, KnownPhy, KnownMac, Mapped, busVars
<1>1. Moved(f, "reset")
  BY QuietMove DEF GetBusInfo, Places
<1>2. SameHw(f)
  BY HwField, Zenon DEF GetBusInfo
<1>. QED BY <1>1, <1>2, MovedDevice DEF GetBusInfo

-----------------------------------------------------------------------------
(* Loops, calls and what NDIS asks for.                                    *)

(* A word of the NVM is asked for.                                         *)
LEMMA ReadWordStep ==
  ASSUME ShellInv, NEW f \in Functions, ReadWord(f)
  PROVE  ShellInv'
<1>1. OneCallBegins(f)
  BY BeginEffect DEF ReadWord, BeginRead, ShellInv
<1>2. pc[f] \in Calling /\ SameDevices
  BY DEF ReadWord, Looping, Reads, Calling, SameDevices, pnpVars
<1>3. CallInPlace(f)'
  BY <1>2 DEF SameDevices, CallInPlace
<1>. QED BY <1>1, <1>2, <1>3, SameDevice

(* A step of the bus leaves the devices where they are.                    *)
LEMMA BusSteps ==
  ASSUME ShellInv, NEW f \in Functions, Bus(f) \/ Arbiter(f)
  PROVE  ShellInv'
<1>1. SameDevices
  BY DEF Bus, Arbiter, pnpVars, SameDevices
<1>2. CASE Bus(f)
  <2>1. CallGoesOn(f)
    BY <1>2, BusStepEffect DEF Bus, ShellInv
  <2>2. CallInPlace(f)'
    BY <1>1, <2>1
       DEF ShellInv, DeviceOK, CallInPlace, CallGoesOn, SameDevices
  <2>. QED BY <1>1, <2>1, <2>2, SameDevice
<1>3. CASE Arbiter(f)
  BY <1>1, <1>3, NothingMoves DEF Arbiter, Grant
<1>. QED BY <1>2, <1>3

(* A word is added to the sum, and perhaps to the address.                 *)
LEMMA AddWordStep ==
  ASSUME ShellInv, NEW f \in Functions, AddWord(f)
  PROVE  ShellInv'
<1>1. /\ UNCHANGED <<todo, adapter, pc, virtual, mappings, rebalances>>
  BY DEF AddWord, Idle
<1>2. SameHw(f)
  <2>1. CASE UNCHANGED hw
    BY <2>1, HwUnchanged DEF ShellInv
  <2>2. CASE \E i, v : hw' = [hw EXCEPT ![f].perm[i] = v]
    <3>1. PICK i, v : hw' = [hw EXCEPT ![f].perm[i] = v]
      BY <2>2
    <3>2. hw' = [hw EXCEPT ![f] = [hw[f] EXCEPT !["perm"] =
                                     [hw[f].perm EXCEPT ![i] = v]]]
      BY <3>1, Zenon
    <3>. HIDE DEF ShellInv
    <3>. QED BY <3>2, HwField
  <2>. QED BY <2>1, <2>2, Zenon DEF AddWord
<1>3. OnlyDevice(f)
  BY <1>1, <1>2 DEF ShellInv, PnpTypes, SameHw, SameFields, OnlyDevice
<1>4. DeviceOK(f)'
  BY <1>1, <1>2 DEF ShellInv, SameHw, SameFields, DeviceOK, CallInPlace,
                    MappedOnce, Known
<1>. QED BY <1>3, <1>4, OneDevice

(* A loop over words ends, well or not.                                    *)
LEMMA LoopStep ==
  ASSUME ShellInv, NEW f \in Functions, ReadFails(f) \/ LoopEnds(f)
  PROVE  ShellInv'
<1>. USE DEF Unmapped, Calling, KnownPhy, KnownMac, Mapped
<1>1. /\ pc[f] \in {"validate", "validate again", "address", "update"}
      /\ todo[f] = <<>>
  BY DEF ReadFails, LoopEnds, Took, Looping, Quiet, Reads
<1>2. PICK success \in BOOLEAN : Goto(f, After(f, success))
  BY DEF ReadFails, LoopEnds
<1>3. PICK place \in {"address", "validate again", "failed", "started",
                      "store", "dirty"} : Goto(f, place)
  BY <1>1, <1>2 DEF After
<1>4. UNCHANGED <<todo, adapter, virtual, mappings, rebalances>>
  BY DEF ReadFails, LoopEnds, Idle, busVars
<1>5. Moved(f, place)
  BY <1>1, <1>3, <1>4, QuietMove DEF Places
<1>6. SameHw(f)
  <2>1. CASE UNCHANGED hw
    BY <2>1, HwUnchanged DEF ShellInv
  <2>2. CASE \E x : hw' = [hw EXCEPT ![f].perm = x, ![f].addr = x]
    <3>1. PICK x : hw' = [hw EXCEPT ![f].perm = x, ![f].addr = x]
      BY <2>2
    <3>. DEFINE h == [hw EXCEPT ![f] = [hw[f] EXCEPT !["perm"] = x]]
    <3>2. SameFields(hw, h, f)
      BY FieldSet DEF ShellInv, PnpTypes, DeviceOK, Known
    <3>3. hw' = [h EXCEPT ![f] = [h[f] EXCEPT !["addr"] = x]]
      BY <3>1, Zenon
    <3>4. /\ h = [g \in Functions |-> h[g]]
          /\ {"device_id", "ops"} \subseteq DOMAIN h[f]
      BY <3>2 DEF SameFields, ShellInv, DeviceOK, Known
    <3>. HIDE DEF h
    <3>5. SameFields(h, hw', f)
      BY <3>3, <3>4, FieldSet
    <3>. QED BY <3>2, <3>5 DEF SameHw, SameFields
  <2>. QED BY <2>1, <2>2, Zenon DEF ReadFails, LoopEnds
<1>. QED BY <1>1, <1>3, <1>5, <1>6, MovedDevice

(* A client writes, and brings the checksum up to date.                    *)
LEMMA WriteStep ==
  ASSUME ShellInv, NEW f \in Functions,
         Rewrite(f) \/ StoreChecksum(f) \/ WriteEnds(f)
  PROVE  ShellInv'
<1>. USE DEF Unmapped, Calling, KnownPhy, KnownMac, Mapped
<1>1. SameHw(f) /\ UNCHANGED <<adapter, virtual, mappings, rebalances>>
  BY HwUnchanged DEF ShellInv, Rewrite, StoreChecksum, WriteEnds
<1>2. CASE Rewrite(f)
  <2>1. OneCallBegins(f)
    BY <1>2, BeginEffect DEF Rewrite, BeginWrite, ShellInv
  <2>2. Moved(f, "rewrite")
    BY <1>1, <1>2, <2>1 DEF Rewrite, Moved, OneCallBegins, Places
  <2>. QED BY <1>1, <1>2, <2>2, MovedDevice DEF Rewrite
<1>3. CASE StoreChecksum(f)
  <2>1. OneCallBegins(f)
    BY <1>3, BeginEffect DEF StoreChecksum, BeginWrite, ShellInv
  <2>2. Moved(f, "stored")
    BY <1>1, <1>3, <2>1 DEF StoreChecksum, Moved, OneCallBegins, Places
  <2>. QED BY <1>1, <1>3, <2>2, MovedDevice DEF StoreChecksum
<1>4. CASE WriteEnds(f)
  <2>1. PICK place \in {"dirty", "update", "started"} : Goto(f, place)
    BY <1>4 DEF WriteEnds
  <2>2. Moved(f, place)
    BY <1>1, <1>4, <2>1, QuietMove DEF WriteEnds, Idle, Quiet, Places
  <2>. QED BY <1>1, <1>4, <2>1, <2>2, MovedDevice DEF WriteEnds
<1>. QED BY <1>2, <1>3, <1>4

(* The device is stopped; its registers stay mapped.                       *)
LEMMA StopDeviceStep ==
  ASSUME ShellInv, NEW f \in Functions, StopDevice(f)
  PROVE  ShellInv'
<1>. USE DEF Unmapped, Calling, KnownPhy, KnownMac, Mapped
<1>1. /\ todo[f] = <<>> /\ rebalances' = rebalances + 1 /\ Goto(f, "stopped")
      /\ UNCHANGED <<todo, adapter, virtual, mappings, hw>>
  BY DEF StopDevice, Quiet, busVars
<1>2. /\ pc' \in [Functions -> Places] /\ pc'[f] = "stopped"
      /\ \A g \in Functions \ {f} : pc'[g] = pc[g]
  BY <1>1, GotoEffect DEF ShellInv, PnpTypes, Places
<1>3. OnlyDevice(f)
  BY <1>1, <1>2 DEF ShellInv, PnpTypes, OnlyDevice
<1>4. CallInPlace(f)' /\ Known(f)'
  BY <1>1, <1>2 DEF ShellInv, DeviceOK, CallInPlace, Known
<1>5. rebalances' # 0
  BY <1>1 DEF ShellInv, PnpTypes
<1>6. MappedOnce(f)'
  BY <1>2, <1>5 DEF MappedOnce
<1>. QED BY <1>3, <1>4, <1>6, OneDevice DEF DeviceOK

(* A removal unmaps what is mapped, wherever the start came to.            *)
LEMMA RemoveDeviceStep ==
  ASSUME ShellInv, NEW f \in Functions, RemoveDevice(f)
  PROVE  ShellInv'
<1>. USE DEF Unmapped, Calling, KnownPhy, KnownMac, Mapped
<1>1. /\ todo[f] = <<>> /\ Goto(f, "deleted")
      /\ UNCHANGED <<todo, adapter, hw, rebalances>>
  BY DEF RemoveDevice, Quiet, busVars
<1>2. /\ pc' \in [Functions -> Places] /\ pc'[f] = "deleted"
      /\ \A g \in Functions \ {f} : pc'[g] = pc[g]
  BY <1>1, GotoEffect DEF ShellInv, PnpTypes, Places
<1>3. CASE virtual[f] = TRUE
  <2>1. /\ mappings' = [mappings EXCEPT ![f] = mappings[f] - 1]
        /\ virtual' = [virtual EXCEPT ![f] = FALSE]
    BY <1>3 DEF RemoveDevice
  <2>2. /\ virtual' \in [Functions -> BOOLEAN] /\ virtual'[f] = FALSE
        /\ \A g \in Functions \ {f} : virtual'[g] = virtual[g]
    BY <2>1 DEF ShellInv, PnpTypes
  <2>3. /\ mappings' \in [Functions -> Int] /\ mappings'[f] = mappings[f] - 1
        /\ \A g \in Functions \ {f} : mappings'[g] = mappings[g]
    BY <2>1 DEF ShellInv, PnpTypes
  <2>4. OnlyDevice(f)
    BY <1>1, <1>2, <2>2, <2>3 DEF ShellInv, PnpTypes, OnlyDevice
  <2>5. CallInPlace(f)' /\ Known(f)'
    BY <1>1, <1>2 DEF ShellInv, DeviceOK, CallInPlace, Known
  <2>6. rebalances = 0 => mappings[f] = 1
    BY <1>3 DEF ShellInv, DeviceOK, MappedOnce
  <2>7. MappedOnce(f)'
    BY <1>1, <1>2, <2>2, <2>3, <2>6 DEF MappedOnce
  <2>. QED BY <2>4, <2>5, <2>7, OneDevice DEF DeviceOK
<1>4. CASE virtual[f] = FALSE
  <2>1. UNCHANGED <<virtual, mappings>>
    BY <1>4 DEF RemoveDevice
  <2>2. OnlyDevice(f)
    BY <1>1, <1>2, <2>1 DEF ShellInv, PnpTypes, OnlyDevice
  <2>3. DeviceOK(f)'
    BY <1>1, <1>2, <1>4, <2>1
       DEF ShellInv, DeviceOK, CallInPlace, MappedOnce, Known
  <2>. QED BY <2>2, <2>3, OneDevice
<1>. QED BY <1>3, <1>4 DEF ShellInv, PnpTypes

(* Every step keeps the invariant.                                         *)
LEMMA ShellStep ==
  ASSUME ShellInv, [Next]_vars
  PROVE  ShellInv'
<1>1. CASE \E f \in Functions :
             \/ AddDevice(f) \/ StartDevice(f) \/ Starts(f)
             \/ Rewrite(f) \/ StoreChecksum(f) \/ WriteEnds(f)
             \/ StopDevice(f) \/ RemoveDevice(f)
             \/ Bus(f) \/ Arbiter(f)
  BY <1>1, StartStep, IdentifyHardwareStep, AllocatePciResourcesStep,
     SetupInitFuncsStep, GetBusInfoStep, ReadWordStep, AddWordStep, LoopStep,
     WriteStep, StopDeviceStep, RemoveDeviceStep, BusSteps, Zenon DEF Starts
<1>2. CASE NvmChanges
  BY <1>2, NothingMoves DEF NvmChanges, Programmed, SameDevices
<1>3. CASE UNCHANGED vars
  BY <1>3, NothingMoves DEF vars, busVars, pnpVars, SameDevices
<1>. QED BY <1>1, <1>2, <1>3 DEF Next

(* In every behaviour a device is where its mapping, its calls and the     *)
(* checks it has passed say.                                               *)
THEOREM ShellInvariant == Spec => []ShellInv
<1>1. Init => ShellInv
  BY PnpAssumption DEF Init, BusInit, NewHw, ShellInv, PnpTypes, Places,
     DeviceOK, CallInPlace, MappedOnce, Known, Unmapped, Calling, KnownPhy,
     KnownMac, Mapped
<1>. QED BY <1>1, ShellStep, PTL DEF Spec

(* The registers are used only while they are mapped, whichever calls are  *)
(* under way, and a removed device leaves no mapping, wherever its start   *)
(* failed and however often it was rewritten (main.c:540-602).             *)
THEOREM MappingsReturnedHolds == Spec => []MappingsReturned
<1>1. ShellInv => MappingsReturned
  BY DEF ShellInv, PnpTypes, DeviceOK, CallInPlace, MappedOnce,
         MappingsReturned, Quiet, Unmapped, Calling, KnownPhy, KnownMac, Mapped
<1>. QED BY <1>1, ShellInvariant, PTL

(* No device is started, nor is its NVM rewritten, on an adapter whose     *)
(* family or PHY the driver does not know (the parts of StartedIsSound     *)
(* that do not speak of the words of the NVM), although a failed read of   *)
(* the configuration space is not noticed (main.c:547).                    *)
StartedIsSupported ==
  \A f \in Functions : pc[f] \in KnownPhy =>
    /\ virtual[f] /\ hw[f].ops /\ adapter.family = "82540" /\ adapter.phy
THEOREM StartedIsSupportedHolds == Spec => []StartedIsSupported
<1>1. ShellInv => StartedIsSupported
  BY DEF ShellInv, DeviceOK, MappedOnce, Known, StartedIsSupported, KnownPhy,
         KnownMac, Mapped
<1>. QED BY <1>1, ShellInvariant, PTL

-----------------------------------------------------------------------------
(* The types of the shell, and the bus under it.                           *)

HwRecords ==
  [device_id : {"unset", "82540", "other"}, ops : BOOLEAN, func : 0 .. 1,
   perm : [1 .. 3 -> Values], addr : [1 .. 3 -> Values]]
Loops == [i : 0 .. CHECKSUM_REG + 1, sum : Values]

(* A device is mapped at most once for each start it had.                  *)
MappedOften(f) ==
  /\ mappings[f] \in 0 .. 1 + rebalances
  /\ pc[f] \in Unmapped \cup {"stopped"} => mappings[f] <= rebalances
  /\ virtual[f] => mappings[f] >= 1

Typed == loop \in [Functions -> Loops] /\ hw \in [Functions -> HwRecords]
TypedInv == Typed /\ \A f \in Functions : MappedOften(f)

(* What the shell assumes of its constants, in one place.                  *)
LEMMA PnpSizes ==
  /\ CHECKSUM_REG \in Nat /\ CHECKSUM_REG >= 3 /\ CHECKSUM_REG \in Offsets
  /\ CHECKSUM_REG < WordSize /\ WordSize \in Nat /\ Pow2[WordBits] \in Nat
  /\ Pow2[WordBits] > 1 /\ 0 \in Values /\ SUM \in Values /\ Values \subseteq Nat
  /\ \A x \in Int : x % Pow2[WordBits] \in Values
<1>1. PICK s \in Nat, m \in Nat : s = WordSize /\ m = Pow2[WordBits] /\ m > 1
  BY Powers
<1>2. \A x \in Int : x % m \in 0 .. m - 1
  BY <1>1
<1>3. CHECKSUM_REG \in 0 .. s - 1 /\ CHECKSUM_REG >= 3 /\ SUM \in 0 .. m - 1
  BY <1>1, PnpAssumption DEF Offsets, Values
<1>. QED BY <1>1, <1>2, <1>3 DEF Offsets, Values

-----------------------------------------------------------------------------
(* The second function's address.                                          *)

Flip(x) == IF Bit(x, WordBits \div 2) = 1 THEN x - FlipBit ELSE x + FlipBit

(* Flipping a bit of a word gives another word.                            *)
LEMMA FlipIs ==
  ASSUME NEW x \in Values
  PROVE  Flip(x) \in Values /\ Flip(x) # x
<1>1. PICK w \in Nat, h \in Nat, g \in Nat :
        /\ w = WordBits /\ h = w \div 2 /\ g = w - h - 1 /\ h + (1 + g) = w
        /\ h + (1 + g) <= CommandBits + WordBits /\ 1 + g <= CommandBits + WordBits
        /\ g < CommandBits + WordBits /\ h <= CommandBits + WordBits
  <2>1. PICK w \in Nat : w = WordBits /\ w > 0
    BY Sizes
  <2>2. w \div 2 \in Nat /\ w - (w \div 2) - 1 \in Nat
    BY <2>1
  <2>3. PICK h \in Nat, g \in Nat : h = w \div 2 /\ g = w - h - 1
    BY <2>2
  <2>4. h + (1 + g) = w /\ h + (1 + g) <= CommandBits + WordBits
        /\ 1 + g <= CommandBits + WordBits
        /\ g < CommandBits + WordBits /\ h <= CommandBits + WordBits
    BY <2>1, <2>3, Sizes
  <2>. QED BY <2>1, <2>3, <2>4
<1>2. PICK q \in Nat, m \in Nat : /\ q = Pow2[h] /\ q > 0 /\ m = Pow2[g]
                                 /\ Pow2[WordBits] = q * (2 * m)
  <2>1. 1 + g \in Nat /\ g + 1 = 1 + g /\ g \in 0 .. CommandBits + WordBits
        /\ h \in 0 .. CommandBits + WordBits
    BY <1>1, Sizes
  <2>2. Pow2[h + (1 + g)] = Pow2[h] * Pow2[1 + g]
    BY <1>1, <2>1, Pow2Sum
  <2>3. Pow2[g + 1] = 2 * Pow2[g]
    BY <1>1, <2>1, Pow2Steps
  <2>4. Pow2[h] \in Nat /\ Pow2[h] > 0 /\ Pow2[g] \in Nat
    BY <1>1, <2>1, Pow2Steps
  <2>. QED BY <1>1, <2>1, <2>2, <2>3, <2>4
<1>3. x \in Nat /\ x < q * (2 * m)
  BY <1>2 DEF Values
<1>4. PICK d \in Nat, r \in Nat : d = x \div q /\ r < q /\ x = q * d + r
  <2>1. /\ x \div q \in Nat /\ x % q \in 0 .. q - 1
        /\ x = q * (x \div q) + (x % q)
    BY ONLY <1>2, <1>3, DivPart, q \in Nat
  <2>2. PICK d \in Nat, r \in 0 .. q - 1 : d = x \div q /\ r = x % q
    BY <2>1
  <2>3. x = q * d + r
    BY <2>1, <2>2, Zenon
  <2>. QED BY <1>2, <2>2, <2>3
<1>5. d < 2 * m
  <2>1. SUFFICES ASSUME d >= 2 * m PROVE FALSE
    OBVIOUS
  <2>2. q * d >= q * (2 * m)
    BY <1>2, <2>1
  <2>. QED BY <1>2, <1>3, <1>4, <2>2
<1>6. FlipBit = q /\ Bit(x, WordBits \div 2) = (d % 2)
  BY <1>1, <1>2, <1>4 DEF FlipBit, Bit
<1>7. CASE d % 2 = 1
  <2>1. d >= 1
    BY <1>7
  <2>2. q * d >= q
    BY <1>2, <2>1
  <2>3. x - q \in Nat /\ x - q < q * (2 * m) /\ x - q # x
    BY <1>2, <1>3, <1>4, <2>2
  <2>. QED BY <1>2, <1>6, <1>7, <2>3 DEF Flip, Values
<1>8. CASE d % 2 # 1
  <2>1. d + 2 <= 2 * m
    BY <1>5, <1>8
  <2>2. q * (d + 2) <= q * (2 * m)
    BY <1>2, <2>1
  <2>3. q * (d + 2) = q * d + 2 * q
    BY ONLY q \in Nat, d \in Nat
  <2>5. PICK a \in Nat, b \in Nat : a = q * d /\ b = q * (2 * m)
    BY <1>2
  <2>4. x + q \in Nat /\ x + q < q * (2 * m) /\ x + q # x
    <3>1. a + 2 * q <= b /\ x = a + r /\ x < b
      BY <1>3, <1>4, <2>2, <2>3, <2>5
    <3>2. x + q \in Nat /\ x + q < b /\ x + q # x
      <4>1. q > 0 /\ r < q
        BY <1>2, <1>4
      <4>. QED BY ONLY <4>1, <3>1, q \in Nat, a \in Nat, b \in Nat, r \in Nat
    <3>. QED BY <2>5, <3>2
  <2>. QED BY <1>2, <1>6, <1>8, <2>4 DEF Flip, Values
<1>. QED BY <1>7, <1>8

-----------------------------------------------------------------------------
(* What a step does to the types.                                          *)

(* A loop that stays or starts again has its type.                         *)
LEMMA LoopTypes ==
  ASSUME Typed, NEW f \in Functions,
         UNCHANGED loop \/ loop' = [loop EXCEPT ![f] = NewLoop]
  PROVE  loop' \in [Functions -> Loops]
<1>1. NewLoop \in Loops
  BY PnpSizes DEF NewLoop, Loops
<1>. QED BY <1>1 DEF Typed

(* Only AddWord counts a loop up.                                          *)
LEMMA LoopMoves ==
  ASSUME NEW f \in Functions, [Next]_vars,
         AddDevice(f) \/ StartDevice(f) \/ Starts(f) \/ Rewrite(f)
         \/ StoreChecksum(f) \/ WriteEnds(f) \/ StopDevice(f) \/ RemoveDevice(f)
         \/ Bus(f) \/ Arbiter(f), ~AddWord(f)
  PROVE  UNCHANGED loop \/ loop' = [loop EXCEPT ![f] = NewLoop]
BY Zenon DEF AddDevice, StartDevice, Starts, Rewrite, StoreChecksum, WriteEnds,
   StopDevice, RemoveDevice, Bus, Arbiter, IdentifyHardware,
   AllocatePciResources, SetupInitFuncs, GetPhyId, GetBusInfo, ResetHw,
   ReadWord, ReadFails, LoopEnds, pnpVars

(* Bounds of the loops, with nothing else around.                          *)
LEMMA UpToNext ==
  ASSUME NEW m \in Nat, m >= 3
  PROVE  3 \in 1 .. m + 1 /\ m \in 1 .. m + 1 /\ m + 1 \in 1 .. m + 1
OBVIOUS

(* A loop reads at least one word and at most those up to the checksum.    *)
LEMMA ReadsAre ==
  ASSUME NEW f \in Functions, Looping(f)
  PROVE  Reads[pc[f]] \in 1 .. CHECKSUM_REG + 1
<1>1. PICK n \in Nat : n = CHECKSUM_REG /\ n >= 3
  BY PnpSizes
<1>2. PICK p \in {"validate", "validate again", "address", "update"} : p = pc[f]
  BY DEF Looping, Reads
<1>3. /\ p = "address" => Reads[p] = 3
      /\ p = "update" => Reads[p] = n
      /\ p \in {"validate", "validate again"} => Reads[p] = n + 1
  BY <1>1 DEF Reads
<1>4. PICK k : k = Reads[p]
  OBVIOUS
<1>5. k = 3 \/ k = n \/ k = n + 1
  BY <1>2, <1>3, <1>4
<1>6. k \in 1 .. n + 1
  <2>1. 3 \in 1 .. n + 1 /\ n \in 1 .. n + 1 /\ n + 1 \in 1 .. n + 1
    <3>. QED BY ONLY <1>1, UpToNext, n \in Nat
  <2>. QED BY <1>5, <2>1, Zenon
<1>. QED BY <1>1, <1>2, <1>4, <1>6

(* AddWord stays within the loop and within a word.                        *)
LEMMA AddWordTypes ==
  ASSUME Typed, BusTypes, PnpTypes, NEW f \in Functions, AddWord(f)
  PROVE  Typed'
<1>1. /\ Looping(f) /\ loop[f].i < Reads[pc[f]] /\ data[f] # <<>>
      /\ loop' = [loop EXCEPT ![f] = [i |-> loop[f].i + 1,
                                      sum |-> Plus(loop[f].sum, data[f][1])]]
  BY DEF AddWord, Took
<1>2. PICK v \in Values : v = data[f][1]
  <2>1. data[f] \in Seq(Values)
    BY DEF BusTypes
  <2>. QED BY <1>1, <2>1
<1>3. PICK l \in Loops : l = loop[f]
  BY DEF Typed
<1>4. PICK n \in Nat : n = CHECKSUM_REG /\ l.i \in 0 .. n + 1 /\ l.i < n + 1
  <2>1. PICK n \in Nat : n = CHECKSUM_REG
    BY PnpSizes
  <2>2. l.i \in 0 .. n + 1
    BY <2>1 DEF Loops
  <2>3. Reads[pc[f]] \in 1 .. n + 1 /\ l.i < Reads[pc[f]]
    BY <1>1, <1>3, <2>1, ReadsAre
  <2>. QED BY <2>1, <2>2, <2>3
<1>5. Plus(l.sum, v) \in Values
  <2>1. l.sum + v \in Int
    <3>1. l.sum \in Values
      BY DEF Loops
    <3>2. l.sum \in Nat /\ v \in Nat
      BY <3>1, PnpSizes
    <3>. QED BY <3>2
  <2>. QED BY <2>1, PnpSizes DEF Plus
<1>6. [i |-> l.i + 1, sum |-> Plus(l.sum, v)] \in Loops
  BY <1>4, <1>5 DEF Loops
<1>7. loop' \in [Functions -> Loops]
  <2>1. PICK m \in Loops : m = [i |-> l.i + 1, sum |-> Plus(l.sum, v)]
    BY <1>6
  <2>2. loop' = [loop EXCEPT ![f] = m]
    BY <1>1, <1>2, <1>3, <2>1, Zenon
  <2>. QED BY <2>2 DEF Typed
<1>8. hw' \in [Functions -> HwRecords]
  <2>1. CASE UNCHANGED hw
    BY <2>1 DEF Typed
  <2>2. CASE pc[f] = "address" /\ hw' = [hw EXCEPT ![f].perm[loop[f].i + 1] = data[f][1]]
    <3>1. Reads[pc[f]] = 3
      BY <2>2 DEF Reads
    <3>2. PICK k \in 1 .. 3 : k = loop[f].i + 1
      BY <1>1, <1>3, <1>4, <3>1
    <3>3. PICK h \in HwRecords : h = hw[f]
      BY DEF Typed
    <3>4. PICK p \in [1 .. 3 -> Values] : p = h.perm
      BY DEF HwRecords
    <3>5. PICK p2 \in [1 .. 3 -> Values] : p2 = [p EXCEPT ![k] = v]
      BY <3>4
    <3>6. PICK h2 \in HwRecords : h2 = [h EXCEPT !.perm = p2]
      BY <3>5 DEF HwRecords
    <3>7. hw' = [hw EXCEPT ![f] = h2]
      BY <1>2, <2>2, <3>2, <3>3, <3>4, <3>5, <3>6, Zenon
    <3>. QED BY <3>7 DEF Typed
  <2>. QED BY <2>1, <2>2, Zenon DEF AddWord
<1>. QED BY <1>7, <1>8 DEF Typed

(* The address that is stored has its type.                                *)
LEMMA AddressTypes ==
  ASSUME Typed, NEW f \in Functions, LoopEnds(f)
  PROVE  hw' \in [Functions -> HwRecords]
<1>1. CASE UNCHANGED hw
  BY <1>1 DEF Typed
<1>2. CASE \E a : a = Flipped(f, hw[f].perm) /\ hw' = [hw EXCEPT ![f].perm = a, ![f].addr = a]
  <2>1. PICK a : a = Flipped(f, hw[f].perm) /\ hw' = [hw EXCEPT ![f].perm = a, ![f].addr = a]
    BY <1>2
  <2>2. PICK h \in HwRecords : h = hw[f]
    BY DEF Typed
  <2>3. PICK p \in [1 .. 3 -> Values] : p = h.perm
    BY DEF HwRecords
  <2>4. PICK v \in Values : v = Flip(p[3])
    BY <2>3, FlipIs
  <2>5. a = p \/ a = [p EXCEPT ![3] = v]
    BY <2>1, <2>2, <2>3, <2>4, Zenon DEF Flipped, Flip
  <2>6. a \in [1 .. 3 -> Values]
    BY <2>3, <2>4, <2>5
  <2>7. PICK h2 \in HwRecords : h2 = [h EXCEPT !.perm = a, !.addr = a]
    BY <2>6 DEF HwRecords
  <2>8. hw' = [hw EXCEPT ![f] = h2]
    BY <2>1, <2>2, <2>7
  <2>. QED BY <2>8 DEF Typed
<1>. QED BY <1>1, <1>2, Zenon DEF LoopEnds

(* The identified hardware has its type.                                   *)
LEMMA HwTypes ==
  ASSUME Typed, PnpTypes, NEW f \in Functions,
         IdentifyHardware(f) \/ SetupInitFuncs(f) \/ GetBusInfo(f)
  PROVE  hw' \in [Functions -> HwRecords]
<1>1. PICK h \in HwRecords : h = hw[f]
  BY DEF Typed
<1>2. PICK e \in {"82540", "other"} : e = adapter.family
  BY PnpAssumption DEF PnpTypes
<1>3. lan_id(f) \in 0 .. 1
  BY DEF lan_id
<1>4. \/ UNCHANGED hw
      \/ hw' = [hw EXCEPT ![f] = [h EXCEPT !.device_id = e]]
      \/ hw' = [hw EXCEPT ![f] = [h EXCEPT !.ops = TRUE]]
      \/ hw' = [hw EXCEPT ![f] = [h EXCEPT !.func = lan_id(f)]]
  BY <1>1, <1>2, Zenon DEF IdentifyHardware, SetupInitFuncs, GetBusInfo
<1>5. /\ [h EXCEPT !.device_id = e] \in HwRecords
      /\ [h EXCEPT !.ops = TRUE] \in HwRecords
      /\ [h EXCEPT !.func = lan_id(f)] \in HwRecords
  BY <1>1, <1>2, <1>3 DEF HwRecords
<1>. QED BY <1>4, <1>5 DEF Typed

(* Every step keeps the types.                                             *)
LEMMA TypesStep ==
  ASSUME Typed, BusTypes, PnpTypes, [Next]_vars
  PROVE  Typed'
<1>1. ASSUME NEW f \in Functions,
             AddDevice(f) \/ StartDevice(f) \/ Starts(f) \/ Rewrite(f)
         \/ StoreChecksum(f) \/ WriteEnds(f) \/ StopDevice(f) \/ RemoveDevice(f)
         \/ Bus(f) \/ Arbiter(f), ~AddWord(f)
      PROVE  Typed'
  <2>1. loop' \in [Functions -> Loops]
    BY <1>1, LoopMoves, LoopTypes
  <2>2. \/ IdentifyHardware(f) \/ SetupInitFuncs(f) \/ GetBusInfo(f)
        \/ LoopEnds(f) \/ UNCHANGED hw
    BY <1>1, Zenon DEF AddDevice, StartDevice, Starts, Rewrite, StoreChecksum,
       WriteEnds, StopDevice, RemoveDevice, Bus, Arbiter, AllocatePciResources,
       GetPhyId, ResetHw, ReadWord, ReadFails, pnpVars
  <2>3. hw' \in [Functions -> HwRecords]
    BY <2>2, HwTypes, AddressTypes DEF Typed
  <2>. QED BY <2>1, <2>3 DEF Typed
<1>2. CASE \E f \in Functions : AddWord(f)
  BY <1>2, AddWordTypes
<1>3. CASE NvmChanges \/ UNCHANGED vars
  BY <1>3 DEF NvmChanges, Typed, vars, pnpVars
<1>. QED BY <1>1, <1>2, <1>3, Zenon DEF Next, Starts

-----------------------------------------------------------------------------
(* How often a device is mapped.                                           *)

(* A step that maps nothing keeps the count of the mappings.               *)
LEMMA MappedSame ==
  ASSUME NEW f \in Functions, MappedOften(f),
         mappings'[f] = mappings[f], virtual'[f] = virtual[f], rebalances' = rebalances,
         pc'[f] \in Unmapped \cup {"stopped"} => pc[f] \in Unmapped \cup {"stopped"}
  PROVE  MappedOften(f)'
BY Zenon DEF MappedOften

(* No step but stopping or removing leads back before the mapping.         *)
LEMMA PlacesNext ==
  ASSUME ShellInv, NEW f \in Functions, NEW g \in Functions,
         \/ AddDevice(f) \/ StartDevice(f) \/ Starts(f) \/ Rewrite(f)
         \/ StoreChecksum(f) \/ WriteEnds(f) \/ Bus(f) \/ Arbiter(f),
         pc'[g] \in Unmapped \cup {"stopped"}
  PROVE  pc[g] \in Unmapped \cup {"stopped"}
<1>1. pc \in [Functions -> Places]
  BY DEF ShellInv, PnpTypes
<1>2. CASE UNCHANGED pc
  BY <1>2
<1>3. ASSUME NEW p \in Places, Goto(f, p), p \notin Unmapped \cup {"stopped"}
      PROVE  pc[g] \in Unmapped \cup {"stopped"}
  BY <1>1, <1>3 DEF Goto
<1>4. ASSUME NEW p \in Places, Goto(f, p), pc[f] \in Unmapped \cup {"stopped"}
      PROVE  pc[g] \in Unmapped \cup {"stopped"}
  BY <1>1, <1>4 DEF Goto
<1>5. CASE AddDevice(f) \/ StartDevice(f) \/ IdentifyHardware(f)
  <2>1. pc[f] \in Unmapped \cup {"stopped"}
    BY <1>5 DEF AddDevice, StartDevice, IdentifyHardware, Unmapped
  <2>2. \E p \in Places : Goto(f, p)
    BY <1>5 DEF AddDevice, StartDevice, IdentifyHardware, Places
  <2>. QED BY <1>4, <2>1, <2>2
<1>6. CASE AllocatePciResources(f) \/ SetupInitFuncs(f) \/ GetPhyId(f)
           \/ GetBusInfo(f) \/ ResetHw(f)
  <2>1. \E p \in {"init", "failed", "phy", "bus", "phy again", "reset", "validate"} : Goto(f, p)
    BY <1>6 DEF AllocatePciResources, SetupInitFuncs, GetPhyId, GetBusInfo,
       ResetHw
  <2>. QED BY <1>3, <2>1 DEF Places, Unmapped
<1>7. CASE ReadFails(f) \/ LoopEnds(f)
  <2>1. /\ pc[f] \in {"validate", "validate again", "address", "update"}
        /\ \E s \in BOOLEAN : Goto(f, After(f, s))
    BY <1>7 DEF ReadFails, LoopEnds, Took, Looping, Reads
  <2>2. \E p \in {"address", "validate again", "failed", "started", "store", "dirty"} : Goto(f, p)
    BY <2>1 DEF After
  <2>. QED BY <1>3, <2>2 DEF Places, Unmapped
<1>8. CASE Rewrite(f) \/ StoreChecksum(f) \/ WriteEnds(f)
  <2>1. \E p \in {"rewrite", "stored", "dirty", "update", "started"} : Goto(f, p)
    BY <1>8 DEF Rewrite, StoreChecksum, WriteEnds
  <2>. QED BY <1>3, <2>1 DEF Places, Unmapped
<1>9. CASE ReadWord(f) \/ AddWord(f) \/ Bus(f) \/ Arbiter(f)
  BY <1>2, <1>9, Zenon DEF ReadWord, AddWord, Bus, Arbiter, pnpVars
<1>. QED BY <1>5, <1>6, <1>7, <1>8, <1>9 DEF Starts

(* A start maps once more.                                                 *)
LEMMA AllocateMaps ==
  ASSUME ShellInv, TypedInv, NEW f \in Functions, NEW g \in Functions,
         AllocatePciResources(f)
  PROVE  MappedOften(g)'
<1>1. rebalances \in Nat /\ rebalances' = rebalances /\ MappedOften(g)
  BY DEF ShellInv, PnpTypes, AllocatePciResources, TypedInv
<1>2. /\ pc \in [Functions -> Places] /\ mappings \in [Functions -> Int]
      /\ virtual \in [Functions -> BOOLEAN]
  BY DEF ShellInv, PnpTypes
<1>3. \/ /\ mappings' = [mappings EXCEPT ![f] = mappings[f] + 1]
         /\ virtual' = [virtual EXCEPT ![f] = TRUE] /\ Goto(f, "init")
      \/ /\ mappings' = mappings /\ Goto(f, "failed")
         /\ virtual' = [virtual EXCEPT ![f] = FALSE]
  BY DEF AllocatePciResources
<1>4. CASE g # f
  BY <1>1, <1>2, <1>3, <1>4 DEF MappedOften, Goto
<1>5. CASE g = f
  <2>1. mappings[f] \in 0 .. rebalances
    BY <1>1, <1>2, <1>5 DEF AllocatePciResources, MappedOften, Unmapped
  <2>. QED BY <1>1, <1>2, <1>3, <1>5, <2>1 DEF MappedOften, Goto, Unmapped
<1>. QED BY <1>4, <1>5

(* A stop counts as a rebalance; a removal unmaps once.                    *)
LEMMA StopAndRemoveMaps ==
  ASSUME ShellInv, TypedInv, NEW f \in Functions, NEW g \in Functions,
         StopDevice(f) \/ RemoveDevice(f)
  PROVE  MappedOften(g)'
<1>1. rebalances \in Nat /\ MappedOften(g)
  BY DEF ShellInv, PnpTypes, TypedInv
<1>2. /\ pc \in [Functions -> Places] /\ mappings \in [Functions -> Int]
      /\ virtual \in [Functions -> BOOLEAN]
  BY DEF ShellInv, PnpTypes
<1>3. CASE StopDevice(f)
  <2>1. /\ rebalances' = rebalances + 1 /\ mappings' = mappings /\ virtual' = virtual
        /\ Goto(f, "stopped")
    BY <1>3 DEF StopDevice
  <2>. QED BY <1>1, <1>2, <2>1 DEF MappedOften, Goto
<1>4. CASE RemoveDevice(f)
  <2>1. /\ rebalances' = rebalances /\ Goto(f, "deleted")
        /\ \/ /\ virtual[f] /\ mappings' = [mappings EXCEPT ![f] = mappings[f] - 1]
              /\ virtual' = [virtual EXCEPT ![f] = FALSE]
           \/ mappings' = mappings /\ virtual' = virtual
    BY <1>4 DEF RemoveDevice
  <2>. QED BY <1>1, <1>2, <2>1 DEF MappedOften, Goto, Unmapped
<1>. QED BY <1>3, <1>4

(* Every step keeps the types and the count of the mappings.               *)
LEMMA TypedStep ==
  ASSUME ShellInv, TypedInv, BusTypes, [Next]_vars
  PROVE  TypedInv'
<1>1. Typed'
  BY TypesStep DEF ShellInv, TypedInv
<1>2. ASSUME NEW g \in Functions PROVE MappedOften(g)'
  <2>1. MappedOften(g)
    BY DEF TypedInv
  <2>2. ASSUME NEW f \in Functions,
               \/ AddDevice(f) \/ StartDevice(f) \/ Starts(f) \/ Rewrite(f)
               \/ StoreChecksum(f) \/ WriteEnds(f) \/ Bus(f) \/ Arbiter(f),
               ~AllocatePciResources(f)
        PROVE  MappedOften(g)'
    <3>1. UNCHANGED <<mappings, virtual, rebalances>>
      BY <2>2, Zenon DEF AddDevice, StartDevice, Starts, Rewrite,
         StoreChecksum,
         WriteEnds, Bus, Arbiter, IdentifyHardware, SetupInitFuncs, GetPhyId,
         GetBusInfo, ResetHw, ReadWord, AddWord, ReadFails, LoopEnds, pnpVars
    <3>. QED BY <2>1, <2>2, <3>1, PlacesNext, MappedSame
  <2>3. CASE NvmChanges \/ UNCHANGED vars
    BY <2>1, <2>3, MappedSame DEF NvmChanges, vars, pnpVars
  <2>. QED BY <2>2, <2>3, AllocateMaps, StopAndRemoveMaps, Zenon DEF Next,
              Starts
<1>. QED BY <1>1, <1>2 DEF TypedInv

-----------------------------------------------------------------------------
(* What a step of the shell does to the bus.                               *)

(* A step that leaves the bus keeps its invariant.                         *)
LEMMA BusStill ==
  ASSUME BusInv, UNCHANGED busVars
  PROVE  BusInv'
<1>1. /\ words' = words /\ chip' = chip /\ pins' = pins /\ req' = req
      /\ gnt' = gnt /\ todo' = todo /\ data' = data /\ call' = call
      /\ status' = status /\ timeouts' = timeouts
  BY DEF busVars
<1>2. BusTypes' /\ OneGranted'
  BY <1>1 DEF BusInv, BusTypes, OneGranted
<1>3. PICK P, K : CallsAt(P, K)
  BY DEF BusInv
<1>4. CallsAt(P, K)'
  BY <1>1, <1>3, Zenon DEF CallsAt, CallAt, HolderAt
<1>. QED BY <1>2, <1>4, Zenon DEF BusInv

(* A loop asks for one word within bounds.                                 *)
LEMMA ReadBegins ==
  ASSUME BusInv, Typed, NEW f \in Functions, ReadWord(f)
  PROVE  BusInv'
<1>1. PICK i \in Nat : i = loop[f].i
  <2>1. loop[f].i \in 0 .. CHECKSUM_REG + 1
    BY DEF Typed, Loops
  <2>. QED BY <2>1, PnpSizes
<1>2. todo[f] = <<>>
  BY DEF ReadWord, Quiet
<1>3. PICK c \in Calls : c = [op |-> "read", offset |-> i, vals |-> <<>>, n |-> 1]
  <2>1. <<>> \in Seq(Values)
    BY EmptyIn
  <2>. QED BY <2>1 DEF Calls
<1>4. /\ c.op = "read" /\ c.offset = i /\ c.n = 1
  BY <1>3
<1>5. Begin(f, c, read_nvm_microwire(i, 1))
  BY <1>1, <1>3, Zenon DEF ReadWord, BeginRead
<1>6. Begin(f, c, IF c.op = "read" THEN read_nvm_microwire(c.offset, c.n)
                  ELSE write_nvm_microwire(c.offset, c.vals))
  BY <1>4, <1>5, Zenon
<1>7. c.op = "write" => c.n = Len(c.vals)
  BY <1>4
<1>. QED BY <1>2, <1>6, <1>7, BeginStep

(* A client, or the checksum, is written.                                  *)
LEMMA WriteBegins ==
  ASSUME BusInv, NEW f \in Functions, todo[f] = <<>>, NEW offset \in Nat,
         NEW vals \in Seq(Values), BeginWrite(f, offset, vals)
  PROVE  BusInv'
<1>1. PICK c \in Calls : c = [op |-> "write", offset |-> offset, vals |-> vals,
                              n |-> Len(vals)]
  <2>1. Len(vals) \in Nat
    OBVIOUS
  <2>. QED BY <2>1 DEF Calls
<1>2. /\ c.op = "write" /\ c.offset = offset /\ c.vals = vals /\ c.n = Len(vals)
  BY <1>1
<1>3. Begin(f, c, write_nvm_microwire(offset, vals))
  BY <1>1, Zenon DEF BeginWrite
<1>4. Begin(f, c, IF c.op = "read" THEN read_nvm_microwire(c.offset, c.n)
                  ELSE write_nvm_microwire(c.offset, c.vals))
  <2>1. c.op # "read"
    BY <1>2
  <2>. QED BY <1>2, <1>3, <2>1, Zenon
<1>. QED BY <1>2, <1>4, BeginStep

(* The checksum that is stored is a word.                                  *)
LEMMA StoredIs ==
  ASSUME Typed, NEW f \in Functions
  PROVE  (SUM + Pow2[WordBits] - loop[f].sum) % Pow2[WordBits] \in Values
<1>1. PICK m \in Nat, s \in Nat : m = Pow2[WordBits] /\ s = SUM
  BY PnpSizes
<1>2. loop[f].sum \in Values
  BY DEF Typed, Loops
<1>3. PICK v \in Nat : v = loop[f].sum
  BY <1>2, PnpSizes
<1>4. PICK x \in Int : x = s + m - v
  OBVIOUS
<1>5. x % Pow2[WordBits] \in Values
  BY PnpSizes
<1>. QED BY <1>1, <1>3, <1>4, <1>5, Zenon

(* What the shell does with the bus keeps its invariant.                   *)
LEMMA ShellBus ==
  ASSUME ShellInv, BusInv, Typed, NEW f \in Functions,
         ReadWord(f) \/ Rewrite(f) \/ StoreChecksum(f)
         \/ AddWord(f) \/ ReadFails(f) \/ WriteEnds(f)
  PROVE  BusInv'
<1>1. CASE ReadWord(f)
  BY <1>1, ReadBegins
<1>2. CASE Rewrite(f)
  <2>1. PICK r \in Rewrites : BeginWrite(f, 0, r)
    BY <1>2 DEF Rewrite
  <2>2. r \in Seq(Values) /\ 0 \in Nat /\ todo[f] = <<>>
    BY <1>2, PnpAssumption DEF Rewrite, Quiet
  <2>. QED BY <2>1, <2>2, WriteBegins
<1>3. CASE StoreChecksum(f)
  <2>1. PICK v \in Values : v = (SUM + Pow2[WordBits] - loop[f].sum) % Pow2[WordBits]
    BY StoredIs
  <2>2. BeginWrite(f, CHECKSUM_REG, <<v>>)
    BY <1>3, <2>1, Zenon DEF StoreChecksum
  <2>3. <<v>> \in Seq(Values) /\ CHECKSUM_REG \in Nat
    BY PnpSizes
  <2>4. todo[f] = <<>>
    BY <1>3 DEF StoreChecksum, ShellInv, DeviceOK, CallInPlace, Calling
  <2>. QED BY <2>2, <2>3, <2>4, WriteBegins
<1>4. CASE AddWord(f) \/ ReadFails(f) \/ WriteEnds(f)
  <2>1. todo[f] = <<>> /\ Idle(f)
    BY <1>4 DEF AddWord, ReadFails, WriteEnds, Took, Quiet
  <2>. QED BY <2>1, IdleStep DEF Idle
<1>. QED BY <1>1, <1>2, <1>3, <1>4

(* Every step keeps the invariant of the bus.                              *)
LEMMA BusInvStep ==
  ASSUME ShellInv, BusInv, Typed, [Next]_vars
  PROVE  BusInv'
<1>1. ASSUME NEW f \in Functions,
             \/ AddDevice(f) \/ StartDevice(f) \/ Starts(f) \/ StopDevice(f) \/ RemoveDevice(f),
             ~ReadWord(f), ~AddWord(f), ~ReadFails(f)
      PROVE  BusInv'
  <2>1. UNCHANGED busVars
    BY <1>1, Zenon DEF AddDevice, StartDevice, Starts, StopDevice,
       RemoveDevice,
       IdentifyHardware, AllocatePciResources, SetupInitFuncs, GetPhyId,
       GetBusInfo, ResetHw, LoopEnds
  <2>. QED BY <2>1, BusStill
<1>2. ASSUME NEW f \in Functions, BusStep(f)
      PROVE  BusInv'
  BY <1>2, DrivePinsStep, RequestStep, GrantedStep, GrantTimeoutStep,
     WrittenStep,
     WriteTimeoutStep, ReleaseStep, Zenon DEF BusStep
<1>3. ASSUME NEW f \in Functions, Grant(f)
      PROVE  BusInv'
  BY <1>3, GrantStep
<1>4. CASE Programmed
  BY <1>4, ProgrammedStep
<1>5. CASE UNCHANGED vars
  BY <1>5, BusStill DEF vars
<1>. QED BY <1>1, <1>2, <1>3, <1>4, <1>5, ShellBus, Zenon
         DEF Next, Starts, Bus, Arbiter, NvmChanges

-----------------------------------------------------------------------------
(* The theorems.                                                           *)

TransferInv == ShellInv /\ TypedInv /\ BusInv

(* In every behaviour each device is where its mapping and its calls say,  *)
(* the variables have their types, and each call is where its routines     *)
(* say, with the chip as the call expects it.                              *)
THEOREM TransferInvariant == Spec => []TransferInv
<1>1. Init => TypedInv
  <2>1. SUFFICES ASSUME Init PROVE TypedInv
    OBVIOUS
  <2>2. NewLoop \in Loops
    BY PnpSizes DEF NewLoop, Loops
  <2>3. NewHw \in HwRecords
    BY PnpSizes DEF NewHw, Zeros, HwRecords
  <2>4. /\ mappings = [f \in Functions |-> 0] /\ rebalances = 0
        /\ virtual = [f \in Functions |-> FALSE]
        /\ hw = [f \in Functions |-> NewHw] /\ loop = [f \in Functions |-> NewLoop]
    BY <2>1, Zenon DEF Init
  <2>5. ASSUME NEW f \in Functions PROVE MappedOften(f)
    <3>1. mappings[f] = 0 /\ rebalances = 0 /\ virtual[f] = FALSE
      BY <2>4
    <3>. QED BY <3>1 DEF MappedOften
  <2>. QED BY <2>2, <2>3, <2>4, <2>5 DEF TypedInv, Typed
<1>2. Init => BusInv
  BY BusInitial, PnpAssumption DEF Init
<1>3. BusInv /\ TypedInv => BusTypes /\ Typed
  BY DEF BusInv, TypedInv
<1>4. TypedInv /\ ShellInv /\ BusInv /\ [Next]_vars => TypedInv' /\ BusInv'
  BY <1>3, TypedStep, BusInvStep
<1>. QED BY <1>1, <1>2, <1>4, ShellInvariant, PTL DEF Spec, TransferInv

(* A transfer that succeeded has read what the NVM held, or written what   *)
(* it was given, whatever the other function does between the words        *)
(* (e1000_nvm.c:502-757).                                                  *)
THEOREM TransfersAreTrueHolds == Spec => []TransfersAreTrue
<1>1. TransferInv => TransfersAreTrue
  BY BusTransfers DEF TransferInv
<1>. QED BY <1>1, TransferInvariant, PTL

(* The variables of the shell and of the bus have their types, and a       *)
(* device is mapped at most once for each start it had.                    *)
THEOREM PnpTypeOKHolds == Spec => []PnpTypeOK
<1>1. ASSUME TransferInv PROVE PnpTypeOK
  <2>1. BusTypeOK
    BY <1>1, BusTyped DEF TransferInv
  <2>2. ASSUME NEW f \in Functions
        PROVE  /\ mappings[f] \in 0 .. 1 + rebalances
               /\ loop[f].i \in 0 .. CHECKSUM_REG + 1 /\ loop[f].sum \in Values
               /\ hw[f].addr \in [1 .. 3 -> Values] /\ hw[f].func \in 0 .. 1
    BY <1>1 DEF TransferInv, TypedInv, Typed, MappedOften, Loops, HwRecords
  <2>3. pc \in [Functions -> Places] /\ virtual \in [Functions -> BOOLEAN]
    BY <1>1 DEF TransferInv, ShellInv, PnpTypes
  <2>. QED BY <2>1, <2>2, <2>3 DEF PnpTypeOK
<1>. QED BY <1>1, TransferInvariant, PTL

-----------------------------------------------------------------------------
(* What the calls of the shell need to know of the bus.                    *)

(* A call ends with the release of the EEPROM.                             *)
LEMMA NotLast ==
  ASSUME BusInv, NEW f \in Functions, NEW name, NextIs(f, name),
         name # "release"
  PROVE  Tail(todo[f]) # <<>>
<1>1. PICK P, K : CallsAt(P, K)
  BY DEF BusInv
<1>2. PICK p, k, c : p = P[f] /\ k = K[f] /\ c = call[f] /\ CallAt(f, p, k)
  BY <1>1 DEF CallsAt
<1>3. /\ p \in CallPlaces /\ CallOK(c) /\ PlaceOK(c, p, k)
      /\ Head(todo[f]) = First(c, p, k)
      /\ Tail(todo[f]) = Left(c, Then(c, p, k), ThenLeft(p, k))
  BY <1>2, PlaceOf DEF NextIs
<1>4. p # "release"
  <2>1. Plain("release").name = "release"
    BY DEF Plain, Routine
  <2>2. p = "release" => First(c, p, k) = Plain("release")
    BY DEF First
  <2>. QED BY <1>3, <2>1, <2>2, Zenon DEF NextIs
<1>5. PICK q, j : q = Then(c, p, k) /\ j = ThenLeft(p, k)
  OBVIOUS
<1>6. q \in CallPlaces /\ PlaceOK(c, q, j)
  BY <1>3, <1>4, <1>5, PlaceMoves
<1>7. Steps(c, q, j, Then(c, q, j), ThenLeft(q, j))
  BY <1>3, <1>6, CallSteps
<1>. QED BY <1>3, <1>5, <1>7 DEF Steps

(* A call that may begin has something to do.                              *)
LEMMA ProgramNotEmpty ==
  ASSUME NEW c, CallOK(c)
  PROVE  (IF c.op = "read" THEN read_nvm_microwire(c.offset, c.n)
          ELSE write_nvm_microwire(c.offset, c.vals)) # <<>>
<1>1. PICK n : n = c.n /\ PlaceOK(c, "acquire", n)
  BY ProgramIs
<1>2. PICK p \in CallPlaces : p = "acquire"
  BY DEF CallPlaces, Openings
<1>3. Steps(c, p, n, Then(c, p, n), ThenLeft(p, n))
  BY <1>1, <1>2, CallSteps
<1>4. Left(c, p, n) # <<>>
  BY <1>3 DEF Steps
<1>. QED BY <1>1, <1>2, <1>4, ProgramIs

(* The chip programs a word of a write that is not over.                   *)
LEMMA Writer ==
  ASSUME BusInv, Programmed, timeouts.write = 0
  PROVE  \E g \in Functions :
           /\ todo[g] # <<>> /\ call[g].op = "write"
           /\ call[g].n = 1 => chip.busy[1] = call[g].offset
<1>1. PICK P, K : CallsAt(P, K)
  BY DEF BusInv
<1>2. chip.busy # <<>>
  BY DEF Programmed
<1>3. ~ \A g \in Functions : P[g] \in Outside
  <2>1. Idle0(FALSE).busy = <<>>
    BY DEF Idle0, Chip
  <2>. QED BY <1>1, <1>2, <2>1 DEF CallsAt, Free
<1>4. PICK g \in Functions : P[g] \notin Outside
  BY <1>3
<1>5. PICK p, k, c : p = P[g] /\ k = K[g] /\ c = call[g] /\ CallAt(g, p, k) /\ HolderAt(g, p, k)
  BY <1>1 DEF CallsAt
<1>6. p \in CallPlaces \ Outside /\ CallOK(c) /\ PlaceOK(c, p, k) /\ todo[g] = Left(c, p, k)
  BY <1>4, <1>5 DEF CallAt, Outside
<1>7. ChipAt(c, p, k, chip, words)
  BY <1>4, <1>5 DEF HolderAt, Held
<1>8. p = "written" /\ chip = Programming(TRUE, <<Offset(c, k), c.vals[c.n - k + 1]>>)
  BY <1>2, <1>6, <1>7, BusyPlace
<1>9. todo[g] # <<>>
  <2>1. Steps(c, p, k, Then(c, p, k), ThenLeft(p, k))
    BY <1>6, CallSteps
  <2>. QED BY <1>6, <2>1 DEF Steps
<1>10. c.op = "write" /\ k \in 0 .. c.n /\ k > 0
  BY <1>6, <1>8 DEF PlaceOK, WritePlaces
<1>11. chip.busy[1] = Offset(c, k)
  <2>1. PICK a, b : a = Offset(c, k) /\ b = c.vals[c.n - k + 1]
    OBVIOUS
  <2>2. PICK yes : yes = TRUE
    OBVIOUS
  <2>3. chip = Programming(yes, <<a, b>>)
    BY <1>8, <2>1, <2>2, Zenon
  <2>4. chip.busy = <<a, b>>
    BY <2>3 DEF Programming
  <2>. QED BY <2>1, <2>4
<1>12. c.n = 1 => Offset(c, k) = c.offset
  <2>1. PICK o \in Nat : o = c.offset
    BY <1>6, CallIs
  <2>2. c.n = 1 => k = 1
    BY <1>10
  <2>3. o + (1 - 1) = o
    OBVIOUS
  <2>. QED BY <2>1, <2>2, <2>3, Zenon DEF Offset
<1>. QED BY <1>5, <1>9, <1>10, <1>11, <1>12

-----------------------------------------------------------------------------
(* The sum of the words, and what is left of it in a word.                 *)

SumLoop(s, w) ==
  s = [k \in 0 .. CHECKSUM_REG + 1 |-> IF k = 0 THEN 0 ELSE s[k - 1] + w[k - 1]]
Sums(w) == CHOOSE s : SumLoop(s, w)
InWord(x) == x % Pow2[WordBits]

(* The sums over the first words, as far as the checksum.                  *)
LEMMA SumsAre ==
  ASSUME NEW w \in [Offsets -> Values]
  PROVE  /\ Sums(w)[0] = 0
         /\ \A k \in 0 .. CHECKSUM_REG + 1 : Sums(w)[k] \in Nat
         /\ \A k \in 0 .. CHECKSUM_REG :
              w[k] \in Nat /\ Sums(w)[k + 1] = Sums(w)[k] + w[k]
<1>1. PICK n \in Nat : n = CHECKSUM_REG + 1
  BY PnpSizes
<1>. DEFINE F == [i \in 1 .. n |-> [x \in Nat |-> x + w[i - 1]]]
            R == [i \in 0 .. n |-> Nat]
<1>2. \A k \in 0 .. n - 1 : w[k] \in Nat
  <2>1. PICK m \in Nat, c \in Nat : m = WordSize /\ c = CHECKSUM_REG /\ c < m
    BY PnpSizes
  <2>2. \A k \in 0 .. n - 1 : k \in 0 .. m - 1
    BY <1>1, <2>1
  <2>3. \A k \in Offsets : w[k] \in Nat
    BY PnpSizes
  <2>. QED BY <2>1, <2>2, <2>3 DEF Offsets
<1>3. \A i \in 1 .. n : \A x \in Nat : F[i][x] = x + w[i - 1]
  OBVIOUS
<1>4. \A i \in 0 .. n : R[i] = Nat
  OBVIOUS
<1>. HIDE DEF F, R
<1>5. \A i \in 0 .. n : \A x \in R[i] : i < n => F[i + 1][x] \in R[i + 1]
  <2>1. SUFFICES ASSUME NEW i \in 0 .. n, NEW x \in Nat, i < n
                 PROVE  F[i + 1][x] \in Nat
    BY <1>4
  <2>2. i + 1 \in 1 .. n /\ i \in 0 .. n - 1 /\ (i + 1) - 1 = i
    BY <2>1
  <2>3. F[i + 1][x] = x + w[i]
    BY <1>3, <2>2
  <2>. QED BY <1>2, <2>2, <2>3
<1>6. 0 \in R[0]
  BY <1>4
<1>7. PICK s : Follows(s, n, 0, F)
  BY FollowsExists
<1>8. \A i \in 0 .. n : s[i] \in Nat
  BY <1>4, <1>5, <1>6, <1>7, FollowsIn
<1>9. s = [k \in 0 .. n |-> IF k = 0 THEN 0 ELSE s[k - 1] + w[k - 1]]
  <2>1. s = [i \in 0 .. n |-> s[i]]
    BY <1>7 DEF Follows
  <2>2. s[0] = 0 /\ \A i \in 0 .. n : i < n => s[i + 1] = F[i + 1][s[i]]
    BY <1>7, FollowsSteps
  <2>3. ASSUME NEW i \in 0 .. n, i # 0 PROVE s[i] = s[i - 1] + w[i - 1]
    <3>1. i - 1 \in 0 .. n /\ i - 1 < n /\ i - 1 + 1 = i /\ i \in 1 .. n
      BY <2>3
    <3>2. s[i] = F[i][s[i - 1]] /\ s[i - 1] \in Nat
      BY <1>8, <2>2, <3>1
    <3>. QED BY <1>3, <3>1, <3>2
  <2>. QED BY <2>1, <2>2, <2>3
<1>10. SumLoop(Sums(w), w)
  <2>1. SumLoop(s, w)
    BY <1>1, <1>9, Zenon DEF SumLoop
  <2>. QED BY <2>1, Zenon DEF Sums
<1>11. PICK t : t = Sums(w) /\ t = [k \in 0 .. n |-> IF k = 0 THEN 0 ELSE t[k - 1] + w[k - 1]]
  BY <1>1, <1>10, Zenon DEF SumLoop
<1>12. t[0] = 0
  <2>1. 0 \in 0 .. n
    OBVIOUS
  <2>. QED BY <1>11, <2>1, Zenon
<1>13. \A k \in 0 .. n - 1 : t[k + 1] = t[k] + w[k]
  <2>1. SUFFICES ASSUME NEW k \in 0 .. n - 1 PROVE t[k + 1] = t[k] + w[k]
    OBVIOUS
  <2>2. PICK j \in 0 .. n : j = k + 1 /\ j # 0 /\ j - 1 = k
    OBVIOUS
  <2>3. t[j] = t[j - 1] + w[j - 1]
    BY <1>11, <2>2, Zenon
  <2>. QED BY <2>2, <2>3, Zenon
<1>14. \A k \in 0 .. n : t[k] \in Nat
  <2>. DEFINE T == {k \in 0 .. n : t[k] \in Nat}
  <2>1. 0 \in T
    BY <1>12
  <2>2. \A k \in 0 .. n : k < n /\ k \in T => k + 1 \in T
    <3>1. SUFFICES ASSUME NEW k \in 0 .. n, k < n,
                          t[k] \in Nat PROVE t[k + 1] \in Nat /\ k + 1 \in 0 .. n
      OBVIOUS
    <3>2. k \in 0 .. n - 1
      BY <3>1
    <3>. QED BY <1>2, <1>13, <3>1, <3>2
  <2>3. \A k \in T : t[k] \in Nat
    OBVIOUS
  <2>. HIDE DEF T
  <2>. QED BY <2>1, <2>2, <2>3, UpTo
<1>15. 0 .. n - 1 = 0 .. CHECKSUM_REG
  BY <1>1, PnpSizes
<1>. QED BY <1>1, <1>2, <1>11, <1>12, <1>13, <1>14, <1>15, Zenon

(* The sum of the first words depends on no other word.                    *)
LEMMA SumsPrefix ==
  ASSUME NEW w \in [Offsets -> Values], NEW v \in [Offsets -> Values],
         \A i \in 0 .. CHECKSUM_REG - 1 : v[i] = w[i]
  PROVE  \A k \in 0 .. CHECKSUM_REG : Sums(v)[k] = Sums(w)[k]
<1>1. PICK n \in Nat : n = CHECKSUM_REG
  BY PnpSizes
<1>2. PICK s, t : /\ s = Sums(w) /\ t = Sums(v) /\ s[0] = 0 /\ t[0] = 0
                  /\ \A k \in 0 .. n : s[k + 1] = s[k] + w[k] /\ t[k + 1] = t[k] + v[k]
  <2>1. PICK s, t : s = Sums(w) /\ t = Sums(v)
    OBVIOUS
  <2>2. s[0] = 0 /\ \A k \in 0 .. n : s[k + 1] = s[k] + w[k]
    BY <1>1, <2>1, SumsAre, Zenon
  <2>3. t[0] = 0 /\ \A k \in 0 .. n : t[k + 1] = t[k] + v[k]
    BY <1>1, <2>1, SumsAre, Zenon
  <2>. QED BY <2>1, <2>2, <2>3
<1>3. \A i \in 0 .. n - 1 : v[i] = w[i]
  BY <1>1
<1>. DEFINE T == {k \in 0 .. n : t[k] = s[k]}
<1>4. 0 \in T
  BY <1>2
<1>5. \A k \in 0 .. n : k < n /\ k \in T => k + 1 \in T
  <2>1. SUFFICES ASSUME NEW k \in 0 .. n, k < n, t[k] = s[k]
                 PROVE  t[k + 1] = s[k + 1] /\ k + 1 \in 0 .. n
    OBVIOUS
  <2>2. k \in 0 .. n - 1 /\ k + 1 \in 0 .. n
    BY <2>1
  <2>. QED BY <1>2, <1>3, <2>1, <2>2, Zenon
<1>6. \A k \in T : t[k] = s[k]
  OBVIOUS
<1>. HIDE DEF T
<1>7. \A k \in 0 .. n : t[k] = s[k]
  BY <1>4, <1>5, <1>6, UpTo
<1>. QED BY <1>1, <1>2, <1>7, Zenon

(* The checksum is valid when the sum of all words is.                     *)
LEMMA ChecksumIs ==
  ChecksumValid <=> InWord(Sums(words)[CHECKSUM_REG + 1]) = SUM
BY Zenon DEF ChecksumValid, Sums, SumLoop, InWord

(* A rest is unique.                                                       *)
LEMMA ModUnique ==
  ASSUME NEW x \in Nat, NEW p \in Nat, p > 0, NEW q \in Nat, NEW r \in Nat,
         r < p, x = p * q + r
  PROVE  x % p = r
OBVIOUS

(* A sum may be cut to a word before the next word is added to it.         *)
LEMMA CutSum ==
  ASSUME NEW a \in Nat, NEW b \in Nat
  PROVE  Plus(InWord(a), b) = InWord(a + b)
<1>1. PICK m \in Nat : m = Pow2[WordBits] /\ m > 0
  BY PnpSizes
<1>2. PICK q \in Nat, r \in Nat : a = m * q + r /\ r < m /\ r = a % m
  <2>1. a \div m \in Nat /\ a % m \in 0 .. m - 1 /\ a = m * (a \div m) + (a % m)
    BY ONLY <1>1, a \in Nat, m \in Nat, DivPart
  <2>2. PICK q \in Nat, r \in 0 .. m - 1 : q = a \div m /\ r = a % m
    BY <2>1
  <2>3. a = m * q + r
    BY <2>1, <2>2, Zenon
  <2>. QED BY <1>1, <2>2, <2>3
<1>3. PICK y \in Nat : y = r + b
  OBVIOUS
<1>4. PICK d \in Nat, e \in Nat : y = m * d + e /\ e < m /\ e = y % m
  <2>1. y \div m \in Nat /\ y % m \in 0 .. m - 1 /\ y = m * (y \div m) + (y % m)
    BY ONLY <1>1, y \in Nat, m \in Nat, DivPart
  <2>2. PICK d \in Nat, e \in 0 .. m - 1 : d = y \div m /\ e = y % m
    BY <2>1
  <2>3. y = m * d + e
    BY <2>1, <2>2, Zenon
  <2>. QED BY <1>1, <2>2, <2>3
<1>5. a + b = m * (q + d) + e
  <2>1. m * (q + d) = m * q + m * d
    BY ONLY m \in Nat, q \in Nat, d \in Nat
  <2>2. PICK u \in Nat, v \in Nat : u = m * q /\ v = m * d
    OBVIOUS
  <2>3. a = u + r /\ y = v + e /\ m * (q + d) = u + v
    BY <1>2, <1>4, <2>1, <2>2, Zenon
  <2>4. a + b = u + v + e
    BY ONLY <1>3, <2>3, u \in Nat, v \in Nat, e \in Nat, r \in Nat, b \in Nat
  <2>. QED BY <2>3, <2>4, Zenon
<1>6. PICK h \in Nat, x \in Nat : h = q + d /\ x = a + b
  OBVIOUS
<1>7. x % m = e
  BY ONLY <1>1, <1>4, <1>5, <1>6, ModUnique, x \in Nat, m \in Nat, h \in Nat,
     e \in Nat
<1>. QED BY <1>1, <1>2, <1>3, <1>4, <1>6, <1>7, Zenon DEF Plus, InWord

(* The word that makes a sum what it should be.                            *)
Missing(s) == (SUM + Pow2[WordBits] - s) % Pow2[WordBits]

(* What is missing to the sum makes it valid.                              *)
LEMMA MissingIs ==
  ASSUME NEW a \in Nat
  PROVE  /\ Missing(InWord(a)) \in Nat
         /\ InWord(a + Missing(InWord(a))) = SUM
<1>1. PICK m \in Nat, z \in Nat : m = Pow2[WordBits] /\ m > 0 /\ z = SUM /\ z < m
  <2>1. PICK m \in Nat : m = Pow2[WordBits] /\ m > 0
    BY PnpSizes
  <2>2. SUM \in 0 .. m - 1
    BY <2>1, PnpSizes DEF Values
  <2>. QED BY <2>1, <2>2
<1>2. PICK r \in 0 .. m - 1 : r = InWord(a)
  BY <1>1 DEF InWord
<1>3. PICK g \in Nat : g = Missing(r) /\ (r + g = z \/ r + g = z + m)
  <2>1. CASE r <= z
    <3>1. PICK x \in Nat, e \in Nat : x = z + m - r /\ e = z - r
      BY <1>1, <2>1
    <3>2. x = m * 1 + e /\ e < m
      BY <1>1, <3>1
    <3>3. x % m = e
      BY ONLY <1>1, <3>2, ModUnique, x \in Nat, m \in Nat, 1 \in Nat, e \in Nat
    <3>. QED BY <1>1, <3>1, <3>3 DEF Missing
  <2>2. CASE r > z
    <3>1. PICK x \in Nat : x = z + m - r
      BY <1>1, <2>2
    <3>2. x = m * 0 + x /\ x < m
      BY <1>1, <2>2, <3>1
    <3>3. x % m = x
      BY ONLY <1>1, <3>2, ModUnique, x \in Nat, m \in Nat, 0 \in Nat
    <3>4. r + x = z + m
      BY <1>1, <3>1
    <3>. QED BY <1>1, <3>1, <3>3, <3>4, Zenon DEF Missing
  <2>. QED BY <1>1, <2>1, <2>2
<1>4. Plus(r, g) = z
  <2>1. PICK x \in Nat : x = r + g
    OBVIOUS
  <2>2. CASE x = z
    <3>1. x = m * 0 + z
      BY <2>2
    <3>2. x % m = z
      BY ONLY <1>1, <3>1, ModUnique, x \in Nat, m \in Nat, 0 \in Nat, z \in Nat
    <3>. QED BY <1>1, <2>1, <3>2, Zenon DEF Plus
  <2>3. CASE x = z + m
    <3>1. x = m * 1 + z
      BY <2>3
    <3>2. x % m = z
      BY ONLY <1>1, <3>1, ModUnique, x \in Nat, m \in Nat, 1 \in Nat, z \in Nat
    <3>. QED BY <1>1, <2>1, <3>2, Zenon DEF Plus
  <2>. QED BY <1>3, <2>1, <2>2, <2>3
<1>5. Plus(r, g) = InWord(a + g)
  BY <1>2, CutSum
<1>. QED BY <1>1, <1>2, <1>3, <1>4, <1>5, Zenon

-----------------------------------------------------------------------------
(* Nothing a start of f relies on has changed but by f itself.             *)
Fresh(f)       == timeouts.write = 0 /\ (disturbed[f] => Clients \subseteq {f})
Undisturbed(f) == timeouts.write = 0 /\ ~disturbed[f]

Writing  == {"rewrite", "update", "store", "stored", "dirty"}
Summing  == DOMAIN Reads \cup {"store", "stored"}
Chosen   == Summing \cup Writing \cup {"reset", "started"}
More(f)  == Looping(f) /\ loop[f].i < Reads[pc[f]]

(* The call of a place, and the data it leaves.                            *)
ReadIs(f) ==
  Looping(f) /\ ~Quiet(f) =>
    /\ call[f] = [op |-> "read", offset |-> loop[f].i, vals |-> <<>>, n |-> 1]
    /\ More(f)
StoreIs(f) ==
  /\ pc[f] = "store" => loop[f].i = CHECKSUM_REG
  /\ pc[f] = "stored" =>
       /\ loop[f].i = CHECKSUM_REG
       /\ call[f] = [op |-> "write", offset |-> CHECKSUM_REG,
                     vals |-> <<Missing(loop[f].sum)>>, n |-> 1]
DataIs(f)   == data[f] # <<>> => More(f) \/ pc[f] \in {"rewrite", "stored"}
ClientIs(f) == pc[f] \in Writing => f \in Clients
FuncIs(f)   == pc[f] \in Chosen => hw[f].func = lan_id(f)
Placed(f)   == ReadIs(f) /\ StoreIs(f) /\ DataIs(f) /\ ClientIs(f) /\ FuncIs(f)

(* What was read, summed up and written is what the NVM holds.             *)
WordIs(f) ==
  Fresh(f) /\ Looping(f) /\ Quiet(f) /\ data[f] # <<>> /\ status[f] = "ok" =>
    data[f][1] = words[loop[f].i]
SumIs(f) ==
  Fresh(f) /\ pc[f] \in Summing => loop[f].sum = InWord(Sums(words)[loop[f].i])
StoredIn(f) ==
  Fresh(f) /\ pc[f] = "stored" /\ Quiet(f) /\ status[f] = "ok" =>
    words[CHECKSUM_REG] = Missing(loop[f].sum)
ValidIs(f) ==
  Fresh(f) /\ pc[f] \in {"address", "started"} =>
    InWord(Sums(words)[CHECKSUM_REG + 1]) = SUM
Summed(f) == WordIs(f) /\ SumIs(f) /\ StoredIn(f) /\ ValidIs(f)

(* The address is the one of the NVM.                                      *)
PermIs(f) ==
  Undisturbed(f) /\ pc[f] = "address" =>
    \A k \in 1 .. 3 : k <= loop[f].i => hw[f].perm[k] = words[k - 1]
AddressIs(f) ==
  Undisturbed(f) /\ pc[f] \in Writing \cup {"started"} =>
    /\ \A k \in 1 .. 2 : hw[f].addr[k] = words[k - 1]
    /\ hw[f].addr[3] = IF hw[f].func = 1 THEN Flip(words[2]) ELSE words[2]
Addressed(f) == PermIs(f) /\ AddressIs(f)

Device(f) == Placed(f) /\ Summed(f) /\ Addressed(f)

SoundInv ==
  /\ disturbed \in [Functions -> BOOLEAN]
  /\ \A f \in Functions : Device(f)

-----------------------------------------------------------------------------
(* What a step may leave as it is.                                         *)

Kept(f) == pc'[f] = pc[f] /\ loop'[f] = loop[f] /\ hw'[f] = hw[f]
CallKept(f) ==
  /\ todo'[f] = todo[f] /\ data'[f] = data[f]
  /\ status'[f] = status[f] /\ call'[f] = call[f]
NvmKept(f) ==
  /\ words' = words /\ disturbed'[f] = disturbed[f]
  /\ timeouts'.write = 0 => timeouts.write = 0

(* What is fresh or undisturbed after such a step was so before.           *)
LEMMA FreshBefore ==
  ASSUME NEW f \in Functions, NvmKept(f)
  PROVE  (Fresh(f)' => Fresh(f)) /\ (Undisturbed(f)' => Undisturbed(f))
BY Zenon DEF NvmKept, Fresh, Undisturbed

(* A device that stays with its call stays at its place.                   *)
LEMMA PlacedStill ==
  ASSUME ShellInv, NEW f \in Functions, Placed(f), Kept(f), call'[f] = call[f],
         todo'[f] # <<>> => todo[f] # <<>>,
         data'[f] # <<>> => data[f] # <<>> \/ todo[f] # <<>>
  PROVE  Placed(f)'
<1>1. Looping(f)' <=> Looping(f)
  BY Zenon DEF Kept, Looping
<1>2. More(f)' <=> More(f)
  BY <1>1, Zenon DEF Kept, More
<1>3. ReadIs(f)'
  <2>1. SUFFICES ASSUME Looping(f)', todo'[f] # <<>>
                 PROVE  /\ call'[f] = [op |-> "read", offset |-> loop'[f].i, vals |-> <<>>, n |-> 1]
                        /\ More(f)'
    BY Zenon DEF ReadIs, Quiet
  <2>2. Looping(f) /\ todo[f] # <<>>
    BY <1>1, <2>1
  <2>3. call[f] = [op |-> "read", offset |-> loop[f].i, vals |-> <<>>, n |-> 1] /\ More(f)
    BY <2>2, Zenon DEF Placed, ReadIs, Quiet
  <2>. QED BY <1>2, <2>3, Zenon DEF Kept
<1>4. StoreIs(f)' /\ ClientIs(f)' /\ FuncIs(f)'
  BY Zenon DEF Placed, StoreIs, ClientIs, FuncIs, Kept
<1>5. DataIs(f)'
  <2>1. SUFFICES ASSUME data'[f] # <<>> PROVE More(f) \/ pc[f] \in {"rewrite", "stored"}
    BY <1>2, Zenon DEF DataIs, Kept
  <2>2. CASE data[f] # <<>>
    BY <2>2, Zenon DEF Placed, DataIs
  <2>3. CASE todo[f] # <<>>
    <3>1. pc[f] \in Calling
      BY <2>3 DEF ShellInv, DeviceOK, CallInPlace
    <3>2. Looping(f) \/ pc[f] \in {"rewrite", "stored"}
      BY <3>1 DEF Calling, Looping, Reads
    <3>. QED BY <2>3, <3>2, Zenon DEF Placed, ReadIs, Quiet
  <2>. QED BY <2>1, <2>2, <2>3
<1>. QED BY <1>3, <1>4, <1>5 DEF Placed

(* What was summed up stays right while the NVM stays.                     *)
LEMMA SumsStill ==
  ASSUME NEW f \in Functions, Summed(f), Kept(f), NvmKept(f)
  PROVE  SumIs(f)' /\ ValidIs(f)'
<1>1. Fresh(f)' => Fresh(f)
  BY FreshBefore
<1>2. pc'[f] = pc[f] /\ loop'[f] = loop[f] /\ words' = words
  BY DEF Kept, NvmKept
<1>3. SumIs(f)'
  BY <1>1, <1>2, Zenon DEF Summed, SumIs
<1>4. ValidIs(f)'
  BY <1>1, <1>2, Zenon DEF Summed, ValidIs
<1>. QED BY <1>3, <1>4

(* The address stays right while the NVM stays.                            *)
LEMMA AddressStill ==
  ASSUME NEW f \in Functions, Addressed(f), Kept(f), NvmKept(f)
  PROVE  Addressed(f)'
<1>1. Undisturbed(f)' => Undisturbed(f)
  BY FreshBefore
<1>2. pc'[f] = pc[f] /\ loop'[f] = loop[f] /\ words' = words /\ hw'[f] = hw[f]
  BY DEF Kept, NvmKept
<1>3. PermIs(f)'
  BY <1>1, <1>2, Zenon DEF Addressed, PermIs
<1>4. AddressIs(f)'
  BY <1>1, <1>2, Zenon DEF Addressed, AddressIs
<1>. QED BY <1>3, <1>4 DEF Addressed

(* A transfer that is over stays right.                                    *)
LEMMA TransferStill ==
  ASSUME NEW f \in Functions, Summed(f), Kept(f), NvmKept(f),
         todo'[f] = <<>> /\ status'[f] = "ok" =>
           todo[f] = <<>> /\ status[f] = "ok" /\ data'[f] = data[f]
  PROVE  WordIs(f)' /\ StoredIn(f)'
<1>1. Fresh(f)' => Fresh(f)
  BY FreshBefore
<1>2. pc'[f] = pc[f] /\ loop'[f] = loop[f] /\ words' = words
  BY DEF Kept, NvmKept
<1>3. WordIs(f)'
  BY <1>1, <1>2, Zenon DEF Summed, WordIs, Looping, Quiet
<1>4. StoredIn(f)'
  BY <1>1, <1>2, Zenon DEF Summed, StoredIn, Quiet
<1>. QED BY <1>3, <1>4

(* A step that has nothing to do with f.                                   *)
LEMMA DeviceStill ==
  ASSUME ShellInv, NEW f \in Functions, Device(f), Kept(f), CallKept(f),
         NvmKept(f)
  PROVE  Device(f)'
<1>1. Placed(f)'
  BY PlacedStill, Zenon DEF Device, CallKept
<1>2. WordIs(f)' /\ StoredIn(f)'
  BY TransferStill, Zenon DEF Device, CallKept
<1>. QED BY <1>1, <1>2, SumsStill, AddressStill DEF Device, Summed

(* A device that is at no place of interest.                               *)
LEMMA DeviceAway ==
  ASSUME NEW f \in Functions, pc'[f] \notin Chosen, data'[f] = <<>>
  PROVE  Device(f)'
<1>1. ~Looping(f)' /\ pc'[f] \notin Summing /\ pc'[f] \notin Writing
      /\ pc'[f] \notin {"started", "reset"}
  BY DEF Chosen, Looping, Summing
<1>2. pc'[f] \notin {"store", "stored", "rewrite", "address"}
  BY <1>1 DEF Summing, Writing, Reads
<1>3. Placed(f)'
  BY <1>1, <1>2 DEF Placed, ReadIs, StoreIs, DataIs, ClientIs, FuncIs
<1>4. Summed(f)'
  BY <1>1, <1>2 DEF Summed, WordIs, SumIs, StoredIn, ValidIs
<1>5. Addressed(f)'
  BY <1>1, <1>2 DEF Addressed, PermIs, AddressIs
<1>. QED BY <1>3, <1>4, <1>5 DEF Device

-----------------------------------------------------------------------------
(* What the steps leave of the others, and of the NVM.                     *)

Untouched(s, t, f) == \A g \in Functions \ {f} : t[g] = s[g]

(* Setting one value leaves the others.                                    *)
LEMMA SetOne ==
  ASSUME NEW s, s = [g \in Functions |-> s[g]], NEW f \in Functions, NEW x
  PROVE  LET t == [s EXCEPT ![f] = x] IN t[f] = x /\ Untouched(s, t, f)
BY DEF Untouched

(* Setting none leaves them all.                                           *)
LEMMA Unset ==
  ASSUME NEW s, NEW f \in Functions
  PROVE  Untouched(s, s, f)
BY DEF Untouched

(* A step of the bus.                                                      *)
LEMMA TimeoutLater ==
  ASSUME BusTypes, NEW kind \in {"grant", "write"}, Timeout(kind)
  PROVE  /\ timeouts'.write = 0 => timeouts.write = 0
         /\ kind = "write" => timeouts'.write # 0
<1>1. PICK t \in [grant : Nat, write : Nat] : t = timeouts
  BY DEF BusTypes
<1>2. timeouts' = [t EXCEPT ![kind] = t[kind] + 1]
  BY <1>1, Zenon DEF Timeout
<1>3. CASE kind = "grant"
  <2>1. timeouts' = [t EXCEPT !["grant"] = t["grant"] + 1]
    BY <1>2, <1>3, Zenon
  <2>2. timeouts'.write = t.write
    BY <2>1, TimeoutIs, Zenon
  <2>. QED BY <1>1, <1>3, <2>2, Zenon
<1>4. CASE kind = "write"
  <2>1. timeouts' = [t EXCEPT !["write"] = t["write"] + 1]
    BY <1>2, <1>4, Zenon
  <2>2. timeouts'.write # 0
    BY <2>1, TimeoutIs, Zenon
  <2>. QED BY <2>2, Zenon
<1>. QED BY <1>3, <1>4

(* A step of the bus leaves the calls and the NVM, and the results of the  *)
(* others.                                                                 *)
LEMMA BusLeaves ==
  ASSUME BusTypes, NEW f \in Functions, BusStep(f)
  PROVE  /\ call' = call /\ words' = words
         /\ timeouts'.write = 0 => timeouts.write = 0
         /\ Untouched(todo, todo', f) /\ Untouched(data, data', f)
         /\ Untouched(status, status', f) /\ todo[f] # <<>>
<1>1. /\ call' = call /\ words' = words
      /\ \E x : todo' = [todo EXCEPT ![f] = x]
      /\ data' = data \/ \E x : data' = [data EXCEPT ![f] = x]
      /\ status' = status \/ \E x : status' = [status EXCEPT ![f] = x]
      /\ todo[f] # <<>>
  <2>1. call' = call /\ words' = words
    BY Zenon DEF BusStep, DrivePins, Request, Granted, GrantTimeout, Written,
             WriteTimeout, Release
  <2>2. \E x : todo' = [todo EXCEPT ![f] = x]
    BY Zenon DEF BusStep, DrivePins, Request, Granted, GrantTimeout, Written,
             WriteTimeout, Release, Consume
  <2>3. data' = data \/ \E x : data' = [data EXCEPT ![f] = x]
    BY Zenon DEF BusStep, DrivePins, Request, Granted, GrantTimeout, Written,
             WriteTimeout, Release
  <2>4. status' = status \/ \E x : status' = [status EXCEPT ![f] = x]
    BY Zenon DEF BusStep, DrivePins, Request, Granted, GrantTimeout, Written,
             WriteTimeout, Release
  <2>5. todo[f] # <<>>
    BY Zenon DEF BusStep, DrivePins, Request, Granted, GrantTimeout, Written,
             WriteTimeout, Release, NextIs
  <2>. QED BY <2>1, <2>2, <2>3, <2>4, <2>5
<1>2. Untouched(todo, todo', f)
  <2>1. todo = [g \in Functions |-> todo[g]]
    BY DEF BusTypes
  <2>. QED BY <1>1, <2>1, SetOne
<1>3. Untouched(data, data', f)
  <2>1. data = [g \in Functions |-> data[g]]
    BY DEF BusTypes
  <2>. QED BY <1>1, <2>1, SetOne, Unset
<1>4. Untouched(status, status', f)
  <2>1. status = [g \in Functions |-> status[g]]
    BY DEF BusTypes
  <2>. QED BY <1>1, <2>1, SetOne, Unset
<1>5. timeouts'.write = 0 => timeouts.write = 0
  <2>1. UNCHANGED timeouts \/ Timeout("grant") \/ Timeout("write")
    BY Zenon DEF BusStep, DrivePins, Request, Granted, GrantTimeout, Written,
       WriteTimeout, Release
  <2>. QED BY <2>1, TimeoutLater
<1>. QED BY <1>1, <1>2, <1>3, <1>4, <1>5

(* The call of f goes on, or fails, unless that was its last routine.      *)
LEMMA CallOpen ==
  ASSUME BusInv, NEW f \in Functions, BusStep(f), ~Release(f)
  PROVE  ~(todo'[f] = <<>> /\ status'[f] = "ok")
<1>1. todo = [g \in Functions |-> todo[g]] /\ status = [g \in Functions |-> status[g]]
  BY DEF BusInv, BusTypes
<1>2. CASE DrivePins(f) \/ Request(f) \/ Granted(f) \/ Written(f)
  <2>1. PICK name : NextIs(f, name) /\ name # "release"
    BY <1>2 DEF DrivePins, Request, Granted, Written
  <2>2. Tail(todo[f]) # <<>>
    BY <2>1, NotLast
  <2>3. todo' = [todo EXCEPT ![f] = Tail(todo[f])]
    BY <1>2, Zenon DEF DrivePins, Request, Granted, Written, Consume
  <2>. QED BY <1>1, <2>2, <2>3, SetOne
<1>3. CASE GrantTimeout(f) \/ WriteTimeout(f)
  <2>1. PICK e : e = "error" /\ status' = [status EXCEPT ![f] = e]
    BY <1>3, Zenon DEF GrantTimeout, WriteTimeout
  <2>2. status'[f] = "error"
    BY <1>1, <2>1, SetOne
  <2>. QED BY <2>2
<1>. QED BY <1>2, <1>3 DEF BusStep

(* The release of a call that had no failure: its words are those of the   *)
(* NVM.                                                                    *)
LEMMA Released ==
  ASSUME ShellInv, BusInv, NEW f \in Functions, Device(f), Release(f),
         Kept(f), NvmKept(f)
  PROVE  WordIs(f)' /\ StoredIn(f)'
<1>1. /\ NextIs(f, "release") /\ todo[f] # <<>>
      /\ UNCHANGED <<words, data, call, status, timeouts>>
  BY DEF Release, NextIs
<1>2. status[f] = "ok" /\ timeouts.write = 0 =>
        (IF call[f].op = "read" THEN data[f] ELSE call[f].vals)
          = [i \in 1 .. call[f].n |-> words[call[f].offset + i - 1]]
  BY <1>1, BusTransfers, Zenon DEF TransfersAreTrue
<1>3. WordIs(f)'
  <2>1. SUFFICES ASSUME timeouts.write = 0, Looping(f), status[f] = "ok"
                 PROVE  data[f][1] = words[loop[f].i]
    BY <1>1, Zenon DEF WordIs, Fresh, Looping, Kept
  <2>2. call[f] = [op |-> "read", offset |-> loop[f].i, vals |-> <<>>, n |-> 1]
    BY <1>1, <2>1, Zenon DEF Device, Placed, ReadIs, Quiet
  <2>3. PICK o \in Nat : o = loop[f].i
    <3>1. More(f)
      BY <1>1, <2>1, Zenon DEF Device, Placed, ReadIs, Quiet
    <3>2. PICK P, K : CallsAt(P, K)
      BY DEF BusInv
    <3>3. CallOK(call[f])
      BY <1>1, <3>2, PlaceOf DEF CallsAt
    <3>. QED BY <2>2, <3>3, CallIs
  <2>4. call[f].op = "read" /\ call[f].offset = o /\ call[f].n = 1
    BY <2>2, <2>3
  <2>5. data[f] = [i \in 1 .. 1 |-> words[o + i - 1]]
    BY <1>2, <2>1, <2>4, Zenon
  <2>6. data[f][1] = words[o + 1 - 1] /\ o + 1 - 1 = o
    BY <2>5
  <2>. QED BY <2>3, <2>6, Zenon
<1>4. StoredIn(f)'
  <2>1. SUFFICES ASSUME timeouts.write = 0, pc[f] = "stored", status[f] = "ok"
                 PROVE  words[CHECKSUM_REG] = Missing(loop[f].sum)
    BY <1>1, Zenon DEF StoredIn, Fresh, Kept
  <2>2. PICK o \in Nat : o = CHECKSUM_REG
    BY PnpSizes
  <2>7. PICK v : v = Missing(loop[f].sum)
    OBVIOUS
  <2>3. call[f] = [op |-> "write", offset |-> o, vals |-> <<v>>, n |-> 1]
    BY <2>1, <2>2, <2>7, Zenon DEF Device, Placed, StoreIs
  <2>4. call[f].op # "read" /\ call[f].offset = o /\ call[f].n = 1 /\ call[f].vals = <<v>>
    BY <2>3
  <2>5. <<v>> = [i \in 1 .. 1 |-> words[o + i - 1]]
    BY <1>2, <2>1, <2>4, Zenon
  <2>6. <<v>>[1] = words[o + 1 - 1] /\ o + 1 - 1 = o /\ <<v>>[1] = v
    BY <2>5
  <2>. QED BY <2>2, <2>6, <2>7, Zenon
<1>. QED BY <1>3, <1>4

(* A step of the bus keeps what the devices rely on; the last step of a    *)
(* read or of a write gives them its result.                               *)
LEMMA BusDevices ==
  ASSUME ShellInv, BusInv, SoundInv, NEW f \in Functions, BusStep(f),
         UNCHANGED pnpVars
  PROVE  \A g \in Functions : Device(g)'
<1>1. /\ call' = call /\ words' = words
      /\ timeouts'.write = 0 => timeouts.write = 0
      /\ Untouched(todo, todo', f) /\ Untouched(data, data', f)
      /\ Untouched(status, status', f) /\ todo[f] # <<>>
  BY BusLeaves DEF BusInv
<1>2. ASSUME NEW g \in Functions PROVE Kept(g) /\ NvmKept(g) /\ Device(g)
  BY <1>1 DEF pnpVars, Kept, NvmKept, SoundInv
<1>3. ASSUME NEW g \in Functions \ {f} PROVE Device(g)'
  <2>1. CallKept(g)
    BY <1>1 DEF CallKept, Untouched
  <2>. QED BY <1>2, <2>1, DeviceStill
<1>4. Device(f)'
  <2>1. Placed(f)'
    BY <1>1, <1>2, PlacedStill DEF Device
  <2>2. WordIs(f)' /\ StoredIn(f)'
    <3>1. CASE Release(f)
      BY <1>2, <3>1, Released
    <3>2. CASE ~Release(f)
      BY <1>2, <3>2, CallOpen, TransferStill DEF Device
    <3>. QED BY <3>1, <3>2
  <2>3. SumIs(f)' /\ ValidIs(f)' /\ Addressed(f)'
    BY <1>2, SumsStill, AddressStill DEF Device
  <2>. QED BY <2>1, <2>2, <2>3 DEF Device, Summed
<1>. QED BY <1>3, <1>4

(* The chip programs a word.                                               *)
LEMMA ProgrammedDevices ==
  ASSUME ShellInv, BusInv, BusInv', SoundInv, NvmChanges, NEW f \in Functions
  PROVE  Device(f)'
<1>1. /\ Programmed /\ disturbed' = [g \in Functions |-> TRUE]
      /\ Kept(f) /\ CallKept(f) /\ timeouts' = timeouts /\ UNCHANGED <<todo, status>>
  BY DEF NvmChanges, Programmed, Kept, CallKept
<1>2. Placed(f)'
  BY <1>1, PlacedStill DEF CallKept, SoundInv, Device
<1>3. disturbed'[f] = TRUE
  BY <1>1
<1>4. Addressed(f)'
  BY <1>3 DEF Addressed, PermIs, AddressIs, Undisturbed
<1>5. CASE ~Fresh(f)'
  BY <1>2, <1>4, <1>5 DEF Device, Summed, WordIs, SumIs, StoredIn, ValidIs
<1>6. CASE Fresh(f)'
  <2>1. timeouts.write = 0 /\ Clients \subseteq {f}
    BY <1>1, <1>3, <1>6 DEF Fresh
  <2>2. PICK g \in Functions :
           /\ todo[g] # <<>> /\ call[g].op = "write"
           /\ call[g].n = 1 => chip.busy[1] = call[g].offset
    BY <1>1, <2>1, Writer
  <2>3. pc[g] \in Calling
    BY <2>2 DEF ShellInv, DeviceOK, CallInPlace
  <2>4. ~Looping(g)
    <3>1. SUFFICES ASSUME Looping(g) PROVE FALSE
      OBVIOUS
    <3>2. Placed(g)
      BY DEF SoundInv, Device
    <3>3. call[g] = [op |-> "read", offset |-> loop[g].i, vals |-> <<>>, n |-> 1]
      BY <2>2, <3>1, <3>2, Zenon DEF Placed, ReadIs, Quiet
    <3>. QED BY <2>2, <3>3
  <2>5. pc[g] \in {"rewrite", "stored"}
    BY <2>3, <2>4 DEF Calling, Looping, Reads
  <2>6. g = f
    <3>1. g \in Clients
      BY <2>5 DEF SoundInv, Device, Placed, ClientIs, Writing
    <3>. QED BY <2>1, <3>1
  <2>7. pc'[f] \in {"rewrite", "stored"} /\ todo'[f] # <<>> /\ ~Looping(f)'
    BY <1>1, <2>2, <2>4, <2>5, <2>6, Zenon DEF Kept, Looping
  <2>8. WordIs(f)' /\ StoredIn(f)' /\ ValidIs(f)'
    BY <2>7 DEF WordIs, StoredIn, ValidIs, Quiet
  <2>9. SumIs(f)'
    <3>1. CASE pc'[f] = "rewrite"
      BY <3>1 DEF SumIs, Summing, Reads
    <3>2. CASE pc'[f] = "stored"
      <4>1. /\ loop'[f] = loop[f] /\ pc[f] = "stored" /\ Fresh(f)
        BY <1>1, <2>1, <3>2 DEF Kept, Fresh
      <4>2. /\ loop[f].i = CHECKSUM_REG
            /\ call[f].offset = CHECKSUM_REG /\ call[f].n = 1
        <5>1. StoreIs(f)
          BY DEF SoundInv, Device, Placed
        <5>2. PICK e : e = <<Missing(loop[f].sum)>>
          OBVIOUS
        <5>3. call[f] = [op |-> "write", offset |-> CHECKSUM_REG, vals |-> e, n |-> 1]
          BY <4>1, <5>1, <5>2, Zenon DEF StoreIs
        <5>. QED BY <4>1, <5>1, <5>3 DEF StoreIs
      <4>3. PICK a, v : a = CHECKSUM_REG /\ words' = [words EXCEPT ![a] = v]
        BY <1>1, <2>2, <2>6, <4>2, Zenon DEF Programmed
      <4>4. PICK w \in [Offsets -> Values], u \in [Offsets -> Values] : w = words /\ u = words'
        BY DEF BusInv, BusTypes
      <4>5. PICK n \in Nat : n = CHECKSUM_REG
        BY PnpSizes
      <4>6. \A i \in 0 .. n - 1 : u[i] = w[i]
        <5>1. PICK m \in Nat : m = WordSize /\ n < m
          BY <4>5, PnpSizes
        <5>2. \A i \in 0 .. n - 1 : i \in 0 .. m - 1 /\ i # n
          BY <5>1
        <5>. QED BY <4>3, <4>4, <4>5, <5>1, <5>2 DEF Offsets
      <4>7. \A k \in 0 .. CHECKSUM_REG : Sums(u)[k] = Sums(w)[k]
        BY <4>5, <4>6, SumsPrefix
      <4>8. Sums(u)[n] = Sums(w)[n]
        <5>1. n \in 0 .. n
          OBVIOUS
        <5>. QED BY <4>5, <4>7, <5>1, Zenon
      <4>9. loop[f].sum = InWord(Sums(words)[loop[f].i])
        BY <4>1 DEF SoundInv, Device, Summed, SumIs, Summing
      <4>10. loop'[f].sum = InWord(Sums(words')[loop'[f].i])
        BY <4>1, <4>2, <4>4, <4>5, <4>8, <4>9, Zenon
      <4>. QED BY <4>10 DEF SumIs
    <3>. QED BY <2>7, <3>1, <3>2
  <2>. QED BY <1>2, <1>4, <2>8, <2>9 DEF Device, Summed
<1>. QED BY <1>5, <1>6

-----------------------------------------------------------------------------
(* Steps of the shell.                                                     *)

ShellStepOf(f) ==
  \/ AddDevice(f) \/ StartDevice(f) \/ Starts(f) \/ Rewrite(f)
  \/ StoreChecksum(f) \/ WriteEnds(f) \/ StopDevice(f) \/ RemoveDevice(f)

Steady == UNCHANGED <<words, timeouts>>

(* A call that begins has its program, and nothing of the others changes.  *)
LEMMA CallBegun ==
  ASSUME BusTypes, NEW f \in Functions, NEW c, NEW program,
         Begin(f, c, program)
  PROVE  /\ Steady /\ call'[f] = c /\ data'[f] = <<>>
         /\ todo'[f] = (IF InBounds(c.offset, c.n) THEN program ELSE <<>>)
         /\ status'[f] = (IF InBounds(c.offset, c.n) THEN "ok" ELSE "error")
         /\ Untouched(todo, todo', f) /\ Untouched(data, data', f)
         /\ Untouched(status, status', f) /\ Untouched(call, call', f)
<1>1. /\ todo = [g \in Functions |-> todo[g]] /\ data = [g \in Functions |-> data[g]]
      /\ status = [g \in Functions |-> status[g]] /\ call = [g \in Functions |-> call[g]]
  BY DEF BusTypes
<1>2. PICK l, st, e : /\ l = (IF InBounds(c.offset, c.n) THEN program ELSE <<>>)
                      /\ st = (IF InBounds(c.offset, c.n) THEN "ok" ELSE "error")
                      /\ e = <<>>
  OBVIOUS
<1>3. /\ todo' = [todo EXCEPT ![f] = l] /\ status' = [status EXCEPT ![f] = st]
      /\ data' = [data EXCEPT ![f] = e] /\ call' = [call EXCEPT ![f] = c]
  BY <1>2, Zenon DEF Begin
<1>4. todo'[f] = l /\ Untouched(todo, todo', f)
  BY <1>1, <1>3, SetOne
<1>5. status'[f] = st /\ Untouched(status, status', f)
  BY <1>1, <1>3, SetOne
<1>6. data'[f] = e /\ Untouched(data, data', f)
  BY <1>1, <1>3, SetOne
<1>7. call'[f] = c /\ Untouched(call, call', f)
  BY <1>1, <1>3, SetOne
<1>8. Steady
  BY Zenon DEF Begin, Steady
<1>. QED BY <1>2, <1>4, <1>5, <1>6, <1>7, <1>8, Zenon

(* A result is taken, and nothing of the others changes.                   *)
LEMMA CallIdles ==
  ASSUME BusTypes, NEW f \in Functions, Idle(f)
  PROVE  /\ Steady /\ data'[f] = <<>> /\ UNCHANGED <<todo, call>>
         /\ Untouched(data, data', f) /\ Untouched(status, status', f)
<1>1. /\ data = [g \in Functions |-> data[g]] /\ status = [g \in Functions |-> status[g]]
  BY DEF BusTypes
<1>2. PICK st, e : e = <<>> /\ st = "ok"
  OBVIOUS
<1>3. status' = [status EXCEPT ![f] = st] /\ data' = [data EXCEPT ![f] = e]
  BY <1>2, Zenon DEF Idle
<1>4. Untouched(status, status', f)
  BY <1>1, <1>3, SetOne
<1>5. data'[f] = e /\ Untouched(data, data', f)
  BY <1>1, <1>3, SetOne
<1>6. Steady /\ UNCHANGED <<todo, call>>
  BY DEF Idle, Steady
<1>. QED BY <1>2, <1>4, <1>5, <1>6

(* A step of f leaves the bus and the places of the others as they are.    *)
LEMMA ShellBusLeaves ==
  ASSUME BusTypes, NEW f \in Functions, ShellStepOf(f)
  PROVE  /\ Steady
         /\ Untouched(todo, todo', f) /\ Untouched(data, data', f)
         /\ Untouched(status, status', f) /\ Untouched(call, call', f)
<1>1. CASE ReadWord(f) \/ Rewrite(f) \/ StoreChecksum(f)
  <2>1. \E c, program : Begin(f, c, program)
    BY <1>1, Zenon DEF ReadWord, Rewrite, StoreChecksum, BeginRead, BeginWrite
  <2>. QED BY <2>1, CallBegun
<1>2. CASE AddWord(f) \/ ReadFails(f) \/ WriteEnds(f)
  <2>1. Idle(f)
    BY <1>2, Zenon DEF AddWord, ReadFails, WriteEnds
  <2>. QED BY <2>1, CallIdles, Unset, Zenon
<1>3. CASE UNCHANGED busVars
  BY <1>3 DEF busVars, Steady, Untouched
<1>. QED
  BY <1>1, <1>2, <1>3, Zenon
  DEF ShellStepOf, Starts, AddDevice, StartDevice, IdentifyHardware,
      AllocatePciResources, SetupInitFuncs, GetPhyId, GetBusInfo, ResetHw,
      LoopEnds, StopDevice, RemoveDevice

(* A step of one device leaves the others.                                 *)
LEMMA ShellLeaves ==
  ASSUME ShellInv, Typed, disturbed \in [Functions -> BOOLEAN],
         NEW f \in Functions, ShellStepOf(f)
  PROVE  /\ Untouched(pc, pc', f) /\ Untouched(loop, loop', f)
         /\ Untouched(hw, hw', f) /\ Untouched(disturbed, disturbed', f)
         /\ disturbed' \in [Functions -> BOOLEAN]
<1>. USE DEF ShellStepOf, Starts
<1>1. Untouched(pc, pc', f)
  <2>1. pc = [g \in Functions |-> pc[g]]
    BY DEF ShellInv, PnpTypes
  <2>2. pc' = pc \/ \E p : pc' = [pc EXCEPT ![f] = p]
    BY Zenon DEF AddDevice, StartDevice, IdentifyHardware,
       AllocatePciResources,
       SetupInitFuncs, GetPhyId, GetBusInfo, ResetHw, ReadWord, AddWord,
       ReadFails, LoopEnds, StopDevice, RemoveDevice, Rewrite, StoreChecksum,
       WriteEnds, Goto, pnpVars
  <2>. QED BY <2>1, <2>2, SetOne, Unset
<1>2. Untouched(loop, loop', f)
  <2>1. loop = [g \in Functions |-> loop[g]]
    BY DEF Typed
  <2>2. loop' = loop \/ \E p : loop' = [loop EXCEPT ![f] = p]
    BY Zenon DEF AddDevice, StartDevice, IdentifyHardware,
       AllocatePciResources,
       SetupInitFuncs, GetPhyId, GetBusInfo, ResetHw, ReadWord, AddWord,
       ReadFails, LoopEnds, StopDevice, RemoveDevice, Rewrite, StoreChecksum,
       WriteEnds, pnpVars
  <2>. QED BY <2>1, <2>2, SetOne, Unset
<1>3. Untouched(hw, hw', f)
  <2>1. hw = [g \in Functions |-> hw[g]]
    BY DEF Typed
  <2>2. \/ hw' = hw \/ \E p : hw' = [hw EXCEPT ![f] = p]
        \/ LoopEnds(f) /\ pc[f] = "address"
    <3>1. CASE IdentifyHardware(f) \/ SetupInitFuncs(f) \/ GetBusInfo(f) \/ AddWord(f)
      BY <3>1, Zenon DEF IdentifyHardware, SetupInitFuncs, GetBusInfo, AddWord
    <3>2. CASE hw' = hw
      BY <3>2
    <3>. QED
      BY <3>1, <3>2, Zenon
      DEF AddDevice, StartDevice, AllocatePciResources, GetPhyId, ResetHw,
          ReadWord,
          ReadFails, LoopEnds, StopDevice, RemoveDevice, Rewrite,
          StoreChecksum,
          WriteEnds, pnpVars
  <2>3. CASE LoopEnds(f) /\ pc[f] = "address"
    <3>1. PICK a : hw' = [hw EXCEPT ![f].perm = a, ![f].addr = a]
      BY <2>3, Zenon DEF LoopEnds
    <3>. QED BY <2>1, <3>1 DEF Untouched
  <2>. QED BY <2>1, <2>2, <2>3, SetOne, Unset
<1>4. disturbed' = disturbed \/ disturbed' = [disturbed EXCEPT ![f] = FALSE]
  BY Zenon DEF AddDevice, StartDevice, IdentifyHardware, AllocatePciResources,
     SetupInitFuncs, GetPhyId, GetBusInfo, ResetHw, ReadWord, AddWord,
     ReadFails, LoopEnds, StopDevice, RemoveDevice, Rewrite, StoreChecksum,
     WriteEnds, pnpVars
<1>5. Untouched(disturbed, disturbed', f)
  <2>1. disturbed = [g \in Functions |-> disturbed[g]]
    OBVIOUS
  <2>. QED BY <1>4, <2>1, SetOne, Unset
<1>6. disturbed' \in [Functions -> BOOLEAN]
  BY <1>4
<1>. QED BY <1>1, <1>2, <1>3, <1>5, <1>6

(* The other devices rely on what they did.                                *)
LEMMA OtherDevices ==
  ASSUME ShellInv, BusInv, Typed, SoundInv, NEW f \in Functions,
         ShellStepOf(f),
         NEW g \in Functions \ {f}
  PROVE  Device(g)'
<1>1. /\ pc'[g] = pc[g] /\ loop'[g] = loop[g] /\ hw'[g] = hw[g]
      /\ disturbed'[g] = disturbed[g]
  BY ShellLeaves DEF Untouched, SoundInv
<1>2. /\ Steady /\ todo'[g] = todo[g] /\ data'[g] = data[g]
      /\ status'[g] = status[g] /\ call'[g] = call[g]
  BY ShellBusLeaves DEF Untouched, BusInv
<1>3. Kept(g) /\ CallKept(g) /\ NvmKept(g)
  BY <1>1, <1>2 DEF Kept, CallKept, NvmKept, Steady
<1>4. Device(g)
  BY DEF SoundInv
<1>. QED BY <1>3, <1>4, DeviceStill

-----------------------------------------------------------------------------
(* What a step of f does to f itself.                                      *)

(* Only a loop or a write has data.                                        *)
LEMMA NoDataElsewhere ==
  ASSUME NEW f \in Functions, Placed(f), ~Looping(f),
         pc[f] \notin {"rewrite", "stored"}
  PROVE  data[f] = <<>>
BY Zenon DEF Placed, DataIs, More

(* A device that starts or is put away.                                    *)
LEMMA AwayStep ==
  ASSUME ShellInv, NEW f \in Functions, Device(f),
         \/ AddDevice(f) \/ StartDevice(f) \/ IdentifyHardware(f)
         \/ AllocatePciResources(f) \/ SetupInitFuncs(f) \/ GetPhyId(f)
         \/ StopDevice(f) \/ RemoveDevice(f)
  PROVE  Device(f)'
<1>1. PICK place \in {"added", "deleted", "identify", "failed", "map", "init",
                      "phy", "bus", "phy again", "stopped"} : Goto(f, place)
  BY Zenon DEF AddDevice, StartDevice, IdentifyHardware, AllocatePciResources,
     SetupInitFuncs, GetPhyId, StopDevice, RemoveDevice
<1>2. pc'[f] = place
  BY <1>1, GotoEffect DEF ShellInv, PnpTypes, Places
<1>3. pc'[f] \notin Chosen
  BY <1>1, <1>2 DEF Chosen, Summing, Writing, Reads
<1>4. pc[f] \in {"none", "added", "stopped", "identify", "map", "init", "phy",
                 "phy again", "started", "failed", "dirty"}
  BY Zenon DEF AddDevice, StartDevice, IdentifyHardware, AllocatePciResources,
     SetupInitFuncs, GetPhyId, StopDevice, RemoveDevice
<1>5. ~Looping(f) /\ pc[f] \notin {"rewrite", "stored"}
  BY <1>4 DEF Looping, Reads
<1>6. data' = data
  BY Zenon DEF AddDevice, StartDevice, IdentifyHardware, AllocatePciResources,
     SetupInitFuncs, GetPhyId, StopDevice, RemoveDevice, busVars
<1>7. data'[f] = <<>>
  BY <1>5, <1>6, NoDataElsewhere DEF Device
<1>. QED BY <1>3, <1>7, DeviceAway

(* The function gets its own number.                                       *)
LEMMA GetBusInfoDevice ==
  ASSUME ShellInv, Typed, NEW f \in Functions, Device(f), GetBusInfo(f)
  PROVE  Device(f)'
<1>1. pc[f] = "bus" /\ pc'[f] = "reset" /\ data' = data /\ loop' = loop
  BY GotoEffect DEF GetBusInfo, ShellInv, PnpTypes, Places, busVars
<1>2. data'[f] = <<>>
  <2>1. ~Looping(f)
    BY <1>1 DEF Looping, Reads
  <2>. QED BY <1>1, <2>1, NoDataElsewhere DEF Device
<1>3. hw'[f].func = lan_id(f)
  <2>1. PICK h, n : h \in HwRecords /\ h = hw[f] /\ n = lan_id(f)
    BY DEF Typed
  <2>2. hw' = [hw EXCEPT ![f] = [h EXCEPT !.func = n]]
    BY <2>1, Zenon DEF GetBusInfo
  <2>3. hw'[f] = [h EXCEPT !.func = n]
    BY <2>2 DEF Typed
  <2>4. [h EXCEPT !.func = n].func = n
    BY <2>1 DEF HwRecords
  <2>. QED BY <2>1, <2>3, <2>4, Zenon
<1>4. ~Looping(f)' /\ pc'[f] \notin Summing /\ pc'[f] \notin Writing
  BY <1>1 DEF Looping, Reads, Summing, Writing
<1>5. Placed(f)'
  BY <1>1, <1>2, <1>3, <1>4 DEF Placed, ReadIs, StoreIs, DataIs, ClientIs,
     FuncIs
<1>6. Summed(f)'
  BY <1>1, <1>4 DEF Summed, WordIs, SumIs, StoredIn, ValidIs
<1>7. Addressed(f)'
  BY <1>1, <1>4 DEF Addressed, PermIs, AddressIs
<1>. QED BY <1>5, <1>6, <1>7 DEF Device

(* A loop that is to begin has a sum of no words.                          *)
LEMMA EmptySum ==
  ASSUME words' \in [Offsets -> Values]
  PROVE  0 = InWord(Sums(words')[0])
<1>1. PICK m \in Nat : m = Pow2[WordBits] /\ m > 0
  BY PnpSizes
<1>2. 0 % m = 0
  BY <1>1
<1>3. PICK w \in [Offsets -> Values] : w = words'
  OBVIOUS
<1>4. Sums(w)[0] = 0
  BY SumsAre
<1>. QED BY <1>1, <1>2, <1>3, <1>4, Zenon DEF InWord

(* A loop that starts again has summed up nothing.                         *)
LEMMA LoopReset ==
  ASSUME Typed, NEW f \in Functions, loop' = [loop EXCEPT ![f] = NewLoop]
  PROVE  loop'[f].i = 0 /\ loop'[f].sum = 0
<1>1. loop'[f] = NewLoop
  BY DEF Typed
<1>. QED BY <1>1 DEF NewLoop

(* The first loop starts with an empty sum.                                *)
LEMMA ResetHwDevice ==
  ASSUME ShellInv, Typed, BusInv', NEW f \in Functions, Device(f), ResetHw(f)
  PROVE  Device(f)'
<1>1. /\ pc[f] = "reset" /\ pc'[f] = "validate"
      /\ data' = data /\ todo' = todo /\ hw' = hw
      /\ loop'[f].i = 0 /\ loop'[f].sum = 0
  <2>1. pc[f] = "reset" /\ Goto(f, "validate") /\ loop' = [loop EXCEPT ![f] = NewLoop]
        /\ data' = data /\ todo' = todo /\ hw' = hw
    BY Zenon DEF ResetHw, busVars
  <2>2. pc'[f] = "validate"
    BY <2>1, GotoEffect DEF ShellInv, PnpTypes, Places
  <2>. QED BY <2>1, <2>2, LoopReset
<1>2. data'[f] = <<>>
  <2>1. ~Looping(f)
    BY <1>1 DEF Looping, Reads
  <2>. QED BY <1>1, <2>1, NoDataElsewhere DEF Device
<1>3. todo'[f] = <<>>
  BY <1>1 DEF ShellInv, DeviceOK, CallInPlace, Calling
<1>4. hw'[f].func = lan_id(f)
  BY <1>1 DEF Device, Placed, FuncIs, Chosen
<1>5. pc'[f] \notin Writing
  BY <1>1 DEF Writing
<1>6. Placed(f)'
  BY <1>1, <1>2, <1>3, <1>4, <1>5 DEF Placed, ReadIs, StoreIs, DataIs,
     ClientIs, FuncIs, Quiet
<1>7. SumIs(f)'
  BY <1>1, EmptySum, Zenon DEF SumIs, BusInv, BusTypes
<1>8. Summed(f)'
  BY <1>1, <1>2, <1>7 DEF Summed, WordIs, StoredIn, ValidIs
<1>9. Addressed(f)'
  BY <1>1, <1>5 DEF Addressed, PermIs, AddressIs
<1>. QED BY <1>6, <1>8, <1>9 DEF Device

(* The word of a loop is read.                                             *)
LEMMA ReadWordDevice ==
  ASSUME BusTypes, NEW f \in Functions, Device(f), ReadWord(f)
  PROVE  Device(f)'
<1>1. /\ Kept(f) /\ NvmKept(f) /\ data'[f] = <<>> /\ Looping(f) /\ More(f)
      /\ call'[f] = [op |-> "read", offset |-> loop[f].i, vals |-> <<>>, n |-> 1]
  <2>1. UNCHANGED pnpVars /\ Looping(f) /\ More(f)
    BY Zenon DEF ReadWord, More
  <2>2. PICK c : c = [op |-> "read", offset |-> loop[f].i, vals |-> <<>>, n |-> 1]
    OBVIOUS
  <2>3. \E program : Begin(f, c, program)
    BY <2>2, Zenon DEF ReadWord, BeginRead
  <2>4. data'[f] = <<>> /\ call'[f] = c /\ Steady
    BY <2>3, CallBegun
  <2>. QED BY <2>1, <2>2, <2>4 DEF Kept, NvmKept, pnpVars, Steady
<1>2. pc'[f] = pc[f] /\ loop'[f] = loop[f] /\ hw'[f] = hw[f]
  BY <1>1 DEF Kept
<1>3. pc[f] \notin {"store", "stored"}
  BY <1>1 DEF Looping, Reads
<1>4. ReadIs(f)'
  BY <1>1, <1>2, Zenon DEF ReadIs, More, Looping
<1>5. Placed(f)'
  BY <1>1, <1>2, <1>3, <1>4 DEF Device, Placed, StoreIs, DataIs, ClientIs,
     FuncIs
<1>6. WordIs(f)' /\ StoredIn(f)'
  BY <1>1, <1>2, <1>3 DEF WordIs, StoredIn
<1>7. SumIs(f)' /\ ValidIs(f)' /\ Addressed(f)'
  BY <1>1, SumsStill, AddressStill DEF Device
<1>. QED BY <1>5, <1>6, <1>7 DEF Device, Summed

(* The word is added to the sum, and perhaps to the address.               *)
LEMMA AddWordEffect ==
  ASSUME Typed, BusTypes, NEW f \in Functions, AddWord(f)
  PROVE  /\ pc'[f] = pc[f] /\ NvmKept(f) /\ Looping(f) /\ More(f)
         /\ todo'[f] = <<>> /\ todo[f] = <<>> /\ data'[f] = <<>> /\ data[f] # <<>>
         /\ status[f] = "ok"
         /\ loop'[f].i = loop[f].i + 1 /\ loop'[f].sum = Plus(loop[f].sum, data[f][1])
         /\ hw'[f].func = hw[f].func /\ hw'[f].addr = hw[f].addr
         /\ pc[f] = "address" => hw'[f].perm = [hw[f].perm EXCEPT ![loop[f].i + 1] = data[f][1]]
<1>1. /\ UNCHANGED <<pc, disturbed>> /\ Took(f) /\ status[f] = "ok" /\ Idle(f)
      /\ loop' = [loop EXCEPT ![f] = [i |-> loop[f].i + 1,
                                      sum |-> Plus(loop[f].sum, data[f][1])]]
  BY DEF AddWord
<1>2. Looping(f) /\ todo[f] = <<>> /\ More(f) /\ data[f] # <<>>
  BY <1>1, Zenon DEF Took, Quiet, More
<1>3. Steady /\ data'[f] = <<>> /\ todo' = todo
  BY <1>1, CallIdles
<1>4. loop'[f] = [i |-> loop[f].i + 1, sum |-> Plus(loop[f].sum, data[f][1])]
  BY <1>1 DEF Typed
<1>5. /\ hw'[f].func = hw[f].func /\ hw'[f].addr = hw[f].addr
      /\ pc[f] = "address" => hw'[f].perm = [hw[f].perm EXCEPT ![loop[f].i + 1] = data[f][1]]
  <2>1. CASE pc[f] # "address"
    BY <2>1 DEF AddWord
  <2>2. CASE pc[f] = "address"
    <3>1. PICK h, p : h \in HwRecords /\ h = hw[f]
            /\ p = [hw[f].perm EXCEPT ![loop[f].i + 1] = data[f][1]]
      BY DEF Typed
    <3>2. hw' = [hw EXCEPT ![f].perm[loop[f].i + 1] = data[f][1]]
      BY <2>2, Zenon DEF AddWord
    <3>3. hw' = [hw EXCEPT ![f] = [h EXCEPT !["perm"] = p]]
      BY <3>1, <3>2, Zenon
    <3>4. hw'[f] = [h EXCEPT !["perm"] = p]
      BY <3>3 DEF Typed
    <3>5. /\ [h EXCEPT !["perm"] = p].func = h.func
          /\ [h EXCEPT !["perm"] = p].addr = h.addr
          /\ [h EXCEPT !["perm"] = p].perm = p
      BY <3>1 DEF HwRecords
    <3>. QED BY <3>1, <3>4, <3>5, Zenon
  <2>. QED BY <2>1, <2>2
<1>6. NvmKept(f)
  BY <1>1, <1>3 DEF NvmKept, Steady
<1>. QED BY <1>1, <1>2, <1>3, <1>4, <1>5, <1>6

(* The next word is added to the sum, kept to 16 bits.                     *)
LEMMA NextSum ==
  ASSUME NEW w \in [Offsets -> Values], NEW i \in 0 .. CHECKSUM_REG
  PROVE  Plus(InWord(Sums(w)[i]), w[i]) = InWord(Sums(w)[i + 1])
<1>1. /\ w[i] \in Nat /\ Sums(w)[i + 1] = Sums(w)[i] + w[i]
  BY SumsAre
<1>2. PICK n \in Nat : n = CHECKSUM_REG
  BY PnpSizes
<1>3. i \in 0 .. n + 1
  BY <1>2
<1>4. Sums(w)[i] \in Nat
  BY <1>2, <1>3, SumsAre, Zenon
<1>5. PICK a \in Nat, b \in Nat : a = Sums(w)[i] /\ b = w[i]
  BY <1>1, <1>4
<1>6. Plus(InWord(a), b) = InWord(a + b)
  BY CutSum
<1>. QED BY <1>1, <1>5, <1>6, Zenon

(* The next word of a loop is a word of the NVM.                           *)
LEMMA MoreIs ==
  ASSUME Typed, NEW f \in Functions, More(f)
  PROVE  loop[f].i \in 0 .. CHECKSUM_REG
<1>1. PICK n \in Nat : n = CHECKSUM_REG
  BY PnpSizes
<1>2. loop[f].i \in 0 .. n + 1
  BY <1>1 DEF Typed, Loops
<1>3. PICK r \in 1 .. n + 1, j \in 0 .. n + 1 : r = Reads[pc[f]] /\ j = loop[f].i
  BY <1>1, <1>2, ReadsAre DEF More
<1>4. j < r
  BY <1>3 DEF More
<1>5. j \in 0 .. n
  BY <1>3, <1>4
<1>. QED BY <1>1, <1>3, <1>5

(* A word that was read is added to the sum, and stored as a part of the   *)
(* address.                                                                *)
LEMMA AddWordDevice ==
  ASSUME Typed, BusTypes, NEW f \in Functions, Device(f), AddWord(f)
  PROVE  Device(f)'
<1>1. /\ pc'[f] = pc[f] /\ NvmKept(f) /\ Looping(f) /\ More(f)
      /\ todo'[f] = <<>> /\ todo[f] = <<>> /\ data'[f] = <<>> /\ data[f] # <<>>
      /\ status[f] = "ok"
      /\ loop'[f].i = loop[f].i + 1 /\ loop'[f].sum = Plus(loop[f].sum, data[f][1])
      /\ hw'[f].func = hw[f].func /\ hw'[f].addr = hw[f].addr
      /\ pc[f] = "address" => hw'[f].perm = [hw[f].perm EXCEPT ![loop[f].i + 1] = data[f][1]]
  BY AddWordEffect
<1>2. pc[f] \notin {"store", "stored"} /\ pc[f] \in Summing
  BY <1>1 DEF Looping, Reads, Summing
<1>3. Placed(f)'
  BY <1>1, <1>2 DEF Device, Placed, ReadIs, StoreIs, DataIs, ClientIs, FuncIs,
     Quiet
<1>4. words' = words /\ (Fresh(f)' => Fresh(f)) /\ (Undisturbed(f)' => Undisturbed(f))
  BY <1>1, FreshBefore DEF NvmKept
<1>5. Fresh(f) => data[f][1] = words[loop[f].i]
  BY <1>1, Zenon DEF Device, Summed, WordIs, Quiet
<1>6. PICK i \in 0 .. CHECKSUM_REG, w \in [Offsets -> Values] : i = loop[f].i /\ w = words
  BY <1>1, MoreIs DEF BusTypes
<1>7. SumIs(f)'
  <2>1. SUFFICES ASSUME Fresh(f) PROVE loop'[f].sum = InWord(Sums(words')[loop'[f].i])
    BY <1>4, Zenon DEF SumIs
  <2>2. loop[f].sum = InWord(Sums(w)[i])
    BY <1>2, <1>6, <2>1, Zenon DEF Device, Summed, SumIs
  <2>3. loop'[f].sum = Plus(InWord(Sums(w)[i]), w[i])
    BY <1>1, <1>5, <1>6, <2>1, <2>2, Zenon
  <2>4. loop'[f].i = i + 1
    BY <1>1, <1>6, Zenon
  <2>. QED BY <1>4, <1>6, <2>3, <2>4, NextSum, Zenon
<1>8. ValidIs(f)'
  BY <1>1, <1>4, Zenon DEF Device, Summed, ValidIs
<1>9. WordIs(f)' /\ StoredIn(f)'
  BY <1>1, <1>2 DEF WordIs, StoredIn
<1>10. PermIs(f)'
  <2>1. SUFFICES ASSUME Undisturbed(f), pc[f] = "address", NEW k \in 1 .. 3,
                        k <= loop'[f].i
                 PROVE  hw'[f].perm[k] = words[k - 1]
    BY <1>1, <1>4 DEF PermIs
  <2>2. PICK p \in [1 .. 3 -> Values] : p = hw[f].perm
    BY DEF Typed, HwRecords
  <2>3. PICK j \in Nat : j = i
    BY PnpSizes
  <2>4. hw'[f].perm = [p EXCEPT ![j + 1] = data[f][1]] /\ k <= j + 1
    BY <1>1, <1>6, <2>1, <2>2, <2>3
  <2>5. CASE k = j + 1
    <3>1. Fresh(f)
      BY <2>1 DEF Undisturbed, Fresh
    <3>2. k - 1 = j
      BY <2>5
    <3>3. hw'[f].perm[k] = data[f][1]
      BY <2>2, <2>4, <2>5
    <3>. QED BY <1>5, <1>6, <2>3, <3>1, <3>2, <3>3, Zenon
  <2>6. CASE k # j + 1
    <3>1. k <= i
      BY <2>3, <2>4, <2>6
    <3>2. p[k] = words[k - 1]
      BY <1>6, <2>1, <2>2, <3>1 DEF Device, Addressed, PermIs
    <3>. QED BY <2>2, <2>4, <2>6, <3>2
  <2>. QED BY <2>5, <2>6
<1>11. AddressIs(f)'
  BY <1>1, <1>4, Zenon DEF Device, Addressed, AddressIs
<1>. QED BY <1>3, <1>7, <1>8, <1>9, <1>10, <1>11 DEF Device, Summed, Addressed

(* A read that fails starts the loop again or ends the start.              *)
LEMMA ReadFailsDevice ==
  ASSUME ShellInv, Typed, BusTypes, BusTypes', NEW f \in Functions, Device(f),
         ReadFails(f)
  PROVE  Device(f)'
<1>1. /\ Looping(f) /\ todo[f] = <<>> /\ UNCHANGED <<hw, disturbed>> /\ Idle(f)
      /\ Goto(f, After(f, FALSE)) /\ loop' = [loop EXCEPT ![f] = NewLoop]
  BY Zenon DEF ReadFails, Took, Quiet
<1>2. PICK place \in {"validate again", "failed", "dirty"} :
        /\ Goto(f, place)
        /\ place = "dirty" => pc[f] = "update"
  BY <1>1 DEF After, Looping, Reads
<1>3. pc'[f] = place
  BY <1>2, GotoEffect DEF ShellInv, PnpTypes, Places
<1>4. Steady /\ data'[f] = <<>> /\ todo'[f] = <<>>
  BY <1>1, CallIdles
<1>5. loop'[f].i = 0 /\ loop'[f].sum = 0
  BY <1>1, LoopReset
<1>6. CASE place = "failed"
  <2>1. pc'[f] \notin Chosen
    BY <1>3, <1>6 DEF Chosen, Summing, Writing, Reads
  <2>. QED BY <1>4, <2>1, DeviceAway
<1>7. pc[f] \in Chosen
  BY <1>1 DEF Chosen, Summing, Looping
<1>8. hw'[f] = hw[f] /\ hw'[f].func = lan_id(f)
  BY <1>1, <1>7 DEF Device, Placed, FuncIs
<1>9. CASE place = "validate again"
  <2>1. pc'[f] = "validate again" /\ pc'[f] \notin Writing
    BY <1>3, <1>9 DEF Writing
  <2>2. Placed(f)'
    BY <1>4, <1>8, <2>1 DEF Placed, ReadIs, StoreIs, DataIs, ClientIs, FuncIs,
       Quiet
  <2>3. SumIs(f)'
    BY <1>5, EmptySum, Zenon DEF SumIs, BusTypes
  <2>4. Summed(f)'
    BY <1>4, <2>1, <2>3 DEF Summed, WordIs, StoredIn, ValidIs
  <2>5. Addressed(f)'
    BY <2>1 DEF Addressed, PermIs, AddressIs
  <2>. QED BY <2>2, <2>4, <2>5 DEF Device
<1>10. CASE place = "dirty"
  <2>1. pc'[f] = "dirty" /\ pc[f] = "update" /\ pc[f] \in Writing
    BY <1>2, <1>3, <1>10 DEF Writing
  <2>2. ~Looping(f)' /\ pc'[f] \notin Summing
    BY <2>1 DEF Looping, Reads, Summing
  <2>3. Placed(f)'
    <3>1. f \in Clients
      BY <2>1 DEF Device, Placed, ClientIs
    <3>. QED BY <1>4, <1>8, <2>1, <2>2, <3>1
             DEF Placed, ReadIs, StoreIs, DataIs, ClientIs, FuncIs
  <2>4. Summed(f)'
    BY <2>1, <2>2 DEF Summed, WordIs, SumIs, StoredIn, ValidIs
  <2>5. Undisturbed(f)' => Undisturbed(f)
    <3>1. NvmKept(f)
      BY <1>1, <1>4 DEF NvmKept, Steady
    <3>. QED BY <3>1, FreshBefore
  <2>6. words' = words
    BY <1>4 DEF Steady
  <2>7. AddressIs(f)'
    BY <1>8, <2>1, <2>5, <2>6, Zenon DEF Device, Addressed, AddressIs
  <2>8. PermIs(f)'
    BY <2>1 DEF PermIs
  <2>. QED BY <2>3, <2>4, <2>7, <2>8 DEF Device, Addressed
<1>. QED BY <1>2, <1>6, <1>9, <1>10

-----------------------------------------------------------------------------
(* A loop ends.                                                            *)

(* What the end of a loop leaves as it is.                                 *)
LEMMA LoopEndsEffect ==
  ASSUME ShellInv, Typed, NEW f \in Functions, Device(f), LoopEnds(f)
  PROVE  /\ Looping(f) /\ todo'[f] = <<>> /\ data'[f] = <<>> /\ NvmKept(f)
         /\ loop[f].i = Reads[pc[f]] /\ UNCHANGED words
         /\ pc'[f] = After(f, pc[f] \in {"address", "update"} \/ loop[f].sum = SUM)
<1>1. /\ Looping(f) /\ todo[f] = <<>> /\ loop[f].i = Reads[pc[f]]
      /\ Goto(f, After(f, pc[f] \in {"address", "update"} \/ loop[f].sum = SUM))
      /\ UNCHANGED <<busVars, disturbed>>
  BY Zenon DEF LoopEnds, Quiet
<1>2. ~More(f) /\ pc[f] \notin {"rewrite", "stored"}
  <2>1. pc[f] \notin {"rewrite", "stored"}
    BY <1>1 DEF Looping, Reads
  <2>2. \A n \in Nat : ~(n < n)
    OBVIOUS
  <2>3. PICK n \in Nat : n = loop[f].i
    BY PnpSizes DEF Typed, Loops
  <2>. QED BY <1>1, <2>1, <2>2, <2>3, Zenon DEF More
<1>3. data[f] = <<>>
  BY <1>2, Zenon DEF Device, Placed, DataIs
<1>4. pc'[f] = After(f, pc[f] \in {"address", "update"} \/ loop[f].sum = SUM)
  <2>1. pc = [g \in Functions |-> pc[g]]
    BY DEF ShellInv, PnpTypes
  <2>. QED BY <1>1, <2>1, SetOne, Zenon DEF Goto
<1>. QED BY <1>1, <1>3, <1>4 DEF NvmKept, busVars

(* No part of the address is stored before the first.                      *)
LEMMA NoneBefore == \A k \in 1 .. 3 : ~(k <= 0)
OBVIOUS

(* The checksum was valid, or it is tried again, or the start fails.       *)
LEMMA ValidateEnds ==
  ASSUME ShellInv, Typed, BusTypes, BusTypes', NEW f \in Functions, Device(f),
         LoopEnds(f),
         pc[f] \in {"validate", "validate again"}
  PROVE  Device(f)'
<1>1. /\ Looping(f) /\ todo'[f] = <<>> /\ data'[f] = <<>> /\ NvmKept(f)
      /\ loop[f].i = Reads[pc[f]] /\ words' = words
      /\ pc'[f] = After(f, pc[f] \in {"address", "update"} \/ loop[f].sum = SUM)
  BY LoopEndsEffect
<1>2. hw' = hw /\ loop' = [loop EXCEPT ![f] = NewLoop]
  BY DEF LoopEnds
<1>3. loop'[f].i = 0 /\ loop'[f].sum = 0
  BY <1>2, LoopReset
<1>4. \/ pc'[f] = "address" /\ loop[f].sum = SUM
      \/ pc'[f] = "validate again"
      \/ pc'[f] = "failed"
  BY <1>1 DEF After
<1>5. CASE pc'[f] = "failed"
  <2>1. pc'[f] \notin Chosen
    BY <1>5 DEF Chosen, Summing, Writing, Reads
  <2>. QED BY <1>1, <2>1, DeviceAway
<1>6. CASE pc'[f] \in {"address", "validate again"}
  <2>1. hw'[f].func = lan_id(f)
    <3>1. pc[f] \in Chosen
      BY DEF Chosen, Summing, Reads
    <3>. QED BY <1>2, <3>1 DEF Device, Placed, FuncIs
  <2>2. pc'[f] \notin Writing \cup {"started"}
    BY <1>6 DEF Writing
  <2>3. Placed(f)'
    BY <1>1, <1>6, <2>1, <2>2 DEF Placed, ReadIs, StoreIs, DataIs, ClientIs,
       FuncIs, Quiet
  <2>4. SumIs(f)'
    BY <1>3, EmptySum, Zenon DEF SumIs, BusTypes
  <2>5. ValidIs(f)'
    <3>1. SUFFICES ASSUME Fresh(f), pc'[f] = "address"
                   PROVE  InWord(Sums(words)[CHECKSUM_REG + 1]) = SUM
      <4>1. Fresh(f)' => Fresh(f)
        BY <1>1, FreshBefore
      <4>. QED BY <1>1, <1>6, <4>1 DEF ValidIs
    <3>2. loop[f].sum = SUM /\ loop[f].i = CHECKSUM_REG + 1
      BY <1>1, <1>4, <3>1 DEF Reads
    <3>3. loop[f].sum = InWord(Sums(words)[loop[f].i])
      BY <3>1 DEF Device, Summed, SumIs, Summing, Reads
    <3>. QED BY <3>2, <3>3, Zenon
  <2>6. WordIs(f)' /\ StoredIn(f)'
    BY <1>1, <1>6 DEF WordIs, StoredIn
  <2>7. PermIs(f)'
    BY <1>3, NoneBefore, Zenon DEF PermIs
  <2>8. AddressIs(f)'
    BY <2>2 DEF AddressIs
  <2>. QED BY <2>3, <2>4, <2>5, <2>6, <2>7, <2>8 DEF Device, Summed, Addressed
<1>. QED BY <1>4, <1>5, <1>6

(* The sum of all words but the checksum is known.                         *)
LEMMA UpdateEnds ==
  ASSUME ShellInv, Typed, NEW f \in Functions, Device(f), LoopEnds(f),
         pc[f] = "update"
  PROVE  Device(f)'
<1>1. /\ todo'[f] = <<>> /\ data'[f] = <<>> /\ NvmKept(f)
      /\ loop[f].i = Reads[pc[f]] /\ words' = words
      /\ pc'[f] = After(f, pc[f] \in {"address", "update"} \/ loop[f].sum = SUM)
  BY LoopEndsEffect
<1>2. hw' = hw /\ loop' = loop
  BY DEF LoopEnds
<1>3. pc'[f] = "store" /\ loop[f].i = CHECKSUM_REG
  BY <1>1 DEF After, Reads
<1>4. f \in Clients /\ hw[f].func = lan_id(f)
  BY DEF Device, Placed, ClientIs, FuncIs, Writing, Chosen
<1>5. ~Looping(f)' /\ pc'[f] \in Summing /\ pc'[f] \in Writing
  BY <1>3 DEF Looping, Reads, Summing, Writing
<1>6. Placed(f)'
  BY <1>1, <1>2, <1>3, <1>4, <1>5 DEF Placed, ReadIs, StoreIs, DataIs,
     ClientIs, FuncIs
<1>7. (Fresh(f)' => Fresh(f)) /\ (Undisturbed(f)' => Undisturbed(f))
  BY <1>1, FreshBefore
<1>8. SumIs(f)'
  <2>1. pc[f] \in Summing
    BY DEF Summing, Reads
  <2>. QED BY <1>1, <1>2, <1>7, <2>1, Zenon DEF Device, Summed, SumIs
<1>9. Summed(f)'
  BY <1>3, <1>5, <1>8 DEF Summed, WordIs, StoredIn, ValidIs
<1>10. AddressIs(f)'
  <2>1. pc[f] \in Writing \cup {"started"}
    BY DEF Writing
  <2>. QED BY <1>1, <1>2, <1>7, <2>1, Zenon DEF Device, Addressed, AddressIs
<1>11. PermIs(f)'
  BY <1>3 DEF PermIs
<1>. QED BY <1>6, <1>9, <1>10, <1>11 DEF Device, Addressed

(* The address is stored, for the second function with one bit flipped.    *)
LEMMA AddressEnds ==
  ASSUME ShellInv, Typed, NEW f \in Functions, Device(f), LoopEnds(f),
         pc[f] = "address"
  PROVE  Device(f)'
<1>1. /\ todo'[f] = <<>> /\ data'[f] = <<>> /\ NvmKept(f)
      /\ loop[f].i = Reads[pc[f]] /\ words' = words
      /\ pc'[f] = After(f, pc[f] \in {"address", "update"} \/ loop[f].sum = SUM)
  BY LoopEndsEffect
<1>2. pc'[f] = "started" /\ loop[f].i = 3
  BY <1>1 DEF After, Reads
<1>3. PICK h, a : /\ h \in HwRecords /\ h = hw[f] /\ a = Flipped(f, h.perm)
                 /\ hw' = [hw EXCEPT ![f].perm = a, ![f].addr = a]
  <2>1. PICK h \in HwRecords : h = hw[f]
    BY DEF Typed
  <2>2. PICK a : a = Flipped(f, h.perm)
    OBVIOUS
  <2>3. hw' = [hw EXCEPT ![f].perm = a, ![f].addr = a]
    BY <2>1, <2>2, Zenon DEF LoopEnds
  <2>. QED BY <2>1, <2>2, <2>3
<1>4. hw'[f].addr = a /\ hw'[f].func = h.func
  <2>1. hw' = [hw EXCEPT ![f] = [h EXCEPT !.perm = a, !.addr = a]]
    BY <1>3
  <2>2. hw'[f] = [h EXCEPT !.perm = a, !.addr = a]
    BY <2>1 DEF Typed
  <2>3. [h EXCEPT !.perm = a, !.addr = a].addr = a /\ [h EXCEPT !.perm = a, !.addr = a].func = h.func
    BY <1>3 DEF HwRecords
  <2>. QED BY <2>2, <2>3, Zenon
<1>5. hw[f].func = lan_id(f)
  BY DEF Device, Placed, FuncIs, Chosen, Summing, Reads
<1>6. ~Looping(f)' /\ pc'[f] \notin Summing /\ pc'[f] \notin Writing
  BY <1>2 DEF Looping, Reads, Summing, Writing
<1>7. Placed(f)'
  BY <1>1, <1>2, <1>3, <1>4, <1>5, <1>6 DEF Placed, ReadIs, StoreIs, DataIs,
     ClientIs, FuncIs
<1>8. (Fresh(f)' => Fresh(f)) /\ (Undisturbed(f)' => Undisturbed(f))
  BY <1>1, FreshBefore
<1>9. ValidIs(f)'
  BY <1>1, <1>8, Zenon DEF Device, Summed, ValidIs
<1>10. Summed(f)'
  BY <1>2, <1>6, <1>9 DEF Summed, WordIs, SumIs, StoredIn
<1>11. AddressIs(f)'
  <2>1. SUFFICES ASSUME Undisturbed(f)
                 PROVE  /\ \A k \in 1 .. 2 : a[k] = words[k - 1]
                        /\ a[3] = IF h.func = 1 THEN Flip(words[2]) ELSE words[2]
    BY <1>1, <1>4, <1>8, Zenon DEF AddressIs
  <2>2. PICK p \in [1 .. 3 -> Values] : p = h.perm
    BY <1>3 DEF HwRecords
  <2>3. \A k \in 1 .. 3 : p[k] = words[k - 1]
    BY <1>2, <1>3, <2>1, <2>2 DEF Device, Addressed, PermIs
  <2>4. p[3] = words[2] /\ \A k \in 1 .. 2 : p[k] = words[k - 1]
    BY <2>3
  <2>5. a = IF h.func = 1 THEN [p EXCEPT ![3] = Flip(p[3])] ELSE p
    BY <1>3, <2>2, Zenon DEF Flipped, Flip
  <2>6. PICK v : v = Flip(p[3])
    OBVIOUS
  <2>7. CASE h.func = 1
    <3>1. a = [p EXCEPT ![3] = v]
      BY <2>5, <2>6, <2>7, Zenon
    <3>2. a[3] = v /\ \A k \in 1 .. 2 : a[k] = p[k]
      BY <2>2, <3>1
    <3>. QED BY <2>4, <2>6, <2>7, <3>2, Zenon
  <2>8. CASE h.func # 1
    BY <2>4, <2>5, <2>8, Zenon
  <2>. QED BY <2>7, <2>8
<1>12. PermIs(f)'
  BY <1>2 DEF PermIs
<1>. QED BY <1>7, <1>10, <1>11, <1>12 DEF Device, Addressed

-----------------------------------------------------------------------------
(* A client writes.                                                        *)

(* A client begins to write.                                               *)
LEMMA RewriteDevice ==
  ASSUME ShellInv, Typed, BusTypes, NEW f \in Functions, Device(f), Rewrite(f)
  PROVE  Device(f)'
<1>1. /\ pc[f] \in {"started", "dirty"} /\ f \in Clients /\ Goto(f, "rewrite")
      /\ UNCHANGED <<hw, loop, disturbed>>
      /\ \E c, program : Begin(f, c, program)
  BY Zenon DEF Rewrite, BeginWrite
<1>2. pc'[f] = "rewrite"
  BY <1>1, GotoEffect DEF ShellInv, PnpTypes, Places
<1>3. Steady /\ data'[f] = <<>>
  BY <1>1, CallBegun
<1>4. NvmKept(f) /\ words' = words
  BY <1>1, <1>3 DEF NvmKept, Steady
<1>5. ~Looping(f)' /\ pc'[f] \notin Summing /\ pc'[f] \in Writing
  BY <1>2 DEF Looping, Reads, Summing, Writing
<1>6. hw'[f] = hw[f] /\ hw[f].func = lan_id(f) /\ pc[f] \in Writing \cup {"started"}
  BY <1>1 DEF Device, Placed, FuncIs, Chosen, Writing
<1>7. Placed(f)'
  BY <1>1, <1>2, <1>3, <1>5, <1>6 DEF Placed, ReadIs, StoreIs, DataIs,
     ClientIs, FuncIs
<1>8. Summed(f)'
  BY <1>2, <1>5 DEF Summed, WordIs, SumIs, StoredIn, ValidIs
<1>9. AddressIs(f)'
  <2>1. Undisturbed(f)' => Undisturbed(f)
    BY <1>4, FreshBefore
  <2>. QED BY <1>4, <1>6, <2>1, Zenon DEF Device, Addressed, AddressIs
<1>10. PermIs(f)'
  BY <1>2 DEF PermIs
<1>. QED BY <1>7, <1>8, <1>9, <1>10 DEF Device, Addressed

(* The checksum that is missing is written.                                *)
LEMMA StoreDevice ==
  ASSUME ShellInv, Typed, BusTypes, NEW f \in Functions, Device(f),
         StoreChecksum(f)
  PROVE  Device(f)'
<1>1. /\ pc[f] = "store" /\ Goto(f, "stored") /\ UNCHANGED <<hw, loop, disturbed>>
  BY Zenon DEF StoreChecksum
<1>2. pc'[f] = "stored"
  BY <1>1, GotoEffect DEF ShellInv, PnpTypes, Places
<1>3. PICK v \in Values : v = Missing(loop[f].sum)
  BY StoredIs DEF Missing
<1>4. PICK c \in Calls : c = [op |-> "write", offset |-> CHECKSUM_REG, vals |-> <<v>>, n |-> 1]
  <2>1. <<v>> \in Seq(Values) /\ CHECKSUM_REG \in Nat
    BY PnpSizes
  <2>. QED BY <2>1 DEF Calls
<1>5. /\ c.op = "write" /\ c.offset = CHECKSUM_REG /\ c.vals = <<v>> /\ c.n = 1
      /\ Len(<<v>>) = 1
  BY <1>4
<1>6. Begin(f, c, write_nvm_microwire(c.offset, c.vals))
  <2>1. BeginWrite(f, CHECKSUM_REG, <<v>>)
    BY <1>3, Zenon DEF StoreChecksum, Missing
  <2>. QED BY <1>4, <1>5, <2>1, Zenon DEF BeginWrite
<1>7. /\ Steady /\ data'[f] = <<>> /\ call'[f] = c
      /\ ~(todo'[f] = <<>> /\ status'[f] = "ok")
  <2>1. /\ Steady /\ call'[f] = c /\ data'[f] = <<>>
        /\ todo'[f] = (IF InBounds(c.offset, c.n) THEN write_nvm_microwire(c.offset, c.vals)
                       ELSE <<>>)
        /\ status'[f] = (IF InBounds(c.offset, c.n) THEN "ok" ELSE "error")
    BY <1>6, CallBegun
  <2>2. CASE InBounds(c.offset, c.n)
    <3>1. CallOK(c)
      BY <1>4, <1>5, <2>2 DEF CallOK, Calls
    <3>2. write_nvm_microwire(c.offset, c.vals) # <<>>
      BY <1>5, <3>1, ProgramNotEmpty
    <3>. QED BY <2>1, <2>2, <3>2, Zenon
  <2>3. CASE ~InBounds(c.offset, c.n)
    <3>1. status'[f] = "error"
      BY <2>1, <2>3, Zenon
    <3>. QED BY <2>1, <3>1
  <2>. QED BY <2>2, <2>3
<1>8. NvmKept(f) /\ words' = words
  BY <1>1, <1>7 DEF NvmKept, Steady
<1>9. ~Looping(f)' /\ pc'[f] \in Summing /\ pc'[f] \in Writing
  BY <1>2 DEF Looping, Reads, Summing, Writing
<1>10. pc[f] \in Summing /\ pc[f] \in Writing /\ pc[f] \in Chosen
  BY <1>1 DEF Summing, Writing, Chosen
<1>11. loop[f].i = CHECKSUM_REG /\ f \in Clients /\ hw[f].func = lan_id(f)
  BY <1>1, <1>10 DEF Device, Placed, StoreIs, ClientIs, FuncIs
<1>12. StoreIs(f)'
  <2>1. loop'[f] = loop[f]
    BY <1>1
  <2>. QED BY <1>2, <1>3, <1>4, <1>7, <1>11, <2>1, Zenon DEF StoreIs
<1>13. Placed(f)'
  BY <1>1, <1>7, <1>9, <1>11, <1>12 DEF Placed, ReadIs, DataIs, ClientIs,
     FuncIs
<1>14. (Fresh(f)' => Fresh(f)) /\ (Undisturbed(f)' => Undisturbed(f))
  BY <1>8, FreshBefore
<1>15. SumIs(f)'
  BY <1>1, <1>8, <1>10, <1>14, Zenon DEF Device, Summed, SumIs
<1>16. Summed(f)'
  <2>1. StoredIn(f)'
    BY <1>7 DEF StoredIn, Quiet
  <2>. QED BY <1>2, <1>9, <1>15, <2>1 DEF Summed, WordIs, ValidIs
<1>17. AddressIs(f)'
  <2>1. pc[f] \in Writing \cup {"started"}
    BY <1>10
  <2>. QED BY <1>1, <1>8, <1>14, <2>1, Zenon DEF Device, Addressed, AddressIs
<1>18. PermIs(f)'
  BY <1>2 DEF PermIs
<1>. QED BY <1>13, <1>16, <1>17, <1>18 DEF Device, Addressed

(* A write ends: after the words the sum is made, after the checksum it is *)
(* valid.                                                                  *)
LEMMA WriteEndsDevice ==
  ASSUME ShellInv, Typed, BusTypes, BusTypes', NEW f \in Functions, Device(f),
         WriteEnds(f)
  PROVE  Device(f)'
<1>1. /\ pc[f] \in {"rewrite", "stored"} /\ todo[f] = <<>> /\ Idle(f)
      /\ UNCHANGED <<hw, disturbed>> /\ loop' = [loop EXCEPT ![f] = NewLoop]
  BY Zenon DEF WriteEnds, Quiet
<1>2. PICK place \in {"dirty", "update", "started"} :
        /\ Goto(f, place)
        /\ place = "started" => pc[f] = "stored" /\ status[f] # "error"
  BY DEF WriteEnds
<1>3. pc'[f] = place
  BY <1>2, GotoEffect DEF ShellInv, PnpTypes, Places
<1>4. Steady /\ data'[f] = <<>> /\ todo'[f] = <<>>
  BY <1>1, CallIdles
<1>5. loop'[f].i = 0 /\ loop'[f].sum = 0
  BY <1>1, LoopReset
<1>6. NvmKept(f) /\ words' = words
  BY <1>1, <1>4 DEF NvmKept, Steady
<1>7. (Fresh(f)' => Fresh(f)) /\ (Undisturbed(f)' => Undisturbed(f))
  BY <1>6, FreshBefore
<1>8. pc[f] \in Writing /\ pc[f] \in Chosen
  BY <1>1 DEF Writing, Chosen
<1>9. f \in Clients /\ hw[f].func = lan_id(f) /\ hw'[f] = hw[f]
  BY <1>1, <1>8 DEF Device, Placed, ClientIs, FuncIs
<1>10. pc'[f] \in Writing \cup {"started"} /\ pc'[f] \notin {"store", "stored", "address"}
  BY <1>3 DEF Writing
<1>11. Placed(f)'
  BY <1>4, <1>9, <1>10 DEF Placed, ReadIs, StoreIs, DataIs, ClientIs, FuncIs,
     Quiet
<1>12. SumIs(f)'
  BY <1>5, EmptySum, Zenon DEF SumIs, BusTypes
<1>13. WordIs(f)' /\ StoredIn(f)'
  BY <1>4, <1>10 DEF WordIs, StoredIn
<1>14. ValidIs(f)'
  <2>1. SUFFICES ASSUME Fresh(f), place = "started"
                 PROVE  InWord(Sums(words)[CHECKSUM_REG + 1]) = SUM
    BY <1>3, <1>6, <1>7, <1>10 DEF ValidIs
  <2>2. pc[f] = "stored" /\ status[f] = "ok"
    BY <1>2, <2>1 DEF BusTypes
  <2>3. words[CHECKSUM_REG] = Missing(loop[f].sum)
    BY <1>1, <2>1, <2>2, Zenon DEF Device, Summed, StoredIn, Quiet
  <2>4. loop[f].i = CHECKSUM_REG
    BY <2>2, Zenon DEF Device, Placed, StoreIs
  <2>5. loop[f].sum = InWord(Sums(words)[CHECKSUM_REG])
    <3>1. pc[f] \in Summing
      BY <2>2 DEF Summing
    <3>. QED BY <2>1, <2>4, <3>1, Zenon DEF Device, Summed, SumIs
  <2>6. PICK w \in [Offsets -> Values], n \in Nat : w = words /\ n = CHECKSUM_REG
    BY PnpSizes DEF BusTypes
  <2>7. n \in 0 .. n + 1 /\ n \in 0 .. n
    OBVIOUS
  <2>8. Sums(w)[n] \in Nat /\ Sums(w)[n + 1] = Sums(w)[n] + w[n]
    BY <2>6, <2>7, SumsAre, Zenon
  <2>9. PICK a \in Nat : a = Sums(w)[n]
    BY <2>8
  <2>10. InWord(a + Missing(InWord(a))) = SUM
    BY MissingIs
  <2>11. w[n] = Missing(InWord(a))
    BY <2>3, <2>5, <2>6, <2>9, Zenon
  <2>. QED BY <2>6, <2>8, <2>9, <2>10, <2>11, Zenon
<1>15. AddressIs(f)'
  <2>1. pc[f] \in Writing \cup {"started"}
    BY <1>8
  <2>. QED BY <1>6, <1>7, <1>9, <2>1, Zenon DEF Device, Addressed, AddressIs
<1>16. PermIs(f)'
  BY <1>10 DEF PermIs
<1>. QED BY <1>11, <1>12, <1>13, <1>14, <1>15, <1>16 DEF Device, Summed,
            Addressed

-----------------------------------------------------------------------------
(* Every step keeps what the devices rely on.                              *)

(* The device that takes the step.                                         *)
LEMMA OwnDevice ==
  ASSUME ShellInv, Typed, BusTypes, BusTypes', BusInv', NEW f \in Functions,
         Device(f), ShellStepOf(f)
  PROVE  Device(f)'
<1>1. CASE LoopEnds(f)
  <2>1. pc[f] \in {"validate", "validate again", "address", "update"}
    BY <1>1 DEF LoopEnds, Looping, Reads
  <2>2. CASE pc[f] \in {"validate", "validate again"}
    BY <1>1, <2>2, ValidateEnds
  <2>3. CASE pc[f] = "address"
    BY <1>1, <2>3, AddressEnds
  <2>4. CASE pc[f] = "update"
    BY <1>1, <2>4, UpdateEnds
  <2>. QED BY <2>1, <2>2, <2>3, <2>4
<1>2. CASE \/ AddDevice(f) \/ StartDevice(f) \/ IdentifyHardware(f)
           \/ AllocatePciResources(f) \/ SetupInitFuncs(f) \/ GetPhyId(f)
           \/ StopDevice(f) \/ RemoveDevice(f)
  BY <1>2, AwayStep
<1>3. CASE GetBusInfo(f)
  BY <1>3, GetBusInfoDevice
<1>4. CASE ResetHw(f)
  BY <1>4, ResetHwDevice
<1>5. CASE ReadWord(f)
  BY <1>5, ReadWordDevice
<1>6. CASE AddWord(f)
  BY <1>6, AddWordDevice
<1>7. CASE ReadFails(f)
  BY <1>7, ReadFailsDevice
<1>8. CASE Rewrite(f)
  BY <1>8, RewriteDevice
<1>9. CASE StoreChecksum(f)
  BY <1>9, StoreDevice
<1>10. CASE WriteEnds(f)
  BY <1>10, WriteEndsDevice
<1>. QED BY <1>1, <1>2, <1>3, <1>4, <1>5, <1>6, <1>7, <1>8, <1>9, <1>10, Zenon
         DEF ShellStepOf, Starts

(* Every step keeps what the devices rely on.                              *)
LEMMA SoundStep ==
  ASSUME ShellInv, TypedInv, BusInv, BusInv', SoundInv, [Next]_vars
  PROVE  SoundInv'
<1>1. Typed /\ BusTypes /\ BusTypes'
  BY DEF TypedInv, BusInv
<1>2. disturbed \in [Functions -> BOOLEAN] /\ \A f \in Functions : Device(f)
  BY DEF SoundInv
<1>3. ASSUME NEW f \in Functions, ShellStepOf(f) PROVE SoundInv'
  <2>1. disturbed' \in [Functions -> BOOLEAN]
    BY <1>1, <1>2, <1>3, ShellLeaves
  <2>2. Device(f)'
    BY <1>1, <1>2, <1>3, OwnDevice
  <2>3. ASSUME NEW g \in Functions \ {f} PROVE Device(g)'
    BY <1>1, <1>3, <2>3, OtherDevices
  <2>4. \A g \in Functions : Device(g)'
    BY <2>2, <2>3
  <2>. QED BY <2>1, <2>4 DEF SoundInv
<1>4. ASSUME NEW f \in Functions, Bus(f) PROVE SoundInv'
  <2>1. \A g \in Functions : Device(g)'
    BY <1>4, BusDevices DEF Bus
  <2>2. disturbed' = disturbed
    BY <1>4, Zenon DEF Bus, pnpVars
  <2>. QED BY <1>2, <2>1, <2>2 DEF SoundInv
<1>5. ASSUME UNCHANGED <<pc, loop, hw, todo, data, status, call, words, disturbed, timeouts>>
      PROVE  SoundInv'
  <2>1. ASSUME NEW f \in Functions PROVE Device(f)'
    <3>1. Kept(f) /\ CallKept(f) /\ NvmKept(f) /\ Device(f)
      BY <1>2, <1>5, Zenon DEF Kept, CallKept, NvmKept
    <3>. QED BY <3>1, DeviceStill
  <2>. QED BY <1>2, <1>5, <2>1 DEF SoundInv
<1>6. ASSUME NEW f \in Functions, Arbiter(f) PROVE SoundInv'
  BY <1>5, <1>6, Zenon DEF Arbiter, Grant, pnpVars
<1>7. CASE NvmChanges
  <2>1. \A f \in Functions : Device(f)'
    BY <1>7, ProgrammedDevices
  <2>2. disturbed' \in [Functions -> BOOLEAN]
    BY <1>7 DEF NvmChanges
  <2>. QED BY <2>1, <2>2 DEF SoundInv
<1>8. CASE UNCHANGED vars
  BY <1>5, <1>8, Zenon DEF vars, busVars, pnpVars
<1>. QED BY <1>3, <1>4, <1>6, <1>7, <1>8, Zenon DEF Next, ShellStepOf

(* At first no device relies on anything.                                  *)
LEMMA SoundInitial ==
  ASSUME Init
  PROVE  SoundInv
<1>1. /\ pc = [f \in Functions |-> "none"] /\ data = [f \in Functions |-> <<>>]
      /\ disturbed = [f \in Functions |-> FALSE]
  BY Zenon DEF Init, BusInit
<1>2. ASSUME NEW f \in Functions PROVE Device(f)
  <2>1. pc[f] = "none" /\ data[f] = <<>>
    BY <1>1
  <2>2. ~Looping(f) /\ pc[f] \notin Summing /\ pc[f] \notin Writing /\ pc[f] \notin Chosen
    BY <2>1 DEF Chosen, Looping, Summing, Writing, Reads
  <2>3. Placed(f)
    BY <2>1, <2>2 DEF Placed, ReadIs, StoreIs, DataIs, ClientIs, FuncIs
  <2>4. Summed(f)
    BY <2>1, <2>2 DEF Summed, WordIs, SumIs, StoredIn, ValidIs
  <2>5. Addressed(f)
    BY <2>1, <2>2 DEF Addressed, PermIs, AddressIs
  <2>. QED BY <2>3, <2>4, <2>5 DEF Device
<1>. QED BY <1>1, <1>2 DEF SoundInv

(* Whatever a device has read, summed up and stored is what the NVM holds, *)
(* unless another device or a write that was given up has disturbed it.    *)
THEOREM SoundInvariant == Spec => [](TransferInv /\ SoundInv)
<1>1. Init => SoundInv
  BY SoundInitial
<1>2. TransferInv /\ TransferInv' /\ SoundInv /\ [Next]_vars => SoundInv'
  BY SoundStep DEF TransferInv
<1>. QED BY <1>1, <1>2, TransferInvariant, PTL DEF Spec

(* With one client of the NVM - the code has no lock between the words of  *)
(* two - a rewrite without a failure leaves a valid checksum               *)
(* (e1000_nvm.c:1038-1063).                                                *)
THEOREM ChecksumKeptHolds ==
  ASSUME NEW CONSTANT c, Clients \subseteq {c}
  PROVE  Spec => []ChecksumKept
<1>1. ASSUME TransferInv, SoundInv PROVE ChecksumKept
  <2>1. SUFFICES ASSUME NEW d \in Clients, pc[d] = "started",
                        timeouts.write = 0
                 PROVE  ChecksumValid
    BY DEF ChecksumKept
  <2>2. d \in Functions /\ Clients \subseteq {d}
    BY PnpAssumption
  <2>3. Fresh(d) /\ ValidIs(d)
    BY <1>1, <2>1, <2>2 DEF Fresh, SoundInv, Device, Summed
  <2>. QED BY <2>1, <2>3, ChecksumIs DEF ValidIs
<1>. QED BY <1>1, SoundInvariant, PTL

(* The functions of an adapter with two of them have different numbers.    *)
LEMMA TwoFunctions ==
  ASSUME IsFiniteSet(Functions), Cardinality(Functions) <= 2,
         NEW f \in Functions, NEW g \in Functions, f # g
  PROVE  \/ lan_id(f) = 1 /\ lan_id(g) = 0
         \/ lan_id(f) = 0 /\ lan_id(g) = 1
<1>1. {f, g} \subseteq Functions /\ Cardinality({f, g}) = 2
  <2>1. IsFiniteSet({f}) /\ Cardinality({f}) = 1
    BY FS_Singleton
  <2>2. {f} \cup {g} = {f, g} /\ g \notin {f}
    OBVIOUS
  <2>. QED BY <2>1, <2>2, FS_AddElement
<1>2. Cardinality(Functions) \in Nat
  BY FS_CardinalityType
<1>3. Cardinality({f, g}) <= Cardinality(Functions)
  BY <1>1, FS_Subset
<1>4. Cardinality(Functions) = 2
  BY <1>1, <1>2, <1>3
<1>5. {f, g} = Functions
  BY <1>1, <1>4, FS_Subset
<1>6. Lan1 = f \/ Lan1 = g
  BY <1>5, PnpAssumption
<1>7. Cardinality(Functions) > 1
  BY <1>4
<1>. QED BY <1>6, <1>7 DEF lan_id

(* The third word of an address is a word of the NVM.                      *)
LEMMA SecondWord ==
  ASSUME NEW w \in [Offsets -> Values]
  PROVE  w[2] \in Values
<1>1. PICK n \in Nat, s \in Nat : n = CHECKSUM_REG /\ s = WordSize /\ n < s /\ n >= 3
  BY PnpSizes
<1>2. 2 \in 0 .. s - 1
  BY <1>1
<1>3. 2 \in Offsets
  BY <1>1, <1>2, Zenon DEF Offsets
<1>. QED BY <1>3

(* On an adapter of at most two functions (the 82546 has two), whose other *)
(* device rewrote nothing and whose chip is not busy with a write that was *)
(* given up, a started device was supported, found a valid checksum and    *)
(* has an address of its own (main.c:540-602, e1000_82540.c:691-718).      *)
THEOREM StartedIsSoundHolds ==
  ASSUME IsFiniteSet(Functions), Cardinality(Functions) <= 2
  PROVE  Spec => []StartedIsSound
<1>1. ASSUME TransferInv, SoundInv PROVE StartedIsSound
  <2>1. SUFFICES ASSUME NEW f \in Functions, pc[f] = "started"
                 PROVE  /\ virtual[f] /\ hw[f].ops
                        /\ adapter.family = "82540" /\ adapter.phy
                        /\ ~disturbed[f] /\ timeouts.write = 0 =>
                             /\ ChecksumValid
                             /\ \A k \in {1, 2} : hw[f].addr[k] = words[k - 1]
                             /\ \A g \in Functions \ {f} :
                                  pc[g] = "started" /\ ~disturbed[g] =>
                                    hw[f].addr # hw[g].addr
    BY DEF StartedIsSound
  <2>2. /\ virtual[f] /\ hw[f].ops
        /\ adapter.family = "82540" /\ adapter.phy
    BY <1>1, <2>1 DEF TransferInv, ShellInv, DeviceOK, MappedOnce, Known,
       KnownPhy, KnownMac, Mapped
  <2>3. SUFFICES ASSUME ~disturbed[f], timeouts.write = 0
                 PROVE  /\ ChecksumValid
                        /\ \A k \in {1, 2} : hw[f].addr[k] = words[k - 1]
                        /\ \A g \in Functions \ {f} :
                             pc[g] = "started" /\ ~disturbed[g] =>
                               hw[f].addr # hw[g].addr
    BY <2>2
  <2>4. ASSUME NEW g \in Functions, pc[g] = "started", ~disturbed[g]
        PROVE  /\ Fresh(g) /\ Device(g) /\ hw[g].func = lan_id(g)
               /\ \A k \in 1 .. 2 : hw[g].addr[k] = words[k - 1]
               /\ hw[g].addr[3] = IF hw[g].func = 1 THEN Flip(words[2]) ELSE words[2]
    <3>1. Fresh(g) /\ Undisturbed(g) /\ Device(g)
      BY <1>1, <2>3, <2>4 DEF Fresh, Undisturbed, SoundInv
    <3>2. AddressIs(g) /\ FuncIs(g)
      BY <3>1 DEF Device, Addressed, Placed
    <3>. QED BY <2>4, <3>1, <3>2 DEF AddressIs, FuncIs, Chosen
  <2>5. ChecksumValid
    <3>1. Fresh(f) /\ ValidIs(f)
      BY <2>1, <2>3, <2>4 DEF Device, Summed
    <3>. QED BY <2>1, <3>1, ChecksumIs DEF ValidIs
  <2>6. \A k \in {1, 2} : hw[f].addr[k] = words[k - 1]
    BY <2>1, <2>3, <2>4
  <2>7. Flip(words[2]) # words[2]
    <3>1. words \in [Offsets -> Values]
      BY <1>1 DEF TransferInv, BusInv, BusTypes
    <3>. QED BY <3>1, SecondWord, FlipIs
  <2>8. ASSUME NEW g \in Functions \ {f}, pc[g] = "started", ~disturbed[g]
        PROVE  hw[f].addr # hw[g].addr
    <3>1. /\ hw[f].addr[3] = IF lan_id(f) = 1 THEN Flip(words[2]) ELSE words[2]
          /\ hw[g].addr[3] = IF lan_id(g) = 1 THEN Flip(words[2]) ELSE words[2]
      BY <2>1, <2>3, <2>4, <2>8
    <3>2. \/ lan_id(f) = 1 /\ lan_id(g) # 1
          \/ lan_id(f) # 1 /\ lan_id(g) = 1
      BY <2>8, TwoFunctions
    <3>3. hw[f].addr[3] # hw[g].addr[3]
      BY <2>7, <3>1, <3>2
    <3>. QED BY <3>3
  <2>. QED BY <2>5, <2>6, <2>8
<1>. QED BY <1>1, SoundInvariant, PTL
===============================================================================
