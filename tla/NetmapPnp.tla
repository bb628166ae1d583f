------------------------------ MODULE NetmapPnp ------------------------------
(***************************************************************************)
(* The netmap driver shell (main.c): its device objects from AddDevice to  *)
(* removal, and what starting one does with the shared e1000 code: the     *)
(* function table, the PHY's id, the checksum of the NVM and the address.  *)
(*                                                                         *)
(* The devices are the functions of one adapter and share its EEPROM, bit  *)
(* by bit as in Microwire.  A client of the shared code may rewrite the    *)
(* NVM through a started device.                                           *)
(***************************************************************************)
EXTENDS Microwire, FiniteSets

CONSTANTS
  Lan1,              (* the function whose STATUS.FUNC is 1                *)
  Clients,           (* the functions through which the NVM is rewritten   *)
  Contents,          (* what the NVM may hold at first                     *)
  Rewrites,          (* what a client writes from word 0 on                *)
  Adapters,          (* what the adapter may be, and the bounds on faults, *)
                     (* on rewrites and on rebalances                      *)
  CHECKSUM_REG,      (* NVM_CHECKSUM_REG                                   *)
  SUM                (* NVM_SUM                                            *)

ASSUME PnpAssumption ==
  /\ Lan1 \in Functions /\ Clients \subseteq Functions
  /\ Contents \subseteq [Offsets -> Values]
  /\ CHECKSUM_REG \in Offsets /\ CHECKSUM_REG >= 3 /\ SUM \in Values
  /\ \A r \in Rewrites : r \in Seq(Values) /\ InBounds(0, Len(r)) /\ Len(r) <= CHECKSUM_REG
  /\ Adapters \subseteq [family : {"82540", "other"}, phy : BOOLEAN, faults : Nat,
                         rewrites : Nat, rebalances : Nat]

VARIABLES
  adapter,           (* what the adapter is                                *)
  pc,                (* where each device is                               *)
  virtual,           (* osdep.mem_bus_virtual is not NULL                  *)
  mappings,          (* calls of MmMapIoSpace without MmUnmapIoSpace       *)
  hw,                (* of struct e1000_hw: device id, function table and  *)
                     (* function number, and the address                   *)
  loop,              (* the index and the sum of a loop over words         *)
  faults, rewrites, rebalances,
  disturbed          (* the NVM changed since the start began              *)

pnpVars == <<adapter, pc, virtual, mappings, hw, loop, faults, rewrites,
             rebalances, disturbed>>
vars == <<busVars, pnpVars>>

Zeros == <<0, 0, 0>>
NewHw == [device_id |-> "unset", ops |-> FALSE, func |-> 0, perm |-> Zeros, addr |-> Zeros]
NewLoop == [i |-> 0, sum |-> 0]

Init ==
  /\ \E c \in Contents : BusInit(c)
  /\ adapter \in Adapters
  /\ pc = [f \in Functions |-> "none"]
  /\ virtual = [f \in Functions |-> FALSE] /\ mappings = [f \in Functions |-> 0]
  /\ hw = [f \in Functions |-> NewHw] /\ loop = [f \in Functions |-> NewLoop]
  /\ faults = 0 /\ rewrites = 0 /\ rebalances = 0
  /\ disturbed = [f \in Functions |-> FALSE]

Goto(f, place) == pc' = [pc EXCEPT ![f] = place]
Fault == faults < adapter.faults /\ faults' = faults + 1
Quiet(f) == todo[f] = <<>>

-----------------------------------------------------------------------------
(* The device object.                                                      *)

(* The device object is attached, or its creation or attachment fails and  *)
(* leaves nothing.                                                         *)
AddDevice(f) ==
  /\ pc[f] = "none"
  /\ \/ Goto(f, "added") /\ UNCHANGED faults
     \/ Fault /\ Goto(f, "deleted")
  /\ UNCHANGED <<busVars, adapter, virtual, mappings, hw, loop, rewrites, rebalances, disturbed>>

(* IRP_MN_START_DEVICE: the bus driver first.                              *)
StartDevice(f) ==
  /\ pc[f] \in {"added", "stopped"}
  /\ \/ Goto(f, "identify") /\ UNCHANGED faults
     \/ Fault /\ Goto(f, "failed")
  /\ disturbed' = [disturbed EXCEPT ![f] = FALSE]
  /\ UNCHANGED <<busVars, adapter, virtual, mappings, hw, loop, rewrites, rebalances>>

(* When the configuration space cannot be read the id stays what it was,   *)
(* and the start goes on.                                                  *)
IdentifyHardware(f) ==
  /\ pc[f] = "identify" /\ Goto(f, "map")
  /\ \/ hw' = [hw EXCEPT ![f].device_id = adapter.family] /\ UNCHANGED faults
     \/ Fault /\ UNCHANGED hw
  /\ UNCHANGED <<busVars, adapter, virtual, mappings, loop, rewrites, rebalances, disturbed>>

AllocatePciResources(f) ==
  /\ pc[f] = "map"
  /\ \/ /\ Goto(f, "init") /\ UNCHANGED faults
        /\ virtual' = [virtual EXCEPT ![f] = TRUE]
        /\ mappings' = [mappings EXCEPT ![f] = @ + 1]
     \/ /\ Fault /\ Goto(f, "failed")
        /\ virtual' = [virtual EXCEPT ![f] = FALSE] /\ UNCHANGED mappings
  /\ UNCHANGED <<busVars, adapter, hw, loop, rewrites, rebalances, disturbed>>

(* e1000_set_mac_type knows the id, and the family is compiled in.         *)
set_mac_type(id)    == id # "unset"
init_functions(id)  == id = "82540"

SetupInitFuncs(f) ==
  /\ pc[f] = "init"
  /\ IF set_mac_type(hw[f].device_id) /\ init_functions(hw[f].device_id)
       THEN Goto(f, "phy") /\ hw' = [hw EXCEPT ![f].ops = TRUE]
       ELSE Goto(f, "failed") /\ UNCHANGED hw
  /\ UNCHANGED <<busVars, adapter, virtual, mappings, loop, faults, rewrites, rebalances, disturbed>>

(* e1000_init_phy_params_82540 wants the one PHY it knows.                 *)
PhyIsKnown == adapter.phy

(* e1000_get_phy_id: an access fails; or the id is blank and read again.   *)
GetPhyId(f) ==
  /\ pc[f] \in {"phy", "phy again"}
  /\ \/ Goto(f, IF PhyIsKnown THEN "bus" ELSE "failed") /\ UNCHANGED faults
     \/ Fault /\ Goto(f, IF pc[f] = "phy" THEN "phy again" ELSE "failed")
     \/ Fault /\ Goto(f, "failed")
  /\ UNCHANGED <<busVars, adapter, virtual, mappings, hw, loop, rewrites, rebalances, disturbed>>

(* Mutant: both functions take themselves for the first.                   *)
lan_id_zero(f) == 0

(* e1000_get_bus_info, of which the function number matters: it is read    *)
(* from STATUS when the header says, or cannot be read to say otherwise,   *)
(* that there are several.                                                 *)
lan_id(f) == IF Cardinality(Functions) > 1 /\ f = Lan1 THEN 1 ELSE 0
GetBusInfo(f) ==
  /\ pc[f] = "bus" /\ Goto(f, "reset")
  /\ hw' = [hw EXCEPT ![f].func = lan_id(f)]
  /\ UNCHANGED <<busVars, adapter, virtual, mappings, loop, faults, rewrites, rebalances, disturbed>>

(* e1000_reset_hw stops the traffic and the interrupts; its status is not  *)
(* looked at.                                                              *)
ResetHw(f) ==
  /\ pc[f] = "reset" /\ Goto(f, "validate")
  /\ loop' = [loop EXCEPT ![f] = NewLoop]
  /\ UNCHANGED <<busVars, adapter, virtual, mappings, hw, faults, rewrites, rebalances, disturbed>>

-----------------------------------------------------------------------------
(* Loops over words of the NVM: each is a call of its own.                 *)

(* Mutant: the update leaves the last word out.                            *)
ReadsLess == [p \in {"validate", "validate again", "address", "update"} |->
                CASE p = "address" -> 3
                  [] p = "update"  -> CHECKSUM_REG - 1
                  [] OTHER         -> CHECKSUM_REG + 1]

(* The words that each loop reads.                                         *)
Reads == [p \in {"validate", "validate again", "address", "update"} |->
            CASE p = "address" -> 3
              [] p = "update"  -> CHECKSUM_REG
              [] OTHER         -> CHECKSUM_REG + 1]
Looping(f) == pc[f] \in DOMAIN Reads

(* A word that was read waits for its loop: data[f] has it.                *)
ReadWord(f) ==
  /\ Looping(f) /\ Quiet(f) /\ data[f] = <<>> /\ status[f] = "ok"
  /\ loop[f].i < Reads[pc[f]]
  /\ BeginRead(f, loop[f].i, 1)
  /\ UNCHANGED pnpVars
Took(f) == Looping(f) /\ Quiet(f) /\ loop[f].i < Reads[pc[f]]
           /\ (data[f] # <<>> \/ status[f] = "error")
Idle(f) == /\ data' = [data EXCEPT ![f] = <<>>] /\ status' = [status EXCEPT ![f] = "ok"]
           /\ UNCHANGED <<words, chip, pins, req, gnt, todo, call, timeouts>>

(* Mutant: the checksum is not kept in 16 bits.                            *)
PlusWide(sum, word) == sum + word

(* checksum += nvm_data, a u16.                                            *)
Plus(sum, word) == (sum + word) % Pow2[WordBits]

AddWord(f) ==
  /\ Took(f) /\ status[f] = "ok" /\ Idle(f)
  /\ loop' = [loop EXCEPT ![f] = [i |-> @.i + 1, sum |-> Plus(@.sum, data[f][1])]]
  /\ hw' = IF pc[f] = "address" THEN [hw EXCEPT ![f].perm[loop[f].i + 1] = data[f][1]] ELSE hw
  /\ UNCHANGED <<adapter, pc, virtual, mappings, faults, rewrites, rebalances, disturbed>>

(* A read that fails ends the loop; the checksum is then tried once more.  *)
After(f, success) ==
  CASE pc[f] = "validate"       -> IF success THEN "address" ELSE "validate again"
    [] pc[f] = "validate again" -> IF success THEN "address" ELSE "failed"
    [] pc[f] = "address"        -> IF success THEN "started" ELSE "failed"
    [] pc[f] = "update"         -> IF success THEN "store" ELSE "dirty"

ReadFails(f) ==
  /\ Took(f) /\ status[f] = "error" /\ Idle(f)
  /\ Goto(f, After(f, FALSE)) /\ loop' = [loop EXCEPT ![f] = NewLoop]
  /\ UNCHANGED <<adapter, virtual, mappings, hw, faults, rewrites, rebalances, disturbed>>

(* The second function's address is the other one with its last bit        *)
(* flipped: bit 8 of word 2.                                               *)
FlipBit == Pow2[WordBits \div 2]
Flipped(f, addr) ==
  IF hw[f].func = 1
    THEN [addr EXCEPT ![3] = IF Bit(@, WordBits \div 2) = 1 THEN @ - FlipBit ELSE @ + FlipBit]
    ELSE addr

LoopEnds(f) ==
  /\ Looping(f) /\ Quiet(f) /\ loop[f].i = Reads[pc[f]]
  /\ Goto(f, After(f, pc[f] \in {"address", "update"} \/ loop[f].sum = SUM))
  /\ loop' = IF pc[f] = "update" THEN loop ELSE [loop EXCEPT ![f] = NewLoop]
  /\ hw' = IF pc[f] = "address"
              THEN LET a == Flipped(f, hw[f].perm) IN [hw EXCEPT ![f].perm = a, ![f].addr = a]
              ELSE hw
  /\ UNCHANGED <<busVars, adapter, virtual, mappings, faults, rewrites, rebalances, disturbed>>

-----------------------------------------------------------------------------
(* A client writes words through a started device, and then brings the     *)
(* checksum up to date, as the code asks for.                              *)

Rewrite(f) ==
  /\ pc[f] \in {"started", "dirty"} /\ f \in Clients /\ Quiet(f)
  /\ rewrites < adapter.rewrites /\ rewrites' = rewrites + 1
  /\ \E r \in Rewrites : BeginWrite(f, 0, r)
  /\ Goto(f, "rewrite")
  /\ UNCHANGED <<adapter, virtual, mappings, hw, loop, faults, rebalances, disturbed>>

(* e1000_update_nvm_checksum_generic once its loop has the sum.            *)
StoreChecksum(f) ==
  /\ pc[f] = "store" /\ Goto(f, "stored")
  /\ BeginWrite(f, CHECKSUM_REG, <<(SUM + Pow2[WordBits] - loop[f].sum) % Pow2[WordBits]>>)
  /\ UNCHANGED <<adapter, virtual, mappings, hw, loop, faults, rewrites, rebalances, disturbed>>

WriteEnds(f) ==
  /\ pc[f] \in {"rewrite", "stored"} /\ Quiet(f) /\ Idle(f)
  /\ Goto(f, CASE status[f] = "error" -> "dirty"
               [] pc[f] = "rewrite"   -> "update"
               [] OTHER               -> "started")
  /\ loop' = [loop EXCEPT ![f] = NewLoop]
  /\ UNCHANGED <<adapter, virtual, mappings, hw, faults, rewrites, rebalances, disturbed>>

(* The chip has programmed a word: the starts before it may have read an   *)
(* address or a sum that is no more.                                       *)
NvmChanges ==
  /\ Programmed /\ disturbed' = [f \in Functions |-> TRUE]
  /\ UNCHANGED <<adapter, pc, virtual, mappings, hw, loop, faults, rewrites, rebalances>>

-----------------------------------------------------------------------------
(* IRP_MN_STOP_DEVICE, when resources are rebalanced, goes to the bus      *)
(* driver like any request the shell does not know; nothing is freed.      *)
StopDevice(f) ==
  /\ pc[f] = "started" /\ Quiet(f)
  /\ rebalances < adapter.rebalances /\ rebalances' = rebalances + 1
  /\ Goto(f, "stopped")
  /\ UNCHANGED <<busVars, adapter, virtual, mappings, hw, loop, faults, rewrites, disturbed>>

(* Mutant: only what a successful start has mapped is unmapped.            *)
RemoveStarted(f) ==
  /\ pc[f] \in {"added", "started", "failed", "stopped", "dirty"} /\ Quiet(f)
  /\ Goto(f, "deleted")
  /\ IF virtual[f] /\ pc[f] = "started"
       THEN /\ mappings' = [mappings EXCEPT ![f] = @ - 1]
            /\ virtual' = [virtual EXCEPT ![f] = FALSE]
       ELSE UNCHANGED <<virtual, mappings>>
  /\ UNCHANGED <<busVars, adapter, hw, loop, faults, rewrites, rebalances, disturbed>>

(* IRP_MN_REMOVE_DEVICE (DispatchPnpStopDevice with FreePciResource).      *)
RemoveDevice(f) ==
  /\ pc[f] \in {"added", "started", "failed", "stopped", "dirty"} /\ Quiet(f)
  /\ Goto(f, "deleted")
  /\ IF virtual[f]
       THEN /\ mappings' = [mappings EXCEPT ![f] = @ - 1]
            /\ virtual' = [virtual EXCEPT ![f] = FALSE]
       ELSE UNCHANGED <<virtual, mappings>>
  /\ UNCHANGED <<busVars, adapter, hw, loop, faults, rewrites, rebalances, disturbed>>

-----------------------------------------------------------------------------
Starts(f) ==
  \/ IdentifyHardware(f) \/ AllocatePciResources(f) \/ SetupInitFuncs(f)
  \/ GetPhyId(f) \/ GetBusInfo(f) \/ ResetHw(f)
  \/ ReadWord(f) \/ AddWord(f) \/ ReadFails(f) \/ LoopEnds(f)

Bus(f) == BusStep(f) /\ UNCHANGED pnpVars
Arbiter(f) == Grant(f) /\ UNCHANGED pnpVars

Next ==
  \/ \E f \in Functions :
       \/ AddDevice(f) \/ StartDevice(f) \/ Starts(f)
       \/ Rewrite(f) \/ StoreChecksum(f) \/ WriteEnds(f)
       \/ StopDevice(f) \/ RemoveDevice(f)
       \/ Bus(f) \/ Arbiter(f)
  \/ NvmChanges

Spec == Init /\ [][Next]_vars

-----------------------------------------------------------------------------
(* Properties.                                                             *)

Places == {"none", "added", "identify", "map", "init", "phy", "phy again", "bus",
           "reset", "validate", "validate again", "address", "started", "failed",
           "rewrite", "update", "store", "stored", "dirty", "stopped", "deleted"}

(* The types of the variables of the shell and of the bus.                 *)
PnpTypeOK ==
  /\ BusTypeOK /\ pc \in [Functions -> Places]
  /\ virtual \in [Functions -> BOOLEAN]
  /\ \A f \in Functions :
       /\ mappings[f] \in 0 .. 1 + rebalances
       /\ loop[f].i \in 0 .. CHECKSUM_REG + 1 /\ loop[f].sum \in Values
       /\ hw[f].addr \in [1 .. 3 -> Values] /\ hw[f].func \in 0 .. 1

ChecksumValid ==
  LET s[k \in 0 .. CHECKSUM_REG + 1] == IF k = 0 THEN 0 ELSE s[k - 1] + words[k - 1]
  IN s[CHECKSUM_REG + 1] % Pow2[WordBits] = SUM

(* A client that had no failure leaves a valid checksum, although a word   *)
(* is read or written at a time and the other function reads in between    *)
(* (e1000_nvm.c:1038-1063).                                                *)
ChecksumKept ==
  \A c \in Clients : pc[c] = "started" /\ timeouts.write = 0 => ChecksumValid

(* A start that succeeded found an adapter it supports and a good          *)
(* checksum, and unless the NVM was rewritten meanwhile (or a write given   *)
(* up keeps the chip busy) the device has the address the NVM holds for    *)
(* its function, different from the other one's                            *)
(* (main.c:540-602, e1000_82540.c:691-718).                                *)
StartedIsSound ==
  \A f \in Functions : pc[f] = "started" =>
    /\ virtual[f] /\ hw[f].ops /\ adapter.family = "82540" /\ adapter.phy
    /\ ~disturbed[f] /\ timeouts.write = 0 =>
         /\ ChecksumValid
         /\ \A k \in {1, 2} : hw[f].addr[k] = words[k - 1]
         /\ \A g \in Functions \ {f} : pc[g] = "started" /\ ~disturbed[g] => hw[f].addr # hw[g].addr

(* The registers are used only while they are mapped, and a removed device *)
(* leaves no mapping, wherever its start failed - unless resources were    *)
(* rebalanced: a second start maps again and forgets the first mapping.    *)
MappingsReturned ==
  \A f \in Functions :
    /\ ~Quiet(f) => virtual[f]
    /\ pc[f] = "deleted" /\ rebalances = 0 => mappings[f] = 0
=============================================================================
