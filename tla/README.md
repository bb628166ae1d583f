# A verification project for netmap-win

The repository holds two Windows drivers: an NDIS 6 miniport for the Realtek
8169 (`src/NDIS/RealtekGiga`) and the beginning of a netmap driver for Intel
e1000 chips (`src/netmap/netmap_e100e`: a WDM shell around Intel's shared
code).  In the first the difficulty is concurrency: sending CPUs, an interrupt
and its DPC, callbacks of NDIS, and a NIC that reads and writes rings in shared
memory, under three spin locks (`Lock`, then `SendLock`, then `RcvLock`) that
are released around every call of NDIS.  In the second it is failure half way
and two parties on one wire: a bit-banged EEPROM shared by two ports, and two
ends of a cable that negotiate.

## Inventory

| Part | State it keeps | Operations | Hard behaviour | What makes it correct | Module |
|---|---|---|---|---|---|
| Receive ring (`recvnew.c`, `NICReturnRBD`, `NICInitRecv`, `NICResetRecv`) | `pMpRbds`, `RecvList`, `CurrentRBD`, `EarlyFreeRbdHint`, OWN bits | take, return, reset | buffers return in any order, the NIC stops at a gap | no gap; the NIC owns only buffers nobody reads | `RecvRing` |
| Receive path (`MPIsr`, `MPHandleInterrupt`, `MpHandleRecvInterrupt`, `MPReturnNetBufferLists`, `MPAllocateComplete`) | `RecvPendList`, `RcvRefCount`, pool size | interrupt, batches, indication, return, growth, pause | lock released while indicating; bounded loop; pause completed by whoever is last | every buffer in one place, pause completes, frames in order, none forgotten | `RecvPath` |
| Send path (`MPSendNetBufferLists`, `MiniportSendNetBufferList`, `MpProcessSGList`, `MpHandleSendInterrupt`) | ring of `MP_TCB`s, ring of TBDs, `SendWaitQueue`, references of each list | send, map, reclaim, dequeue, cancel, abort | lock released for mapping, freeing and completing; mapping and copying fail; reset | order, exact references, each list completed once and after its last use | `SendPath` |
| Reset (`MPReset`, `MpFreeBusySendNetBufferLists`) | flags, all rings | abort, re-initialise | a window with only the send lock | no list lost, interrupts come back | `RecvRing`, `SendPath`, `Requests`, `Lifecycle`, a part each |
| Power and OID requests (`mp_req.c`) | `PendingRequest`, `OutstandingRecv`, `PacketFilter` | query, set, method, set power, cancel | five threads may complete the pended request | completed exactly once; filter and chip agree | `Requests` |
| Link state of the miniport | `MediaState`, `fMP_ADAPTER_NO_CABLE` | link change, hang check, query | read before the lock, stored after it | settles on the truth | `Requests`, `SendPath` |
| Life cycle (`MPInitialize`, `MPHalt`, `MPShutdown`, `mp_init.c`) | resources, reference count, interrupt mask | allocate, free | failure at any step, halt against DPC and allocation | everything returned, nothing used after | `Lifecycle` |
| Hang check (`MPCheckForHang`) | `Count` of each control block | count, ask for a reset | control blocks are reused | a stuck frame is reset, others are not blamed | `Lifecycle` |
| e1000 NVM (`e1000_nvm.c`) | pins of `EECD`, arbitration bits, the words | read, write, validate and update the checksum | two ports on one chip, time-outs | words move as they are | `Microwire` |
| e1000 PHY and MAC (`e1000_phy.c`, `e1000_mac.c`, `e1000_82540.c`) | `e1000_hw`, MAC and PHY registers | set-up, negotiation, link check, flow control | accesses fail, the cable moves, the other end changes | link comes up, flow control agrees | `E1000Pause`, `E1000Link` |
| netmap shell (`main.c`, `e1000_api.c`) | device extension, mappings, function table | AddDevice, start, stop, remove | failure half way | frees what it took, starts only what it supports | `NetmapPnp` |
| Chip registers, statistics values, debug allocation audit, wake-up patterns | | | | not modelled, see below | |

`PROJECT.json` lists every part with its status, and under `hazards` what is
hard to test in this code, at its line.

## Modules

| Module | What it is |
|---|---|
| `RecvRing` | the receive ring, one action per call made under `RcvLock` and one for the NIC |
| `RecvPath` | extends `RecvRing`: interrupt, DPC, returns, pool growth, pause, restart |
| `RecvPathProofs` | the inductive invariants of the ring; the path implements `OperSpec`; accounting, references, pause, order and types for every size |
| `SendPath` | the send side, its faults, pause, cancellation and reset |
| `SendService` | what sending promises: accept or refuse, transmit in order, complete at the end |
| `SendPathProofs` | the ring of control blocks, who holds the lock, the ring of descriptors; lists: exact references, none lost, none completed twice or while in use |
| `SendRefinement` | the refinement mapping from `SendPath` to `SendService` |
| `SendRefinementProofs` | that every step maps to one of `SendService` or to none |
| `Requests` | OID requests, power, packet filter, link state |
| `RequestsProofs` | where a request is, the packet filter, the count of frames, retries |
| `Lifecycle` | initialise, halt, free, interrupts, hang check, reset of one adapter |
| `LifecycleProofs` | who uses the adapter and what is held: its inductive invariants and theorems |
| `E1000Pause` | flow control as pure operators: what is advertised, what is resolved, and the standard |
| `E1000Link` | extends it: two ends of a cable |
| `E1000LinkProofs` | the tables agree for every request and partner; set-up and flow control of the two ends |
| `Microwire` | the EEPROM bus, bit by bit, shared by two functions |
| `MicrowireProofs` | what the routines make of the chip bit by bit, where a call is, who has the EEPROM: a call moves its words |
| `NetmapPnp` | extends `Microwire`: the driver shell and what a start does |
| `NetmapPnpProofs` | where a device is, its mapping, its calls, the checks it has passed, and that what it has read and summed up is what the NVM holds |
| `MC*` | instances for TLC |

**State.**  Variables have the names of the driver's fields.  A pointer to a
hardware descriptor is its index.  A buffer is an element of `Rbds`, a list an
element of `Nbls`, a NET_BUFFER a pair of its list and its number.  Packet data,
lengths, checksums of frames and log output are left out.

**Steps.**  Only what another thread or the hardware can observe is split.  A
section under a lock is one step when it uses the ring once; the loops of the
DPC and of `MPReturnNetBufferLists` take one step per buffer and keep
`RcvLock`, because the NIC runs at the same time.  In `SendPath` and `Requests` a step goes
from one release or acquisition of a lock to the next.  A wait for a lock is a guard
of the step that takes it.  In `E1000Link` a step is a run of register
accesses between which nothing can come that matters, and an access to
the PHY may fail at each of them (`FailsAt`).  In `Microwire` a step is one routine that drives the pins, made of
its writes and reads of `EECD` in order, and the chip reacts to each edge of
the clock.

**NIC.**  `NicReceive` and `NicTransmit` walk their rings and clear OWN bits.  When
no descriptor is the NIC's it stops until the receiver is disabled
and enabled again, which is what `recvnew.c:42-50` says of the chip.

**Life cycle.**  `Lifecycle` has no rings: a send is a control block whose
NET_BUFFER is being mapped (`mapping`; it may fail) or was, a receive buffer is a number.  `InitSteps` are the
allocations of `MPInitialize` in their order and `FreeOrder` those of
`MpFreeAdapter`; any step may fail.  `res` is what the
driver holds and `recorded` what the adapter block says it holds: `MpFreeAdapter` sees only the
second.  NDIS serialises initialise, pause, restart, halt, reset and the
hang check of one adapter.

**EEPROM, PHY, partner.**  They are outside the repository and are modelled from how the code
uses them (`external` in the map): the chip from the commands it is sent, the
PHYs from the registers that are read, a foreign partner from the rules of
IEEE 802.3 annex 28B.

**History variables.**  `arrived` (frames in the receive ring, in order),
`wire` (the last frame sent), `orderly` (the queue was never emptied under a
sender), `seen` (checks that found a frame itself the oldest), `spent` (those that found frames
oldest which had its control block before it and could not be mapped), `result[s].looked` (how the last
check that did look at the link ended), `disturbed` (the NVM changed since a
start began) and `told` are written for properties.

**Mutants.**  Definitions preceded by a comment "Mutant:" are wrong versions of the definition
after them.  No specification uses them; putting one in the place
of the right one makes the property named in `PROJECT.json` fail.

## Runs

| Run | Bounds | What it shows |
|---|---|---|
| `RecvRing_reset` | 4 descriptors, pool of 4 (2 to 4 at start) | the shape of the ring under every order of takes, returns, aborts and chip resets |
| `RecvPath_pause` | 3 descriptors, pool of 2 to 3, batches of 2, 2 batches per DPC | accounting, pause, order, and that the path uses the ring by its operations only (`OperSpec`) |
| `RecvPath_live` | 3 descriptors, 2 buffers, batches of 2 | a pause completes; every frame is handled while no pause comes |
| `SendPath_base` | lists of 2 and 1 NET_BUFFERs, 2 control blocks, up to 2 fragments, link changes, empty mappings | descriptors not shared, references, no use after completion |
| `SendPath_service` | lists of 3 and 1, 2 control blocks | `SendPath` implements `SendService`; every list comes back, unless the driver is parked for good with lists in its queue (`SentUnlessParked`) |
| `SendPath_wake` | the same | violation, see Findings |
| `SendPath_faults` | lists of 2 and 1; mapping and copying fail, mappings are empty, pause, cancel, reset | no list is lost or completed twice |
| `Requests_power` | 1 request, 1 or 2 buffers, 2 filters, the lengths around every boundary, six environments (`MCEnvs`) | one holder and one answer; the chip never has a filter set earlier, with resets too; the link state settles; retries succeed |
| `Requests_lost` | the same | violation, see Findings |
| `Lifecycle_halt` | 2 control blocks, 1 to 3 receive buffers, threshold 1 | everything returned, nothing used after, fair hang check, interrupts come back, a halt ends, a stuck frame is reset |
| `E1000Link_link` | two drivers, or a driver and a foreign station that negotiates or does not; copper, fiber, serdes; 0 to 2 moves of the cable, 0 to 2 failed accesses (`MCScenarios`) | link, flow control, complete set-up |
| `NetmapPnp_start` | both functions of a card, addresses of 3 bits, words of 2, one time-out of each kind, one rewrite, one fault, one rebalance | true transfers, checksum, sound starts, mappings returned |

**Why the bounds are enough.**  In the receive ring the cases are full, empty,
partly full, wrapped, returned out of order: 3 or 4 descriptors have them all,
and the theorems below cover every size.  A batch of 2 with 3
buffers gives pended and RESOURCES frames in one batch, full and partial
batches, and a DPC that stops because of `LoopCount`.  With 2 control
blocks and lists of 2 and 1 NET_BUFFERs a list fits, fits in part and does
not fit, is put back at the head of a queue that has another list, and the
rings wrap many times; `MCLongList` has a list longer than the ring.  One
request at a time is what NDIS allows; the lengths lie just below and at every
length the code compares with, and one above.  In `Lifecycle` the pool grows by two buffers one after the other and
a control block is reused; a threshold of 1 allows one check before the reset, and the proofs cover
every size.  A word of 2 bits and addresses of 3 have a first, a last and a
middle bit and a checksum that wraps; the checksum is word 3 instead of 0x3F, so
that words lie before and after it.  A scenario has the smallest number of
moves and failures for a second negotiation and for a set-up repeated
after it failed half way.  `NIC_MIN_RECV_BUFFERS` and
`MIN_NUM_RECV_BUFFER` are 1 (4 in the driver): only their order
matters.  Buffers are symmetric in the runs without liveness properties.

**Bounds and views in the configurations.**  `ButWire` leaves the history variable
`wire` out of the states of the runs that do not look at it.  `DefinedSoFar` (`SendPath_faults`) explores nothing past
a state in which the driver has used memory that it gave back, has
read through a null pointer, or has emptied the queue under a CPU in the send
loop and the reset is over: what
happens then is undefined or known to be wrong (below).

**Deadlock** is checked where the system cannot stop.  It is off in
`SendPath_faults`, in the runs of `Requests`, in
that of `E1000Link` (a link that is up) and in `NetmapPnp_start` (removed devices).

**Fairness.**  A DPC that is queued runs, a callback or a return
handler that has begun goes on, an enabled interrupt is delivered: weak
fairness.  A spin lock is granted in the end to every CPU that waits
for it: strong fairness for the steps that take `SendLock`.  NDIS returns what it holds
(`NdisReturns`): a protocol that keeps a buffer blocks the pause by design.
`GoodFramesCome`: bad frames do not come at wire speed for ever.  It is needed, because a
dropped frame does not count against the loop's bound (`mp_nic.c:1158`).
No interrupts of other causes are assumed to come: a list queued while another CPU is in the send
loop may wait for ever (`SentIsCompleted`, `SendPath_wake`), and `SentUnlessParked` says that
this is the only way, when no mapping is empty and nothing fails.
`MediaSettles` needs only that NDIS calls `MPCheckForHang`, which it does every two seconds;
no link interrupt is assumed to be delivered.  `Lifecycle` adds that NDIS maps a frame or says that it cannot, completes an
allocation, calls `MPReset` when the hang check asks for it and carries on what
it has called; the NIC owes nothing.  In `E1000Link` a call is
carried on, the client's watchdog calls the link check again and again (the
comment of `e1000_mac.c:701` speaks of it), interrupts are served and the
hardware negotiates; the client need not restart a set-up.  Nothing is live in `NetmapPnp`: an IRP
may never come.

**Assumptions of instances.**  The send runs let NDIS
call `MpProcessSGList` before `NdisMAllocateNetBufferSGList` returns; `Env` with
"async" is the general case.  `GrowthFaults` in `Lifecycle_halt` has a failed
shared memory allocation, not a failed `NICAllocRBD`, which leaks (below).

## Findings

* `Requests_lost`: `MPSetPowerLow` tests `OutstandingRecv` (`mp_req.c:1500`) and
  the caller stores the request afterwards (1241).  If the last frame
  is returned in between nobody completes it, against
  `mp_req.c:1498` "When all the packets are returned later, the driver will complete the request."
* `SendPath_wake`: the DPC leaves the queue alone while a CPU is in the send loop (`mp_nic.c:919`), and that CPU
  does not look at it when it leaves.  If no interrupt follows the queued list waits for ever, against
  `mp_nic.c:912-913` "dequeue and send those packets now, as long as we have free TBDs."

### Known disagreements

These were found while modelling.  The first table can be reproduced with the modules as they are by
checking the formula under the given instance; none has a run.

| Formula | Instance | Code against comment |
|---|---|---|
| `\A i \in Slots : pMpRbds[i] = NULL => ~ OWN[i]` | `RecvRing_reset` | `NICResetRecv` (`mp_nic.c:1791`) leaves OWN bits of descriptors past the ready ones; `recvnew.c:77` "NULL signifies , not used" |
| `EveryReadyRbdHasSlot` | `RecvPath_pause`, a pool of 4 for 3 descriptors (`MaxNumRecvBuffer = 4`) | `MPAllocateComplete` brings in an MP_RBD the ring has no descriptor for, because `NICInitRecv` has halved the ring (`mp_init.c:1396`); ASSERT of `recvnew.c:122-123` |
| `[][DpcStartReceiver => ~ stalled']_pathVars` | `RecvPath_pause` | the NIC that ran dry still has CmdRxEnb set, so `mp_main.c:1687` skips the start; `mp_main.c:1679` "Start the receive unit if it had stopped" |
| `[]<>(dpc = "idle")` under `PathSpec /\ DriverRuns` | `RecvPath_live` | bad frames at wire speed keep the DPC in its loop; `mp_nic.c:1040` "avoid staying here too long" |
| `TbdsApart` | `SendPath_base` with `Env = {"async"}` | `GetNextFreeTBD` (`mp_nic.c:241`) does not advance `NextFreeTbd` |
| `HeadToRemove` | `SendPath_base` with `Env = {"pause"}` | `MPPause` empties the queue while the DPC sends its head; ASSERT of `mp.h:154` |
| `[][XmitNoTcb => \E k \in 1 .. Len(SendWaitQueue') : SendWaitQueue'[k] = xmit.nbl]_sendVars` | same, one fragment | the same race when control blocks run out: the list is in no queue any more; `mp_nic.c:323-325` |
| `AdapterState = "NicPaused" => \A l \in Nbls : owed[l] = 0` | same | a pause returns with sends outstanding; `mp_main.c:518` |
| `xmit.pc # "idle" => owed[xmit.nbl] = 1` | `SendPath_base` with `Env = {}` | the loop reads the next NET_BUFFER (`mp_nic.c:298-299`) of a list the DPC may have completed |
| `dpc = "freeSG" /\ tcb[freed.tcb].inUse => <<freed.tcb, tcb[freed.tcb].nb>> \in maps` | same, one fragment | `pSGList` is read after the lock was released (`mp_nic.c:158-165`) and may be another frame's |
| `SentUnlessParked` | `SendPath_service` with `Env = {"empty"}` | a frame whose mapping holds no data is not sent and its control block stays at its place in the ring, with nobody looking at the result: it and what comes behind it wait for a reset, as `mp_nic.c:672-678` says itself ("NDIS may wait eternally") |
| `FilterIsSet` | `Requests_power` | a reset clears the receive mode of the chip (`mp_init.c:1804`; the one thing assumed of the chip) and tells NDIS to set the filter again (`mp_main.c:881`); the set is skipped because `PacketFilter` and `OldParameterField` are unchanged (`mp_req.c:1178`, 997); `mp_req.c:926-927` "set up the adapter so that it accepts packets that match the specified packet filter" |
| `CountIsReverted` | `Lifecycle_halt` | a control block whose NET_BUFFER could not be mapped goes back with the `Count` that the hang check gave it meanwhile (`mp_nic.c:386-394`); the next frame starts with it and may be taken for stuck; `mp_nic.c:385` "Revert the State".  `CountIsOfThisFrame` is what does hold |
| `PauseFollowsPartner` | `E1000Link_link` | `get_link_status` is cleared before flow control is configured (`e1000_mac.c:723`); if an access fails in there, every later check returns success at once (708-709) with the flow control of before, PAUSE frames to a partner that ignores them included; `e1000_mac.c:1351-1353` "If auto-negotiation is enabled and did not fail, then we configure flow control based on our link partner" |
| `RefsCounted`, `BusyNblsOwed` | `SendPath_base` with `Env = {"copyfail"}` | when the copy fails (`mp_nic.c:2158` "MpCopyNetBuffer may return 0") the list loses its reference and may be completed, and its control block stays in use for ever, still marked as waiting (2149-2191): the DPC never gets past it |
| `BusyNblsOwed` | `SendPath_base` with `Env = {"cancel"}` | a cancellation completes a list of which a part is with the NIC; `mp_nic.c:1637-1639` |

**Send and reset.**  `MpFreeBusySendNetBufferLists` releases the lock after its
loop (`mp_nic.c:1749`); a control block allocated there is zeroed while `nBusySend` stays, so
the ring is out of shape and the list is lost (ASSERT `mp_nic.c:149`).  A mapping callback that comes
after the zeroing reads `pMpTcb->Adapter`, which is NULL (`mp_nic.c:2110`); one that comes before it finds
`NetBuffer` NULL and leaks its list (against `mp_nic.c:2131-2134`); a failed mapping then makes `nBusySend` -1; a
mapping callback in the window also starts the transmitter on descriptors that were given back.
The ASSERT of `mp_nic.c:1704` is false when the ring is full.  A list of which
one NET_BUFFER could not be mapped and another is sent later is reported as a success (`mp_nic.c:875`
against 392-394).

**Receive.**  Frames that come while paused are acknowledged and ignored
(`mp_nic.c:1065`) and wait for the next interrupt after the restart.  A DPC
already in its loop goes on indicating while a pause is pending (`mp_main.c:517-519`).

**Life cycle.**  `MPPause` does not wait for busy sends, so `MPHalt` may free with
`nBusySend` above 0 (ASSERT `mp_init.c:426`; comment `mp_main.c:518`).  `NICResetRecv` relies on a stopped
receiver (`mp_nic.c:1760`), which a DPC in the window of the reset restarts.  A DPC in flight at
`MPShutdown` enables interrupts and the receiver again, and `MPHalt` frees the memory
with the receiver on (comment `mp_main.c:791`).  `MPAllocateComplete` reads the count and releases
`RcvLock` after its `MP_DEC_REF`; `MPHalt` may have freed the adapter by then.  The
failure path of `NICStartRecv` in `MPReset` leaves interrupts disabled; it is reached in low
power only.  When `NICAllocRBD` fails for an added buffer its shared memory is never freed
(`mp_main.c:1516-1519`; comment `mp_main.c:841`): `GrowthFaults = {"memory", "rbd"}`
refutes `EverythingReturned`.  A failed allocation of MDLs or of the list pool leaves `Status` SUCCESS; the status
of the general attributes is ignored; `CSRAddress` is unmapped with the length of the I/O
space; `Flags` are updated without a common lock.

**Requests.**  Two `MPIndicateLinkState` may cross and leave NDIS with the older state.
A link-up completes a pended set-power with SUCCESS while frames are outstanding.
`MPSetPowerD0` restores `OldPacketFilter`, which only `HwConfigure` saves (`mp_init.c:1868`).
`r1000_set_rx_mode` drops AcceptBroadcast when MULTICAST or DIRECTED is set (`linux.init.c:135-144`), and
setting the filter clears the multicast hash.  OID_GEN_MULTICAST_FRAMES_RCV returns
`InMulticastOctets` (`mp_req.c:856-857`); OID_GEN_BYTES_RCV and XMIT are listed as
supported and answered NOT_SUPPORTED.  The link speed of 10 Mbps is stored as 1000
(`mp_nic.c:2270`).  The DPC enables interrupts again right after `MpSetPowerLowComplete` disabled them.

**Link.**  On fiber and serdes "rx_pause" ends with TFCE set when the
hardware negotiates (`e1000_mac.c:1082`), forced links may disagree on flow control (so `PauseAgrees` is about copper), watermarks
are set in the set-up only, and what `e1000_mac.c:745-748` announces is not done.  A failed
configuration of flow control is never retried (`PauseFollowsPartner`, above; so `LinkConverges` asks for no failed
access on copper, and `Settled` for a last look at the link that succeeded).  ASDE is cleared for a forced
mode and never set again.

**NVM and shell.**  After a write that was given up the chip is busy: reads return zeros with
SUCCESS, and writes stay enabled.  Two clients that update through both functions can
leave an invalid checksum (`Clients` has one).  IRP_MN_STOP_DEVICE and a second start forget the
first mapping (`rebalances`); a failing `MmMapIoSpace` overwrites a mapping with NULL; the last
memory descriptor wins; the results of `IdentifyHardware` and `reset_hw` are ignored;
`E1000_WRITE_REG_IO` uses an I/O tag that nothing sets; a remove IRP is completed
after `IoDeleteDevice`.

## Proofs

**Receive ring.**  The first part of `RecvPathProofs` holds for a ring and a pool of every size, from
`RingAssumption` (a positive number of descriptors, a finite set of MP_RBDs,
`NULL` distinct from both) and, where stated, `RingRoom`: no more MP_RBDs than
descriptors.  The code does not guarantee `RingRoom` (second row of the table above).

* `RingShape` is not inductive by itself: `IInv` adds the types and the
  count of MP_RBDs that are not on the list.  Taking removes the first of a contiguous run of
  descriptors; returning appends one at the hint, which is free because the
  run is shorter than the ring (`RingRoom` and a counting lemma); a reset
  renumbers the run from 0.  Holds with resets.
  `RingTypesHold` is the other half of `IInv`.
* `EveryReadyRbdHasSlot` and `HeadSlotIsReady` (the ASSERTs of `recvnew.c:123` and `mp_nic.c:1111`) follow from the shape.
* `NicInSync` (the NIC is c descriptors ahead of the driver, with c at most
  `nReadyRecv`) is inductive with `IInv` as long as the chip is not reset
  (`OperSpec`); `NicOwnsOnlyReady` and `NoGapStopsNic` follow from it.

**Receive path.**  The rest of `RecvPathProofs` does the same for every ring, pool, batch
and `LoopCount`.  Its invariant `PathIInv` has four parts.  `Places` says that the
ready list, the pended MP_RBDs, the batch kept for RESOURCES and the
frame being dropped are disjoint and make up the pool, and that what NDIS holds or
the DPC has yet to indicate is pended.  `Locking` ties the lock to the code that holds it: without it a
return could come between two steps of the DPC's loop.  `PauseState` says how `AdapterState`
and the pause go together, and that a paused adapter has no reference.
`ReceiveRefs` counts the references.  None is inductive without
the others: a step of a paused adapter that would change the count is excluded by the count
itself, and pending a frame counts one more only because it was not
pended before.  From `PathIInv`:

* `RbdsAccountedFor` (by the sizes of disjoint sets), `ReceiveRefs`, `PauseCompletedOnce` and
  `PausedIsQuiet`; none of these needs `RingRoom`.
* `PathImplementsOper`: each step is one ring operation or leaves the ring
  alone, and `DpcStartReceiver` changes nothing because the receiver is on.  So
  `NicOwnsOnlyReady` and `NoGapStopsNic` hold of the path, given `RingRoom`.
* `FramesInOrderHolds` and `PathTypesHold`, given `RingRoom`.  `OrderInv` says where the frames that wait are: the
  batch to be pended, the batch kept for RESOURCES, the frame being dropped, then the ready
  MP_RBDs the NIC has filled are together `arrived`, in this order.  It needs that once a
  frame is kept for RESOURCES all later ones of the batch are (`Batches`): `nReadyRecv` does not grow
  while the DPC holds the lock, except when a dropped frame goes back.

**Life cycle.**  `LifecycleProofs` holds for every number of control blocks, threshold and pool
that `LifecycleAssumption` allows, with both growth faults.  The inductive invariant `LInv` adds to the properties who is
counted (`RefIsUsers`: the adapter itself and a pending allocation, which is why the
event means that both are gone), when a DPC or a reset may exist (`NobodyAtWork`), that a registered
interrupt is recorded in a block that is there (`BlockHeld`), and that an idle control block has the `Count`
of the frames that could not be mapped in it and no other (`CountsAreFresh`; `CountIsOfThisFrame` speaks of busy
ones only, and the next frame takes an idle one).  From it:

* `LifecycleTypeOK`, `CountIsOfThisFrame` and `NeverLeftMasked`.  For the last, `NobodyAtWork`
  gives that the reset enables interrupts at its end, and an ISR that masks them queues its DPC.
* `AllIsReturned` and `NothingGoneInUse`, from `ResourcesKept`: the block records what is held, what a resource was
  made from is held with it, and what `MPInitialize` has passed stays until
  `MpFreeAdapter` (the MDLs and the list pool excepted, whose failure leaves `Status` SUCCESS).
  `AllIsReturned` assumes that `NICAllocRBD` does not fail for an added buffer, because
  then memory leaks (Known disagreements); `NothingGoneInUse` has no such hypothesis.
* `FreedUnused`: when `MpFreeAdapter` begins no DPC, allocation or reference is left (the ASSERTs
  of `mp_init.c:433-434`).

**Requests.**  `RequestsProofs` holds for every set of requests, filters and lengths.
`HeldOnce` speaks of what each thread has in its hands and says nothing of where the
thread is, so it is not inductive.  `ReqInv` adds that a thread has a request exactly at
the places of `HasRequest`, that there is one request at a time (NDIS sends the next when
none is owed, and each taker clears `PendingRequest` in the section of `Lock` in which it reads it),
and where the receive routine returns to.  Each
step leaves the requests alone, takes the pended one or answers one: a lemma for each.

* `HeldOnce` follows from `ReqInv` by the size of a set with at most one element.
* `FilterInStep` has an invariant of its own, true within requests too: skipping an unchanged filter is
  right because `OldParameterField` is written with the register and by nobody else, but for the reset of the
  chip, which clears the register alone.  So the register has the mode of the filter or that of a reset, and
  what it never has is the mode of a filter set earlier.  That NDIS cannot leave the second state by setting
  the filter again is `FilterIsSet`, which fails (Known disagreements).

* `RequestTypesHold`: the types are inductive only with `FramesCounted`, since `OutstandingRecv` is a
  natural number because it is exactly what NDIS has, what a return has yet to count
  and what the two indications with RESOURCES hold.
* `RetryIsGranted`: the last answer is one the code gives (`ReplyIs`), and a retry with the length it
  names succeeds.  The two limits it assumes to be positive are constants of the driver
  (`mp_def.h:113`, `mp_req.c:121`).

**Send path.**  `SendPathProofs`, for every number of lists, NET_BUFFERs, control blocks and fragments.
Each part says of which environments (`Env`) its theorems hold; what is left out is where the
code breaks the property, or where stated the queue's type.

* The control blocks: `RingInv` says that the busy control blocks are the `nBusySend` ones from
  `CurrSendHead`, that each of them has a NET_BUFFER of its list, and that one waiting for its callback
  has no descriptors yet (`Waiting`); `Control` says who has `SendLock` at each place.
  Without `Control` a step of the send loop could meet another CPU's.  `RingEnv` excludes late callbacks together
  with a reset, which frees or zeroes their control blocks (`mp_nic.c:2110`), and
  cancellation: the provers have no facts about `SelectSeq`, which takes the lists out of the queue.  `Sane`: if there are resets, none has emptied the queue under a CPU in the send loop
  (`orderly`); after one the ring is out of shape (Send and reset, above).  `SendTypesHold`
  is `TypeOK` from it.
* The descriptors: `Layout` gives each busy control block an offset into the ring of TBDs, each
  where the one before it ends, the last at `NextFreeTbd`; an offset grows by at most
  `NIC_MAX_PHYS_BUF_COUNT` per control block, so they never come round.  `Owned` adds the place the
  NIC has reached: it owns what lies between it and `NextFreeTbd`, and there are the frames of
  those control blocks.  `TbdsApartHolds` needs that NDIS maps at once (with "async" it is
  false), and `NicOwnsHolds` that there is no reset, which frees frames that the
  NIC has not sent.
* The lists: `ListInv`, of one list at a time, says that its reference count is the number of its
  NET_BUFFERs with a control block, being freed, in the send loop or behind `NextSend` in the queue
  (`Shares`), that a list that NDIS is not owed is nowhere, and that a count of zero is about to be
  completed in exactly one place.  A step leaves most lists alone (`Untouched`), so each case is about the
  list it moves.  From it `RefsCountedHolds`, `CompletedOnceHolds`, `BusyNblsOwedHolds`,
  `OnlyEmptiedQueueTraps` and `NoListLostHolds`, while `orderly` holds, and `SendPathHolds` without that
  condition when there is neither pause nor reset.  The driver does not see to `orderly`: `MPPause` may empty the
  queue under a CPU in the send loop, and what then happens is above (`HeadToRemove`);
  `OnlyEmptiedQueueTraps` says that nothing else leads there.  `BusyNblsOwedHolds` is about control blocks and about
  NET_BUFFERs being freed; the CPU in the send loop may still read a list that was completed
  (`mp_nic.c:298-299`, above).  `ListEnv` excludes cancellation and a failing copy: its control
  block is counted no more and stays in use.  Failed and empty mappings, link changes, pauses and resets are
  included, late callbacks when there is no reset.
* The service: `ServiceHolds` is the refinement, when nothing fails, NDIS maps at once, and
  neither pauses nor resets nor cancels (`ServiceEnv`; the cable and interrupts do what they like).
  What is pending in `SendService` are the frames of the busy control blocks the NIC has not
  sent (`InRing`), then those of the list in the send loop that have none yet (`InLoop`), then those of the
  lists in the queue, without the one the DPC is sending (`InQueue`).  That the first `nSent` control
  blocks are those that are sent comes from `Layout` and `Owned` (`InOrder`), with two more invariants: each
  busy control block has descriptors or is being mapped (`Given`), and the descriptors marked as last
  are those at the end of a frame (`LastTbds`).  A NET_BUFFER goes from the send loop to the ring, a list
  from the queue to the send loop and back to the head of the queue when the ring is full: all three
  leave the concatenation as it is.  A list that is completed is nowhere (`ListInv`), so none of its
  frames is pending.  `InQueue` is flattened by a recursive function of a community module; what it
  returns is proved by induction: a non-empty set of natural numbers has a least element
  (`NatMin`, from the well-foundedness of `<`).

**Link.**  `E1000LinkProofs` first reduces advertising and resolution to the two bits of each side:
for every request and partner nobody sends PAUSE frames to an end that ignores them
(`TwoDriversAgree`, `StandardPartnerAgrees`, `SendsOnlyOnRequest`).  Then, for every set of scenarios that
`E1000Link` allows (any media, partner, request, number of moves of the cable and of failed
accesses), `LinkInv` is inductive.  `Control` says where a driver can be.  On copper, `Asked` says
that a set-up that is done has written to the PHY what the client asked for, `Cabled`
that two PHYs with link have resolved the same negotiation from settings that have not changed
since, and `Flow` that the MAC has the flow control which follows from it, unless an interrupt or
`get_link_status` is pending or the last look at the link has failed (a later check that does not look
returns success; `Flow` goes by the look).  None is inductive alone: `Flow` needs that the
partner's abilities in the PHY are those it advertises now, which `Cabled` has only while
`Asked` keeps both ends from rewriting them.  From `LinkInv`: `LinkTypesHold`, `SetupIsCompleteHolds`,
`PauseAgreesHolds`.

**Microwire.**  `MicrowireProofs` holds for every number of functions, width of addresses and of words that
`MicrowireAssumption` allows, any contents and any number of time-outs.

* *Bits.*  The routines clock their bits in a loop, a function over `0 .. count`.  `FollowsExists` and `FollowsSteps`
  show, by the least number at which it fails, that such a function exists and goes from each value to the
  next by its rule.  With them a value that is shifted out arrives bit by bit (`ShiftedIs`:
  after i bits the register holds the first i), one that is shifted in is the word of the chip (`WordIn`), and
  powers of two multiply (`Pow2Sum`).  From it what each routine makes of the chip (`AddressOut`, `WordIn`, `EnableOut`).
* *Calls.*  A call is a sequence of routines; its `CallPlaces` name what is left of it (`Left`), and each routine leads
  from a place to the next (`OpeningSteps`, `ReadSteps`, `WriteSteps`, `ClosingSteps`).
* *The bus.*  `BusInv` says that each call is at a place (`CallAt`), that one at most was granted the EEPROM
  (`OneGranted`), and that the chip is as that one expects it at its place (`HolderAt`: the part
  of the command it has seen, the words moved so far, whether writes are enabled), or
  deselected, idle and write-protected when nobody drives it (`Free`).  `TransfersAreTrue`
  is the last place of it, and is not inductive: what the release
  finds depends on every bit since the grant.  After a write that was given up
  only the widths of the registers are left of it (`Fits`), which `BusTypeOK` needs in any case.

**netmap shell.**  `NetmapPnpProofs` holds for every number of devices, NVM, time-outs and faults.

* `ShellInv` relates the place of a device to its mapping (`MappedOnce`: while nothing was
  rebalanced, one or none, and none before `AllocatePciResources` or after the removal), to its calls
  (`CallInPlace`: only a device in a loop over words or in a write has something left to
  do) and to what it has found out (`Known`).  `MappingsReturned` speaks of calls and of mappings and
  says nothing of the places between, so it is not inductive without this.
* `TransferInv` is `ShellInv`, the types (`TypedInv`, with a mapping for each start at most) and `BusInv`, which every step
  of the shell keeps because it begins calls within bounds where none is running.
  `TransfersAreTrueHolds` and `PnpTypeOKHolds` follow.
* `SoundInv` says of each device (`Device`) what it relies on at its place: a loop asks for the word at its index;
  the word that came is that of the NVM (`WordIs`), the sum is that of the words before the index modulo
  2^16 (`SumIs`, `Sums`), the checksum that is written is what is missing to the sum
  (`StoredIn`, `MissingIs`), so that it is valid after it (`ValidIs`), and the address is made of the
  first three words (`PermIs`, `AddressIs`).  All but the places hold only of a device that is `Fresh`
  or `Undisturbed`: no write was given up, and since its start nobody else, or nobody at all, rewrote the NVM.
  Before it was proved TLC found no violation of it, on the instance of `NetmapPnp_start` and with two clients.
* `ChecksumKeptHolds` assumes one client (`Clients \subseteq {c}`): with two it is false (Known disagreements).
  `StartedIsSoundHolds` assumes at most two functions, as the 82546 has and `lan_id` expects, which tells
  one function from all others; with three, two would have the same address.

**Only model-checked:**

* liveness under fairness (the pause and the frames of the receive path, `SentUnlessParked`, `MediaSettles`,
  the halt and the hang check of `Lifecycle`, `LinkConverges`): out of the proof system's reach;
* `SendPath` with cancellation, failing copies and late callbacks together with resets, for the
  reasons above; and its refinement of `SendService` with late callbacks or failed or empty mappings.

## Not modelled

* **Shrinking of the receive pool** (`mp_main.c:1171-1184`): cannot be reached.
  `NICReadRegParameters` ends by setting `NumRecvBuffer` to 768
  (`mp_init.c:823`), whatever the registry says, so `MaxNumRecvBuffer` is the same 768
  (`mp_init.c:1160`), the pool stays within it (`AskForMpRbd`), and
  `MPCheckForHang` counts only while the pool is larger (`mp_main.c:725`).
* **Wake-up patterns**: `MPIsPoMgmtSupported` returns FALSE (`mp_req.c:186`).
* **Hardware errors**: nothing sets the flag of the unrecoverable ones, nor `bResetPending` (`mp_nic.c:1996`).
* **The whole reset in one state**: its four parts are checked each in its module; their
  product with the receive path is beyond a small instance.
* **Statistics and attribute values**: what queries copy; the multicast hash; registry parameters.
* **Chip initialisation** (`linux.init.c` but for the receive mode, the register headers) and the
  **debug allocation audit** (`mp_dbg.c`): no interaction.
* **e1000**: the SPI and EERD protocols, the hardware semaphores and the IGP, IFE, BM and HV PHYs
  belong to chips for which the function table has no functions in this
  driver; address filters, VLANs, LEDs, adaptive spacing and the management host interface are
  never called by the shell.
* `main.c` from its `#if 0` (line 738) on is not compiled.
