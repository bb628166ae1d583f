-------------------------- MODULE E1000LinkProofs --------------------------
(***************************************************************************)
(* Why the ends of a copper link agree on flow control although each of    *)
(* them decides alone, from registers it reads one after the other         *)
(* (e1000_phy.c:1150-1206, e1000_mac.c:1410-1510), and why a set-up that   *)
(* says it succeeded has told the PHY all of it.  For every choice of      *)
(* settings, partner, moves of the cable and failing accesses.             *)
(***************************************************************************)
EXTENDS E1000Link, TLAPS

-----------------------------------------------------------------------------
(* The tables of advertising and resolving, for every request and partner. *)

(* What each mode advertises, bit by bit.                                  *)
LEMMA AdvertisedBits ==
  ASSUME NEW m \in Modes
  PROVE  /\ "PAUSE" \in Advertised(m) <=> m \in {"rx_pause", "full"}
         /\ "ASM_DIR" \in Advertised(m) <=> m # "none"
<1>1. CASE m = "none" BY <1>1 DEF Advertised
<1>2. CASE m = "tx_pause" BY <1>2 DEF Advertised
<1>3. CASE m \in {"rx_pause", "full"} BY <1>3 DEF Advertised
<1>. QED BY <1>1, <1>2, <1>3 DEF Modes

(* When the mode that is resolved sends, and when it obeys, by the bits of *)
(* both advertisements.                                                    *)
LEMMA ResolvedBits ==
  ASSUME NEW m \in Modes, NEW local, NEW partner
  PROVE  /\ Sends(Resolved(m, local, partner)) <=>
              \/ "PAUSE" \in local /\ "PAUSE" \in partner /\ m = "full"
              \/ /\ "PAUSE" \notin local /\ "ASM_DIR" \in local
                 /\ "PAUSE" \in partner /\ "ASM_DIR" \in partner
         /\ Obeys(Resolved(m, local, partner)) <=>
              \/ "PAUSE" \in local /\ "PAUSE" \in partner
              \/ /\ "PAUSE" \in local /\ "ASM_DIR" \in local
                 /\ "PAUSE" \notin partner /\ "ASM_DIR" \in partner
<1>1. CASE "PAUSE" \in local /\ "PAUSE" \in partner
  <2>1. Resolved(m, local, partner) = IF m = "full" THEN "full" ELSE "rx_pause"
    BY <1>1 DEF Resolved
  <2>. QED BY <1>1, <2>1 DEF Sends, Obeys
<1>2. CASE /\ "PAUSE" \notin local /\ "ASM_DIR" \in local
           /\ "PAUSE" \in partner /\ "ASM_DIR" \in partner
  <2>1. Resolved(m, local, partner) = "tx_pause"
    BY <1>2 DEF Resolved
  <2>. QED BY <1>2, <2>1 DEF Sends, Obeys
<1>3. CASE /\ "PAUSE" \in local /\ "ASM_DIR" \in local
           /\ "PAUSE" \notin partner /\ "ASM_DIR" \in partner
  <2>1. Resolved(m, local, partner) = "rx_pause"
    BY <1>3 DEF Resolved
  <2>. QED BY <1>3, <2>1 DEF Sends, Obeys
<1>4. CASE /\ ~ ("PAUSE" \in local /\ "PAUSE" \in partner)
           /\ ~ (/\ "PAUSE" \notin local /\ "ASM_DIR" \in local
                 /\ "PAUSE" \in partner /\ "ASM_DIR" \in partner)
           /\ ~ (/\ "PAUSE" \in local /\ "ASM_DIR" \in local
                 /\ "PAUSE" \notin partner /\ "ASM_DIR" \in partner)
  <2>1. Resolved(m, local, partner) = "none"
    BY <1>4 DEF Resolved
  <2>. QED BY <1>4, <2>1 DEF Sends, Obeys
<1>. QED BY <1>1, <1>2, <1>3, <1>4

(* Two adapters of this family, each asked for any mode: neither ends with *)
(* TFCE set while the other ignores PAUSE frames.                          *)
THEOREM TwoDriversAgree ==
  ASSUME NEW m \in Modes, NEW n \in Modes
  PROVE  Sends(Resolved(m, Advertised(m), Advertised(n)))
           => Obeys(Resolved(n, Advertised(n), Advertised(m)))
<1>1. /\ Sends(Resolved(m, Advertised(m), Advertised(n))) <=>
           \/ m = "full" /\ n \in {"rx_pause", "full"}
           \/ m = "tx_pause" /\ n \in {"rx_pause", "full"}
      /\ Obeys(Resolved(n, Advertised(n), Advertised(m))) <=>
           \/ n \in {"rx_pause", "full"} /\ m \in {"rx_pause", "full"}
           \/ n \in {"rx_pause", "full"} /\ m = "tx_pause"
  BY AdvertisedBits, ResolvedBits DEF Modes
<1>. QED BY <1>1

(* The same with a partner that follows IEEE 802.3, whatever it advertises *)
(* and in both directions.                                                 *)
THEOREM StandardPartnerAgrees ==
  ASSUME NEW m \in Modes, NEW partner \in Abilities
  PROVE  /\ Sends(Resolved(m, Advertised(m), partner))
              => StandardObeys(partner, Advertised(m))
         /\ StandardSends(partner, Advertised(m))
              => Obeys(Resolved(m, Advertised(m), partner))
<1>1. "PAUSE" \in Advertised(m) => "ASM_DIR" \in Advertised(m)
  BY AdvertisedBits
<1>. QED BY <1>1, ResolvedBits DEF StandardObeys, StandardSends

(* An adapter that was asked to obey only, or for no flow control, never   *)
(* sends PAUSE frames, though "rx_pause" is advertised like "full":        *)
(* e1000_phy.c:1181, "Later (in e1000_config_fc_after_link_up) we will     *)
(* disable the hw's ability to send PAUSE frames."                         *)
THEOREM SendsOnlyOnRequest ==
  ASSUME NEW m \in Modes, NEW partner \in Abilities
  PROVE  Sends(Resolved(m, Advertised(m), partner)) => Sends(m)
BY AdvertisedBits, ResolvedBits DEF Modes, Sends

-----------------------------------------------------------------------------
(* The sets of values of LinkTypeOK, with names.                           *)
HwSet ==
  [requested : Modes \cup {"default"}, current : Modes,
   autoneg : BOOLEAN, autoneg_advertised : SUBSET Duplexes,
   forced_speed_duplex : Duplexes, mdix : 0 .. 3, autoneg_failed : BOOLEAN,
   get_link_status : BOOLEAN, serdes_has_link : BOOLEAN, txcw : Abilities]
RegSet ==
  [slu : BOOLEAN, frcdpx : BOOLEAN, fd : BOOLEAN, rfce : BOOLEAN,
   tfce : BOOLEAN, lrst : BOOLEAN, ane : BOOLEAN, txcw : Abilities,
   fcrth : BOOLEAN]
PhySet ==
  [adv : Abilities, duplexes : SUBSET Duplexes, aneg : BOOLEAN,
   duplex : Duplexes, pscr : Mdis, mdi : Mdis, up : BOOLEAN,
   complete : BOOLEAN, lp : Abilities, resolved : Duplexes]
PcSet == (Calls \cup {"none"}) \X Places
ResultSet == [Results -> {"none", "ok", "error"}]

(* The type invariant in terms of these sets.                                *)
LEMMA TypeParts ==
  LinkTypeOK <=>
    /\ cable \in BOOLEAN
    /\ hw \in [Stations -> HwSet] /\ reg \in [Stations -> RegSet]
    /\ phy \in [Stations -> PhySet] /\ lsc \in [Stations -> BOOLEAN]
    /\ pc \in [Stations -> PcSet] /\ result \in [Stations -> ResultSet]
    /\ changes \in 0 .. scenario.changes /\ faults \in 0 .. scenario.faults
BY DEF LinkTypeOK, HwSet, RegSet, PhySet, PcSet, ResultSet

(* A move within a call changes the place and not the call.                  *)
LEMMA GotoEffect ==
  ASSUME pc \in [Stations -> PcSet], NEW s \in Stations, NEW p \in Places,
         pc' = [pc EXCEPT ![s][2] = p]
  PROVE  /\ pc'[s] = <<pc[s][1], p>>
         /\ \A x \in Stations \ {s} : pc'[x] = pc[x]
         /\ pc' \in [Stations -> PcSet]
<1>1. pc[s] = <<pc[s][1], pc[s][2]>> /\ pc[s][1] \in Calls \cup {"none"}
  BY DEF PcSet
<1>2. [pc[s] EXCEPT ![2] = p] = <<pc[s][1], p>>
  BY <1>1
<1>3. pc' = [pc EXCEPT ![s] = <<pc[s][1], p>>]
  BY <1>2, Zenon
<1>. QED BY <1>1, <1>3 DEF PcSet

(* What is noted of the end of a call: a check that looked at the link is    *)
(* noted as such.                                                            *)
LEMMA NoteEffect ==
  ASSUME result \in [Stations -> ResultSet], NEW s \in Stations,
         NEW call \in Calls, NEW status \in {"ok", "error"},
         Note(s, call, status)
  PROVE  /\ result' \in [Stations -> ResultSet]
         /\ \A x \in Stations \ {s} : result'[x] = result[x]
         /\ result'[s][call] = status
         /\ call = "check" => /\ result'[s]["looked"] = status
                              /\ result'[s]["setup"] = result[s]["setup"]
         /\ call = "setup" => result'[s]["looked"] = result[s]["looked"]
<1>. DEFINE noted == IF call = "check" THEN {"check", "looked"} ELSE {call}
            v == [c \in Results |-> IF c \in noted THEN status ELSE result[s][c]]
<1>1. result' = [result EXCEPT ![s] = v] BY DEF Note
<1>2. result[s] \in ResultSet OBVIOUS
<1>3. v \in ResultSet BY <1>2 DEF ResultSet
<1>4. /\ v[call] = status
      /\ call = "check" => v["looked"] = status /\ v["setup"] = result[s]["setup"]
      /\ call = "setup" => v["looked"] = result[s]["looked"]
  BY DEF Results, Calls
<1>. HIDE DEF v
<1>. QED BY <1>1, <1>3, <1>4

(* A return leaves the driver idle and the status with the call.             *)
LEMMA ReturnEffect ==
  ASSUME pc \in [Stations -> PcSet], result \in [Stations -> ResultSet],
         NEW s \in Stations, pc[s][1] \in Calls,
         NEW status \in {"ok", "error"}, Return(s, status)
  PROVE  /\ pc'[s] = <<"none", "idle">>
         /\ \A x \in Stations \ {s} : pc'[x] = pc[x] /\ result'[x] = result[x]
         /\ result'[s][pc[s][1]] = status
         /\ pc[s][1] = "check" => /\ result'[s]["looked"] = status
                                  /\ result'[s]["setup"] = result[s]["setup"]
         /\ pc[s][1] = "setup" => result'[s]["looked"] = result[s]["looked"]
         /\ pc' \in [Stations -> PcSet] /\ result' \in [Stations -> ResultSet]
<1>1. pc' = [pc EXCEPT ![s] = <<"none", "idle">>]
  BY DEF Return
<1>2. Note(s, pc[s][1], status) BY DEF Return
<1>. QED BY <1>1, <1>2, NoteEffect DEF PcSet, Places

(* Writing the fields of TXCW and CTRL that forcing a link writes.           *)
LEMMA RegFields ==
  ASSUME NEW r \in RegSet, NEW a \in BOOLEAN, NEW b \in BOOLEAN,
         NEW w \in Abilities, NEW m \in Modes
  PROVE  /\ [r EXCEPT !.slu = a, !.frcdpx = b] \in RegSet
         /\ [r EXCEPT !.frcdpx = a, !.fd = b] \in RegSet
         /\ [r EXCEPT !.fcrth = a] \in RegSet
         /\ [r EXCEPT !.rfce = a, !.tfce = b] \in RegSet
         /\ [r EXCEPT !.txcw = w, !.ane = TRUE, !.lrst = FALSE] \in RegSet
         /\ [r EXCEPT !.ane = FALSE, !.txcw = w, !.slu = TRUE, !.fd = TRUE]
               \in RegSet
         /\ [r EXCEPT !.ane = TRUE, !.txcw = w, !.slu = FALSE] \in RegSet
BY DEF RegSet

-----------------------------------------------------------------------------
(* The inductive invariant, in terms of the values of one station: q is    *)
(* where it is, v what its calls returned, h its struct e1000_hw, r its    *)
(* MAC registers, p its PHY, l its pending interrupt.                      *)

SetupPlaces == {"start", "phy", "media", "poll", "fiber", "wait",
                "watermarks", "force", "status", "abilities", "duplex"}
CheckPlaces == {"clear", "force", "status", "abilities", "duplex"}

(* Where a driver can be, and that a set-up forgets earlier results.       *)
ControlOf(d, q, v) ==
  /\ ~d <=> q = <<"none", "foreign">>
  /\ d => \/ q = <<"none", "idle">>
          \/ q \in {"setup"} \X SetupPlaces
          \/ q \in {"check"} \X CheckPlaces
  /\ q[1] = "setup" => v["setup"] = "none" /\ v["looked"] = "none"

(* The set-up has written the PHY, and since then none has started.        *)
DoneOf(q, v) ==
  \/ v["setup"] = "ok"
  \/ q \in {"setup"} \X {"poll", "force", "status", "abilities", "duplex",
                         "watermarks"}

(* What the PHY has been told agrees with what the client asked for.       *)
WrittenOf(h, r, p) ==
  /\ p.aneg = h.autoneg
  /\ h.autoneg =>
       /\ h.requested \in Modes
       /\ p.mdi = MdiSetting(h.mdix)
       /\ p.adv = Advertised(h.requested)
       /\ p.duplexes = h.autoneg_advertised
       /\ ~r.frcdpx
  /\ ~h.autoneg =>
       /\ p.mdi = "mdi" /\ h.current = "none"
       /\ p.duplex = h.forced_speed_duplex
AskedOf(q, v, h, r, p) ==
  /\ q[2] \notin {"fiber", "wait"}
  /\ q \in {"setup"} \X {"phy", "media"} =>
       h.requested \in Modes /\ h.current = h.requested
  /\ q = <<"setup", "media">> =>
       /\ p.mdi = MdiSetting(h.mdix) /\ p.pscr = p.mdi
       /\ ~r.frcdpx
  /\ DoneOf(q, v) => WrittenOf(h, r, p)
  /\ ~h.autoneg =>
       /\ ~r.tfce
       /\ q[2] \notin {"status", "abilities", "duplex"}
       /\ q # <<"check", "force">>

(* While nothing is pending, the flow control of the MAC is the one that   *)
(* follows from what the two PHYs agreed on.                               *)
Decided(h, p) ==
  IF p.resolved = "half" THEN "none" ELSE Resolved(h.requested, p.adv, p.lp)
FlowOf(q, v, h, r, p, l) ==
  p.up /\ ~l /\ ~h.get_link_status /\ h.autoneg =>
    /\ q = <<"check", "duplex">> =>
         h.current = Resolved(h.requested, p.adv, p.lp)
    /\ q[2] = "idle" /\ v["setup"] = "ok" /\ v["looked"] = "ok" =>
         /\ r.tfce = Sends(Decided(h, p))
         /\ r.rfce = Obeys(Decided(h, p))

(* Two PHYs that have link: p is this one, o the other, and d says that    *)
(* the other's settings have not changed since they negotiated.            *)
LinkOf(p, o, d) ==
  p.up =>
    /\ o.up
    /\ p.aneg =>
         /\ p.complete
         /\ ~o.aneg => p.lp = {}
         /\ o.aneg => p.resolved = o.resolved /\ (d => p.lp = o.adv)

Done(s) == s \in Drivers => DoneOf(pc[s], result[s])

Typed   == scenario \in Scenarios /\ LinkTypeOK
Control == \A s \in Stations : ControlOf(s \in Drivers, pc[s], result[s])
Foreign == \A s \in Stations \ Drivers : phy[s].aneg = (Kind(s) = "auto")
Cabled  == \A s \in Stations : LinkOf(phy[s], phy[Other(s)], Done(Other(s)))
Asked   == \A s \in Drivers :
             AskedOf(pc[s], result[s], hw[s], reg[s], phy[s])
Flow    == \A s \in Drivers :
             FlowOf(pc[s], result[s], hw[s], reg[s], phy[s], lsc[s])

LinkInv == Typed /\ Control /\ Foreign /\ (Copper => Cabled /\ Asked /\ Flow)

-----------------------------------------------------------------------------
(* A step of one driver: what it may change, and what it must keep.        *)

SameConfig(a, b) ==
  /\ a.adv = b.adv /\ a.duplexes = b.duplexes /\ a.aneg = b.aneg
  /\ a.duplex = b.duplex /\ a.pscr = b.pscr /\ a.mdi = b.mdi
SameLink(a, b) ==
  /\ a.up = b.up /\ a.complete = b.complete
  /\ a.lp = b.lp /\ a.resolved = b.resolved

Alone(s) ==
  /\ scenario' = scenario
  /\ \A x \in Stations \ {s} :
       /\ hw'[x] = hw[x] /\ reg'[x] = reg[x]
       /\ pc'[x] = pc[x] /\ result'[x] = result[x]
       /\ SameConfig(phy'[x], phy[x])
       /\ lsc'[x] = lsc[x] \/ ~phy'[x].up
LinkKept(s) ==
  /\ \A x \in Stations :
       SameLink(phy'[x], phy[x]) /\ phy'[x].aneg = phy[x].aneg
  /\ DoneOf(pc'[s], result'[s]) =>
       DoneOf(pc[s], result[s]) /\ phy'[s].adv = phy[s].adv
LinkLost == \A x \in Stations : ~phy'[x].up
LocalStep(s) ==
  /\ Alone(s) /\ LinkTypeOK'
  /\ ControlOf(TRUE, pc'[s], result'[s])
  /\ Copper =>
       /\ LinkLost \/ LinkKept(s)
       /\ AskedOf(pc'[s], result'[s], hw'[s], reg'[s], phy'[s])
       /\ FlowOf(pc'[s], result'[s], hw'[s], reg'[s], phy'[s], lsc'[s])

(* A cable has two ends.                                                     *)
LEMMA Ends ==
  /\ Left \in Stations /\ Right \in Stations /\ Left # Right
  /\ \A s \in Stations : /\ Other(s) \in Stations /\ Other(s) # s
                         /\ Other(Other(s)) = s
                         /\ \A x \in Stations : x = s \/ x = Other(s)
BY LinkAssumption DEF Stations, Other

(* What follows from the scenario stays as it is.                            *)
LEMMA SameScenario ==
  ASSUME scenario' = scenario
  PROVE  /\ Drivers' = Drivers /\ (Copper' <=> Copper)
         /\ \A s \in Stations : Kind(s)' = Kind(s)
BY DEF Drivers, Copper, Kind

(* A step of one driver keeps the invariant if it keeps the part of its own  *)
(* station: the other end sees its PHY lose the link, or does not see        *)
(* anything that it relied on.                                               *)
LEMMA LocalStepKeeps ==
  ASSUME LinkInv, NEW s \in Drivers, LocalStep(s)
  PROVE  LinkInv'
<1>. DEFINE o == Other(s)
<1>0. /\ s \in Stations /\ o \in Stations /\ o # s /\ Other(o) = s
      /\ \A x \in Stations : x = s \/ x = o
  BY Ends DEF Drivers
<1>. HIDE DEF o
<1>1. Alone(s) BY DEF LocalStep
<1>2. /\ Drivers' = Drivers /\ (Copper' <=> Copper)
      /\ \A x \in Stations : Kind(x)' = Kind(x)
  <2>1. scenario' = scenario BY <1>1 DEF Alone
  <2>. QED BY <2>1, SameScenario
<1>3. Typed' BY <1>1 DEF LocalStep, Alone, LinkInv, Typed
<1>4. Control'
  <2>1. ControlOf(s \in Drivers, pc'[s], result'[s])
    <3>1. (s \in Drivers) = TRUE OBVIOUS
    <3>. QED BY <3>1 DEF LocalStep
  <2>2. ControlOf(o \in Drivers, pc'[o], result'[o])
    BY <1>0, <1>1 DEF Alone, LinkInv, Control
  <2>. QED BY <1>0, <1>2, <2>1, <2>2 DEF Control
<1>5. Foreign'
  <2>1. \A x \in Stations \ Drivers : phy'[x].aneg = (Kind(x) = "auto")
    BY <1>0, <1>1 DEF Alone, SameConfig, LinkInv, Foreign
  <2>. QED BY <1>2, <2>1 DEF Foreign
<1>6. ASSUME Copper PROVE Asked'
  <2>1. \A x \in Drivers :
          AskedOf(pc'[x], result'[x], hw'[x], reg'[x], phy'[x])
    <3>1. AskedOf(pc'[s], result'[s], hw'[s], reg'[s], phy'[s])
      BY <1>6 DEF LocalStep
    <3>2. o \in Drivers =>
            AskedOf(pc'[o], result'[o], hw'[o], reg'[o], phy'[o])
      <4>1. o \in Drivers => AskedOf(pc[o], result[o], hw[o], reg[o], phy[o])
        BY <1>6 DEF LinkInv, Asked
      <4>. QED BY <1>0, <1>1, <4>1
             DEF Alone, SameConfig, AskedOf, WrittenOf
    <3>. QED BY <1>0, <3>1, <3>2 DEF Drivers
  <2>. QED BY <1>2, <2>1 DEF Asked
<1>7. ASSUME Copper PROVE Flow'
  <2>0. LinkLost \/ LinkKept(s) BY <1>7 DEF LocalStep
  <2>1. \A x \in Drivers :
          FlowOf(pc'[x], result'[x], hw'[x], reg'[x], phy'[x], lsc'[x])
    <3>1. FlowOf(pc'[s], result'[s], hw'[s], reg'[s], phy'[s], lsc'[s])
      BY <1>7 DEF LocalStep
    <3>2. o \in Drivers =>
            FlowOf(pc'[o], result'[o], hw'[o], reg'[o], phy'[o], lsc'[o])
      <4>1. o \in Drivers =>
              FlowOf(pc[o], result[o], hw[o], reg[o], phy[o], lsc[o])
        BY <1>7 DEF LinkInv, Flow
      <4>2. CASE ~phy'[o].up BY <4>2 DEF FlowOf
      <4>3. CASE phy'[o].up
        <5>1. /\ SameLink(phy'[o], phy[o]) /\ SameConfig(phy'[o], phy[o])
              /\ lsc'[o] = lsc[o] /\ hw'[o] = hw[o] /\ reg'[o] = reg[o]
              /\ pc'[o] = pc[o] /\ result'[o] = result[o]
          BY <1>0, <1>1, <2>0, <4>3 DEF LinkLost, LinkKept, Alone
        <5>2. Decided(hw'[o], phy'[o]) = Decided(hw[o], phy[o])
          BY <5>1 DEF SameLink, SameConfig, Decided
        <5>. QED BY <4>1, <5>1, <5>2 DEF SameLink, SameConfig, FlowOf
      <4>. QED BY <4>2, <4>3
    <3>. QED BY <1>0, <3>1, <3>2 DEF Drivers
  <2>. QED BY <1>2, <2>1 DEF Flow
<1>8. ASSUME Copper PROVE Cabled'
  <2>0. LinkLost \/ LinkKept(s) BY <1>8 DEF LocalStep
  <2>. DEFINE D(x) == x \in Drivers => DoneOf(pc'[x], result'[x])
  <2>1. LinkOf(phy[s], phy[o], Done(o)) /\ LinkOf(phy[o], phy[s], Done(s))
    BY <1>0, <1>8 DEF LinkInv, Cabled, o
  <2>2. LinkOf(phy'[s], phy'[o], D(o)) /\ LinkOf(phy'[o], phy'[s], D(s))
    <3>1. CASE LinkLost BY <1>0, <3>1 DEF LinkLost, LinkOf
    <3>2. CASE LinkKept(s)
      <4>1. /\ SameLink(phy'[s], phy[s]) /\ SameLink(phy'[o], phy[o])
            /\ phy'[s].aneg = phy[s].aneg /\ phy'[o].aneg = phy[o].aneg
            /\ phy'[o].adv = phy[o].adv
        BY <1>0, <1>1, <3>2 DEF LinkKept, Alone, SameConfig
      <4>2. D(o) => Done(o)
        BY <1>0, <1>1 DEF Alone, Done
      <4>3. D(s) => Done(s) /\ phy'[s].adv = phy[s].adv
        BY <3>2 DEF LinkKept, Done
      <4>. HIDE DEF D
      <4>. QED BY <2>1, <4>1, <4>2, <4>3 DEF SameLink, LinkOf
    <3>. QED BY <2>0, <3>1, <3>2
  <2>3. \A x \in Stations : Done(x)' = D(x)
    BY <1>2 DEF Done
  <2>. HIDE DEF D
  <2>4. Other(s) = o BY DEF o
  <2>. QED BY <1>0, <2>2, <2>3, <2>4 DEF Cabled
<1>. QED BY <1>2, <1>3, <1>4, <1>5, <1>6, <1>7, <1>8 DEF LinkInv

-----------------------------------------------------------------------------
(* What the steps of a driver have in common.                              *)

(* Writing the value of one station.                                         *)
LEMMA SetOne ==
  ASSUME NEW S, NEW f \in [Stations -> S], NEW s \in Stations, NEW v \in S
  PROVE  /\ [f EXCEPT ![s] = v] \in [Stations -> S]
         /\ [f EXCEPT ![s] = v][s] = v
         /\ \A x \in Stations \ {s} : [f EXCEPT ![s] = v][x] = f[x]
OBVIOUS

(* Losing the link changes nothing that was written to a PHY.                *)
LEMMA DownEffect ==
  ASSUME NEW p \in [Stations -> PhySet]
  PROVE  /\ Down(p) \in [Stations -> PhySet]
         /\ \A x \in Stations : /\ ~Down(p)[x].up
                                /\ SameConfig(Down(p)[x], p[x])
<1>1. \A x \in Stations : [p[x] EXCEPT !.up = FALSE, !.complete = FALSE]
                            \in PhySet
  BY DEF PhySet
<1>2. \A x \in Stations :
        /\ ~[p[x] EXCEPT !.up = FALSE, !.complete = FALSE].up
        /\ SameConfig([p[x] EXCEPT !.up = FALSE, !.complete = FALSE], p[x])
  BY DEF PhySet, SameConfig
<1>. QED BY <1>1, <1>2 DEF Down

(* The interrupts pending after the link was lost are a flag per station.    *)
LEMMA LostByType ==
  ASSUME lsc \in [Stations -> BOOLEAN], phy \in [Stations -> PhySet]
  PROVE  LostBy(phy) \in [Stations -> BOOLEAN]
BY DEF LostBy, PhySet

(* The crossover field holds a setting of the PHY.                           *)
LEMMA MdiType ==
  ASSUME NEW h \in HwSet
  PROVE  MdiSetting(h.mdix) \in Mdis
BY DEF MdiSetting, Mdis

(* The tables of flow control give modes, bits and abilities.                *)
LEMMA FlowTypes ==
  /\ \A m \in Modes : /\ Sends(m) \in BOOLEAN /\ Obeys(m) \in BOOLEAN
                      /\ Advertised(m) \in Abilities
                      /\ CodeWord(m) \in Abilities
  /\ \A m, a, b : Resolved(m, a, b) \in Modes
  /\ DefaultMode \in Modes
BY DEF Sends, Obeys, Modes, Advertised, CodeWord, Abilities, Resolved,
       DefaultMode

(* The invariant where a driver is known to be.                            *)
LEMMA Where ==
  ASSUME LinkInv, NEW s \in Stations, pc[s][2] # "foreign"
  PROVE  /\ s \in Drivers
         /\ ControlOf(TRUE, pc[s], result[s])
         /\ pc[s] = <<pc[s][1], pc[s][2]>>
         /\ pc[s][2] # "idle" => pc[s][1] \in Calls
         /\ Copper => /\ AskedOf(pc[s], result[s], hw[s], reg[s], phy[s])
                      /\ FlowOf(pc[s], result[s], hw[s], reg[s], phy[s], lsc[s])
                      /\ LinkOf(phy[s], phy[Other(s)], Done(Other(s)))
<1>1. ControlOf(s \in Drivers, pc[s], result[s])
  BY DEF LinkInv, Control
<1>2. s \in Drivers BY <1>1 DEF ControlOf
<1>3. (s \in Drivers) = TRUE BY <1>2
<1>4. ControlOf(TRUE, pc[s], result[s]) BY <1>1, <1>3
<1>5. /\ pc[s] = <<pc[s][1], pc[s][2]>>
      /\ pc[s][2] # "idle" => pc[s][1] \in Calls
  BY <1>4 DEF ControlOf, Calls
<1>. QED BY <1>2, <1>4, <1>5 DEF LinkInv, Asked, Flow, Cabled

(* The types, one by one.                                                    *)
LEMMA Known ==
  ASSUME LinkInv
  PROVE  /\ hw \in [Stations -> HwSet] /\ reg \in [Stations -> RegSet]
         /\ phy \in [Stations -> PhySet] /\ lsc \in [Stations -> BOOLEAN]
         /\ pc \in [Stations -> PcSet] /\ result \in [Stations -> ResultSet]
         /\ cable \in BOOLEAN
         /\ changes \in 0 .. scenario.changes /\ faults \in 0 .. scenario.faults
         /\ scenario.changes \in Nat /\ scenario.faults \in Nat
         /\ scenario \in Scenarios
<1>1. scenario \in Scenarios /\ LinkTypeOK BY DEF LinkInv, Typed
<1>2. scenario.changes \in Nat /\ scenario.faults \in Nat
  BY <1>1, LinkAssumption
<1>. QED BY <1>1, <1>2, TypeParts

(* The type invariant after a step, from the types of its parts.             *)
LEMMA TypedAfter ==
  ASSUME scenario' = scenario, cable' \in BOOLEAN,
         hw' \in [Stations -> HwSet], reg' \in [Stations -> RegSet],
         phy' \in [Stations -> PhySet], lsc' \in [Stations -> BOOLEAN],
         pc' \in [Stations -> PcSet], result' \in [Stations -> ResultSet],
         changes' \in 0 .. scenario.changes, faults' \in 0 .. scenario.faults
  PROVE  LinkTypeOK'
BY DEF LinkTypeOK, HwSet, RegSet, PhySet, PcSet, ResultSet

(* The end of a call of s, failing or not, and a move within it.           *)
LEMMA FailEffect ==
  ASSUME LinkInv, NEW s \in Stations, pc[s][2] \notin {"foreign", "idle"},
         FailsAt(s)
  PROVE  /\ pc'[s] = <<"none", "idle">>
         /\ \A x \in Stations \ {s} : pc'[x] = pc[x] /\ result'[x] = result[x]
         /\ result'[s][pc[s][1]] = "error"
         /\ pc[s][1] = "check" => /\ result'[s]["looked"] = "error"
                                  /\ result'[s]["setup"] = result[s]["setup"]
         /\ pc' \in [Stations -> PcSet] /\ result' \in [Stations -> ResultSet]
         /\ faults' \in 0 .. scenario.faults
<1>1. pc[s][1] \in Calls BY Where
<1>2. Return(s, "error") /\ Fault BY DEF FailsAt
<1>3. faults' \in 0 .. scenario.faults BY <1>2, Known DEF Fault
<1>4. pc \in [Stations -> PcSet] /\ result \in [Stations -> ResultSet]
  BY Known
<1>. QED BY <1>1, <1>2, <1>3, <1>4, ReturnEffect

(* A move within a call, given the invariant.                                *)
LEMMA MoveEffect ==
  ASSUME LinkInv, NEW s \in Stations, NEW p \in Places, Goto(s, p)
  PROVE  /\ pc'[s] = <<pc[s][1], p>> /\ result' = result
         /\ \A x \in Stations \ {s} : pc'[x] = pc[x]
         /\ pc' \in [Stations -> PcSet]
<1>1. pc \in [Stations -> PcSet] BY Known
<1>2. pc' = [pc EXCEPT ![s][2] = p] /\ result' = result BY DEF Goto
<1>. QED BY <1>1, <1>2, GotoEffect

-----------------------------------------------------------------------------
(* The set-up of a copper link.                                            *)

(* e1000_setup_link_generic saves the mode before it uses it.                *)
LEMMA StartSetupStep ==
  ASSUME LinkInv, NEW s \in Stations, StartSetup(s)
  PROVE  s \in Drivers /\ LocalStep(s)
<1>1. pc[s][2] = "start" /\ reg' = reg /\ phy' = phy /\ lsc' = lsc
      /\ scenario' = scenario /\ cable' = cable /\ changes' = changes
  BY DEF StartSetup, At, world
<1>2. s \in Drivers /\ pc[s] = <<"setup", "start">>
      /\ result[s]["setup"] = "none" /\ result[s]["looked"] = "none"
      /\ (Copper => AskedOf(pc[s], result[s], hw[s], reg[s], phy[s]))
  BY <1>1, Where DEF ControlOf, CheckPlaces
<1>3. CASE FailsAt(s) /\ hw' = hw
  <2>1. /\ pc'[s] = <<"none", "idle">> /\ result'[s]["setup"] = "error"
        /\ \A x \in Stations \ {s} : pc'[x] = pc[x] /\ result'[x] = result[x]
        /\ pc' \in [Stations -> PcSet] /\ result' \in [Stations -> ResultSet]
        /\ faults' \in 0 .. scenario.faults
    BY <1>2, <1>3, FailEffect
  <2>2. LinkTypeOK' BY <1>1, <1>3, <2>1, Known, TypedAfter
  <2>3. Alone(s) BY <1>1, <1>3, <2>1 DEF Alone, SameConfig
  <2>4. ControlOf(TRUE, pc'[s], result'[s]) BY <2>1 DEF ControlOf
  <2>5. LinkKept(s) BY <1>1, <2>1 DEF LinkKept, SameLink, DoneOf
  <2>6. Copper => AskedOf(pc'[s], result'[s], hw'[s], reg'[s], phy'[s])
    BY <1>1, <1>2, <1>3, <2>1 DEF AskedOf, DoneOf
  <2>7. FlowOf(pc'[s], result'[s], hw'[s], reg'[s], phy'[s], lsc'[s])
    BY <2>1 DEF FlowOf
  <2>. QED BY <1>2, <2>2, <2>3, <2>4, <2>5, <2>6, <2>7 DEF LocalStep
<1>4. CASE ~FailsAt(s) \/ hw' # hw
  <2>. DEFINE place == IF Copper THEN "phy" ELSE "fiber"
              mode == IF hw[s].requested = "default" THEN DefaultMode
                      ELSE hw[s].requested
              h == [hw[s] EXCEPT !.requested = mode, !.current = mode]
  <2>0. /\ hw' = [hw EXCEPT ![s] = h] /\ Goto(s, place) /\ faults' = faults
    BY <1>4 DEF StartSetup, SetHw
  <2>1. hw \in [Stations -> HwSet] /\ hw[s] \in HwSet BY Known
  <2>2. mode \in Modes
    BY <2>1, FlowTypes DEF HwSet
  <2>3. h \in HwSet /\ h.requested = mode /\ h.current = mode
        /\ h.autoneg = hw[s].autoneg
    <3>. HIDE DEF mode
    <3>. QED BY <2>1, <2>2 DEF HwSet
  <2>. HIDE DEF h
  <2>4. hw' \in [Stations -> HwSet] /\ hw'[s] = h
        /\ \A x \in Stations \ {s} : hw'[x] = hw[x]
    BY <2>0, <2>1, <2>3, SetOne
  <2>5. place \in Places /\ place \in SetupPlaces
        /\ place \in {"phy", "fiber"} /\ (Copper => place = "phy")
    BY DEF Places, SetupPlaces
  <2>. HIDE DEF place, mode
  <2>6. /\ pc'[s] = <<"setup", place>> /\ result' = result
        /\ \A x \in Stations \ {s} : pc'[x] = pc[x]
        /\ pc' \in [Stations -> PcSet]
    BY <1>2, <2>0, <2>5, MoveEffect
  <2>7. LinkTypeOK' BY <1>1, <2>0, <2>4, <2>6, Known, TypedAfter
  <2>8. Alone(s) BY <1>1, <2>4, <2>6 DEF Alone, SameConfig
  <2>9. ControlOf(TRUE, pc'[s], result'[s])
    BY <1>2, <2>5, <2>6 DEF ControlOf
  <2>10. ~DoneOf(pc'[s], result'[s])
    BY <1>2, <2>5, <2>6 DEF DoneOf
  <2>11. LinkKept(s) BY <1>1, <2>10 DEF LinkKept, SameLink
  <2>12. Copper => AskedOf(pc'[s], result'[s], hw'[s], reg'[s], phy'[s])
    BY <1>1, <1>2, <2>2, <2>3, <2>4, <2>5, <2>6, <2>10 DEF AskedOf
  <2>13. FlowOf(pc'[s], result'[s], hw'[s], reg'[s], phy'[s], lsc'[s])
    BY <2>5, <2>6 DEF FlowOf
  <2>. QED BY <1>2, <2>7, <2>8, <2>9, <2>11, <2>12, <2>13 DEF LocalStep
<1>. QED BY <1>3, <1>4

(* The PHY is reset after its control register was written, so that what it  *)
(* works with is what was written, or the set-up fails.                      *)
LEMMA SetupPhyStep ==
  ASSUME LinkInv, NEW s \in Stations, SetupPhy(s)
  PROVE  s \in Drivers /\ LocalStep(s)
<1>. DEFINE r == [reg[s] EXCEPT !.slu = TRUE, !.frcdpx = FALSE]
            p == [phy[s] EXCEPT !.pscr = MdiSetting(hw[s].mdix)]
            w == [phy EXCEPT ![s] = p]
<1>1. pc[s][2] = "phy" /\ reg' = [reg EXCEPT ![s] = r] /\ hw' = hw
      /\ scenario' = scenario /\ cable' = cable /\ changes' = changes
  BY DEF SetupPhy, SetReg, At, world
<1>2. s \in Drivers /\ pc[s] = <<"setup", "phy">>
      /\ result[s]["setup"] = "none" /\ result[s]["looked"] = "none"
      /\ (Copper => AskedOf(pc[s], result[s], hw[s], reg[s], phy[s]))
  BY <1>1, Where DEF ControlOf, CheckPlaces
<1>3. reg \in [Stations -> RegSet] /\ phy \in [Stations -> PhySet]
      /\ hw[s] \in HwSet /\ MdiSetting(hw[s].mdix) \in Mdis
      /\ reg[s] \in RegSet /\ phy[s] \in PhySet /\ lsc \in [Stations -> BOOLEAN]
  BY Known, MdiType
<1>4. r \in RegSet /\ ~r.frcdpx /\ r.tfce = reg[s].tfce
  BY <1>3 DEF RegSet
<1>5. p \in PhySet /\ p.pscr = MdiSetting(hw[s].mdix)
      /\ SameLink(p, phy[s]) /\ p.aneg = phy[s].aneg
  BY <1>3 DEF PhySet, SameLink
<1>6. [phy EXCEPT ![s].pscr = MdiSetting(hw[s].mdix)] = w
  BY Zenon
<1>7. \/ FailsAt(s) /\ phy' \in {phy, w} /\ lsc' = lsc
      \/ /\ phy' = Commit(w, s) /\ lsc' = LostBy(phy)
         /\ Goto(s, "media") /\ faults' = faults
  BY <1>6, Zenon DEF SetupPhy
<1>. HIDE DEF r, p
<1>8. w \in [Stations -> PhySet] /\ w[s] = p
      /\ \A x \in Stations \ {s} : w[x] = phy[x]
  BY <1>3, <1>5, SetOne
<1>. HIDE DEF w
<1>9. reg' \in [Stations -> RegSet] /\ reg'[s] = r
      /\ \A x \in Stations \ {s} : reg'[x] = reg[x]
  BY <1>1, <1>3, <1>4, SetOne
<1>10. CASE FailsAt(s) /\ phy' \in {phy, w} /\ lsc' = lsc
  <2>1. /\ pc'[s] = <<"none", "idle">> /\ result'[s]["setup"] = "error"
        /\ \A x \in Stations \ {s} : pc'[x] = pc[x] /\ result'[x] = result[x]
        /\ pc' \in [Stations -> PcSet] /\ result' \in [Stations -> ResultSet]
        /\ faults' \in 0 .. scenario.faults
    BY <1>2, <1>10, FailEffect
  <2>2. LinkTypeOK' BY <1>1, <1>8, <1>9, <1>10, <2>1, Known, TypedAfter
  <2>3. Alone(s) BY <1>1, <1>8, <1>9, <1>10, <2>1 DEF Alone, SameConfig
  <2>4. ControlOf(TRUE, pc'[s], result'[s]) BY <2>1 DEF ControlOf
  <2>5. LinkKept(s) BY <1>5, <1>8, <1>10, <2>1 DEF LinkKept, SameLink, DoneOf
  <2>6. Copper => AskedOf(pc'[s], result'[s], hw'[s], reg'[s], phy'[s])
    BY <1>1, <1>2, <1>4, <1>9, <2>1 DEF AskedOf, DoneOf
  <2>7. FlowOf(pc'[s], result'[s], hw'[s], reg'[s], phy'[s], lsc'[s])
    BY <2>1 DEF FlowOf
  <2>. QED BY <1>2, <2>2, <2>3, <2>4, <2>5, <2>6, <2>7 DEF LocalStep
<1>11. CASE /\ phy' = Commit(w, s) /\ lsc' = LostBy(phy)
            /\ Goto(s, "media") /\ faults' = faults
  <2>. DEFINE c == [w EXCEPT ![s] = [w[s] EXCEPT !.mdi = w[s].pscr]]
  <2>1. phy' = Down(c) BY <1>11, Zenon DEF Commit
  <2>2. [w[s] EXCEPT !.mdi = w[s].pscr] \in PhySet
        /\ [w[s] EXCEPT !.mdi = w[s].pscr].mdi = p.pscr
        /\ [w[s] EXCEPT !.mdi = w[s].pscr].pscr = p.pscr
    BY <1>5, <1>8 DEF PhySet
  <2>3. c \in [Stations -> PhySet] /\ c[s].mdi = p.pscr /\ c[s].pscr = p.pscr
        /\ \A x \in Stations \ {s} : c[x] = phy[x]
    BY <1>8, <2>2, SetOne
  <2>. HIDE DEF c
  <2>4. phy' \in [Stations -> PhySet] /\ LinkLost
        /\ \A x \in Stations : SameConfig(phy'[x], c[x])
    BY <2>1, <2>3, DownEffect DEF LinkLost
  <2>5. /\ pc'[s] = <<"setup", "media">> /\ result' = result
        /\ \A x \in Stations \ {s} : pc'[x] = pc[x]
        /\ pc' \in [Stations -> PcSet]
    BY <1>2, <1>11, MoveEffect DEF Places
  <2>6. LinkTypeOK'
    BY <1>1, <1>3, <1>9, <1>11, <2>4, <2>5, Known, TypedAfter, LostByType
  <2>7. Alone(s)
    BY <1>1, <1>9, <2>3, <2>4, <2>5 DEF Alone, LinkLost
  <2>8. ControlOf(TRUE, pc'[s], result'[s])
    BY <1>2, <2>5 DEF ControlOf, SetupPlaces
  <2>9. ~DoneOf(pc'[s], result'[s]) BY <1>2, <2>5 DEF DoneOf
  <2>10. phy'[s].mdi = p.pscr /\ phy'[s].pscr = p.pscr
    BY <2>3, <2>4 DEF SameConfig
  <2>11. Copper => AskedOf(pc'[s], result'[s], hw'[s], reg'[s], phy'[s])
    BY <1>1, <1>2, <1>4, <1>5, <1>9, <2>5, <2>9, <2>10 DEF AskedOf
  <2>12. FlowOf(pc'[s], result'[s], hw'[s], reg'[s], phy'[s], lsc'[s])
    BY <2>5 DEF FlowOf
  <2>. QED BY <1>2, <2>4, <2>6, <2>7, <2>8, <2>11, <2>12 DEF LocalStep
<1>. QED BY <1>7, <1>10, <1>11

(* e1000_phy_setup_autoneg writes the advertisement and leaves the rest.     *)
LEMMA AdvertiseEffect ==
  ASSUME LinkInv, NEW s \in Stations, hw[s].current \in Modes
  PROVE  LET w == Advertise(s)
             all == IF hw[s].autoneg_advertised = {} THEN Duplexes
                    ELSE hw[s].autoneg_advertised
         IN /\ w \in [Stations -> PhySet] /\ all \in SUBSET Duplexes
            /\ w[s].adv = Advertised(hw[s].current) /\ w[s].duplexes = all
            /\ w[s].mdi = phy[s].mdi /\ w[s].pscr = phy[s].pscr
            /\ w[s].duplex = phy[s].duplex
            /\ SameLink(w[s], phy[s]) /\ w[s].aneg = phy[s].aneg
            /\ \A x \in Stations \ {s} : w[x] = phy[x]
<1>. DEFINE all == IF hw[s].autoneg_advertised = {} THEN Duplexes
                   ELSE hw[s].autoneg_advertised
            a == Advertised(hw[s].current)
            p == [phy[s] EXCEPT !.adv = a, !.duplexes = all]
<1>1. phy \in [Stations -> PhySet] /\ phy[s] \in PhySet /\ hw[s] \in HwSet
  BY Known
<1>2. all \in SUBSET Duplexes /\ a \in Abilities
  BY <1>1, FlowTypes DEF HwSet
<1>3. Advertise(s) = [phy EXCEPT ![s].adv = a, ![s].duplexes = all]
  BY DEF Advertise
<1>. HIDE DEF a, all
<1>4. p \in PhySet /\ p.adv = a /\ p.duplexes = all /\ p.mdi = phy[s].mdi
      /\ p.pscr = phy[s].pscr /\ p.duplex = phy[s].duplex
      /\ SameLink(p, phy[s]) /\ p.aneg = phy[s].aneg
  BY <1>1, <1>2 DEF PhySet, SameLink
<1>5. Advertise(s) = [phy EXCEPT ![s] = p]
  BY <1>1, <1>3 DEF PhySet
<1>. HIDE DEF p
<1>6. /\ Advertise(s) \in [Stations -> PhySet] /\ Advertise(s)[s] = p
      /\ \A x \in Stations \ {s} : Advertise(s)[x] = phy[x]
  BY <1>1, <1>4, <1>5, SetOne
<1>. QED BY <1>2, <1>4, <1>6 DEF a, all

(* After the restart of negotiation everything is written, and no link is    *)
(* left that was negotiated with the old advertisement.                      *)
LEMMA CopperAutonegStep ==
  ASSUME LinkInv, NEW s \in Stations, CopperAutoneg(s)
  PROVE  s \in Drivers /\ LocalStep(s)
<1>. DEFINE all == IF hw[s].autoneg_advertised = {} THEN Duplexes
                   ELSE hw[s].autoneg_advertised
            w == Advertise(s)
            h1 == [hw[s] EXCEPT !.autoneg_advertised = all]
            h2 == [hw[s] EXCEPT !.autoneg_advertised = all,
                                !.get_link_status = TRUE]
<1>1. pc[s][2] = "media" /\ hw[s].autoneg = TRUE /\ reg' = reg
      /\ scenario' = scenario /\ cable' = cable /\ changes' = changes
  BY Known DEF CopperAutoneg, At, world, HwSet
<1>2. s \in Drivers /\ pc[s] = <<"setup", "media">>
      /\ result[s]["setup"] = "none" /\ result[s]["looked"] = "none"
      /\ (Copper => AskedOf(pc[s], result[s], hw[s], reg[s], phy[s]))
  BY <1>1, Where DEF ControlOf, CheckPlaces
<1>3. hw \in [Stations -> HwSet] /\ phy \in [Stations -> PhySet]
      /\ hw[s] \in HwSet /\ phy[s] \in PhySet /\ lsc \in [Stations -> BOOLEAN]
  BY Known
<1>4. /\ w \in [Stations -> PhySet] /\ all \in SUBSET Duplexes
      /\ w[s].adv = Advertised(hw[s].current) /\ w[s].duplexes = all
      /\ w[s].mdi = phy[s].mdi /\ w[s].pscr = phy[s].pscr
      /\ SameLink(w[s], phy[s]) /\ w[s].aneg = phy[s].aneg
      /\ \A x \in Stations \ {s} : w[x] = phy[x]
  <2>1. hw[s].current \in Modes BY <1>3 DEF HwSet
  <2>. QED BY <2>1, AdvertiseEffect
<1>5. \/ /\ FailsAt(s) /\ phy' \in {phy, w} /\ lsc' = lsc
         /\ hw' = [hw EXCEPT ![s] = h1]
      \/ /\ phy' = Down([w EXCEPT ![s].aneg = TRUE]) /\ lsc' = LostBy(phy)
         /\ hw' = [hw EXCEPT ![s] = h2]
         /\ Goto(s, "poll") /\ faults' = faults
  <2>1. w[s].duplexes = all BY <1>4
  <2>. HIDE DEF all
  <2>. QED BY <2>1, Zenon DEF CopperAutoneg, SetHw
<1>. HIDE DEF w, all
<1>6. /\ h1 \in HwSet /\ h1.autoneg = TRUE
      /\ h2 \in HwSet /\ h2.autoneg = TRUE /\ h2.requested = hw[s].requested
      /\ h2.mdix = hw[s].mdix /\ h2.autoneg_advertised = all
      /\ h2.get_link_status = TRUE
  BY <1>1, <1>3, <1>4 DEF HwSet
<1>. HIDE DEF h1, h2
<1>7. CASE /\ FailsAt(s) /\ phy' \in {phy, w} /\ lsc' = lsc
           /\ hw' = [hw EXCEPT ![s] = h1]
  <2>1. /\ pc'[s] = <<"none", "idle">> /\ result'[s]["setup"] = "error"
        /\ \A x \in Stations \ {s} : pc'[x] = pc[x] /\ result'[x] = result[x]
        /\ pc' \in [Stations -> PcSet] /\ result' \in [Stations -> ResultSet]
        /\ faults' \in 0 .. scenario.faults
    BY <1>2, <1>7, FailEffect
  <2>0. hw' \in [Stations -> HwSet] /\ hw'[s] = h1
        /\ \A x \in Stations \ {s} : hw'[x] = hw[x]
    BY <1>3, <1>6, <1>7, SetOne
  <2>2. LinkTypeOK' BY <1>1, <1>4, <1>7, <2>0, <2>1, Known, TypedAfter
  <2>3. Alone(s) BY <1>1, <1>4, <1>7, <2>0, <2>1 DEF Alone, SameConfig
  <2>4. ControlOf(TRUE, pc'[s], result'[s]) BY <2>1 DEF ControlOf
  <2>5. LinkKept(s) BY <1>4, <1>7, <2>1 DEF LinkKept, SameLink, DoneOf
  <2>6. AskedOf(pc'[s], result'[s], hw'[s], reg'[s], phy'[s])
    BY <1>6, <2>0, <2>1 DEF AskedOf, DoneOf
  <2>7. FlowOf(pc'[s], result'[s], hw'[s], reg'[s], phy'[s], lsc'[s])
    BY <2>1 DEF FlowOf
  <2>. QED BY <1>2, <2>2, <2>3, <2>4, <2>5, <2>6, <2>7 DEF LocalStep
<1>8. CASE /\ phy' = Down([w EXCEPT ![s].aneg = TRUE]) /\ lsc' = LostBy(phy)
           /\ hw' = [hw EXCEPT ![s] = h2]
           /\ Goto(s, "poll") /\ faults' = faults
  <2>. DEFINE p == [w[s] EXCEPT !.aneg = TRUE]
              c == [w EXCEPT ![s] = p]
  <2>1. phy' = Down(c) BY <1>8, Zenon
  <2>2. p \in PhySet /\ p.aneg = TRUE /\ p.adv = w[s].adv
        /\ p.duplexes = w[s].duplexes /\ p.mdi = w[s].mdi
    BY <1>4 DEF PhySet
  <2>. HIDE DEF p
  <2>3. c \in [Stations -> PhySet] /\ c[s] = p
        /\ \A x \in Stations \ {s} : c[x] = phy[x]
    BY <1>4, <2>2, SetOne
  <2>. HIDE DEF c
  <2>4. phy' \in [Stations -> PhySet] /\ LinkLost
        /\ \A x \in Stations : SameConfig(phy'[x], c[x])
    BY <2>1, <2>3, DownEffect DEF LinkLost
  <2>5. /\ pc'[s] = <<"setup", "poll">> /\ result' = result
        /\ \A x \in Stations \ {s} : pc'[x] = pc[x]
        /\ pc' \in [Stations -> PcSet]
    BY <1>2, <1>8, MoveEffect DEF Places
  <2>6. hw' \in [Stations -> HwSet] /\ hw'[s] = h2
        /\ \A x \in Stations \ {s} : hw'[x] = hw[x]
    BY <1>3, <1>6, <1>8, SetOne
  <2>7. LinkTypeOK'
    BY <1>1, <1>3, <1>8, <2>4, <2>5, <2>6, Known, TypedAfter, LostByType
  <2>8. Alone(s)
    BY <1>1, <2>3, <2>4, <2>5, <2>6 DEF Alone, LinkLost
  <2>9. ControlOf(TRUE, pc'[s], result'[s])
    BY <1>2, <2>5 DEF ControlOf, SetupPlaces
  <2>10. ASSUME Copper PROVE WrittenOf(h2, reg[s], phy'[s])
    <3>1. /\ hw[s].requested \in Modes /\ hw[s].current = hw[s].requested
          /\ phy[s].mdi = MdiSetting(hw[s].mdix) /\ ~reg[s].frcdpx
      BY <1>2, <2>10 DEF AskedOf
    <3>2. /\ phy'[s].aneg = TRUE /\ phy'[s].adv = w[s].adv
          /\ phy'[s].duplexes = w[s].duplexes /\ phy'[s].mdi = w[s].mdi
      BY <1>2, <2>2, <2>3, <2>4 DEF SameConfig, Drivers
    <3>3. h2.autoneg = TRUE BY <1>1, <1>6
    <3>. QED BY <1>4, <1>6, <3>1, <3>2, <3>3 DEF WrittenOf
  <2>11. Copper => AskedOf(pc'[s], result'[s], hw'[s], reg'[s], phy'[s])
    BY <1>1, <1>6, <2>5, <2>6, <2>10 DEF AskedOf
  <2>12. FlowOf(pc'[s], result'[s], hw'[s], reg'[s], phy'[s], lsc'[s])
    BY <2>5 DEF FlowOf
  <2>. QED BY <1>2, <2>4, <2>7, <2>8, <2>9, <2>11, <2>12 DEF LocalStep
<1>. QED BY <1>5, <1>7, <1>8

(* What forcing a mode has done to the PHYs after its step n: up to the      *)
(* third the link stays, from then on it is lost.                     *)
LEMMA ForcedEffect ==
  ASSUME LinkInv, NEW s \in Stations, NEW n \in 0 .. 4
  PROVE  LET w == ForcedPhy(s, n) IN
         /\ w \in [Stations -> PhySet]
         /\ \A x \in Stations \ {s} : SameConfig(w[x], phy[x])
         /\ n < 3 => \A x \in Stations :
                       SameLink(w[x], phy[x]) /\ w[x].aneg = phy[x].aneg
         /\ n >= 3 => \A x \in Stations : ~w[x].up
         /\ n = 4 => /\ w[s].aneg = FALSE /\ w[s].mdi = "mdi"
                     /\ w[s].duplex = hw[s].forced_speed_duplex
<1>. DEFINE d == hw[s].forced_speed_duplex
            q1 == [phy[s] EXCEPT !.pscr = "mdi"]
            w1 == [phy EXCEPT ![s] = q1]
            q2 == [w1[s] EXCEPT !.aneg = FALSE, !.duplex = d]
            c2 == [w1 EXCEPT ![s] = q2]
            w2 == Down(c2)
            q3 == [w2[s] EXCEPT !.mdi = w2[s].pscr]
            c3 == [w2 EXCEPT ![s] = q3]
            w3 == Down(c3)
<1>1. phy \in [Stations -> PhySet] /\ phy[s] \in PhySet /\ d \in Duplexes
  <2>1. hw[s] \in HwSet BY Known
  <2>. QED BY <2>1, Known DEF HwSet
<1>. HIDE DEF d
<1>2. q1 \in PhySet /\ q1.pscr = "mdi" /\ SameLink(q1, phy[s])
      /\ q1.aneg = phy[s].aneg
  BY <1>1 DEF PhySet, SameLink, Mdis
<1>3. [phy EXCEPT ![s].pscr = "mdi"] = w1 BY Zenon
<1>. HIDE DEF q1
<1>4. w1 \in [Stations -> PhySet] /\ w1[s] = q1
      /\ \A x \in Stations \ {s} : w1[x] = phy[x]
  BY <1>1, <1>2, SetOne
<1>. HIDE DEF w1
<1>5. q2 \in PhySet /\ q2.pscr = "mdi" /\ q2.aneg = FALSE /\ q2.duplex = d
  BY <1>1, <1>2, <1>4 DEF PhySet
<1>6. [w1 EXCEPT ![s].aneg = FALSE, ![s].duplex = d] = c2
  BY <1>1, <1>4 DEF PhySet
<1>. HIDE DEF q2
<1>7. c2 \in [Stations -> PhySet] /\ c2[s] = q2
      /\ \A x \in Stations \ {s} : c2[x] = phy[x]
  BY <1>4, <1>5, SetOne
<1>. HIDE DEF c2
<1>8. /\ w2 \in [Stations -> PhySet]
      /\ \A x \in Stations : ~w2[x].up /\ SameConfig(w2[x], c2[x])
  BY <1>7, DownEffect
<1>. HIDE DEF w2
<1>9. q3 \in PhySet /\ q3.mdi = "mdi" /\ q3.aneg = FALSE /\ q3.duplex = d
  BY <1>5, <1>7, <1>8 DEF PhySet, SameConfig
<1>10. [w2 EXCEPT ![s].mdi = w2[s].pscr] = c3 BY Zenon
<1>. HIDE DEF q3
<1>11. c3 \in [Stations -> PhySet] /\ c3[s] = q3
       /\ \A x \in Stations \ {s} : c3[x] = w2[x]
  BY <1>8, <1>9, SetOne
<1>. HIDE DEF c3
<1>12. /\ w3 \in [Stations -> PhySet]
       /\ \A x \in Stations : ~w3[x].up /\ SameConfig(w3[x], c3[x])
  BY <1>11, DownEffect
<1>13. /\ n = 0 => ForcedPhy(s, n) = phy
       /\ n = 1 => ForcedPhy(s, n) = w1
       /\ n = 2 => ForcedPhy(s, n) = w1
       /\ n = 3 => ForcedPhy(s, n) = w2
       /\ n = 4 => ForcedPhy(s, n) = w3
  <2>1. Commit(w2, s) = w3 BY <1>10 DEF Commit
  <2>2. Down([w1 EXCEPT ![s].aneg = FALSE, ![s].duplex = d]) = w2
    BY <1>6 DEF w2
  <2>3. ForcedPhy(s, n) =
          LET p1 == IF n >= 1 THEN [phy EXCEPT ![s].pscr = "mdi"] ELSE phy
              p2 == IF n >= 3
                      THEN Down([p1 EXCEPT ![s].aneg = FALSE,
                                           ![s].duplex = d])
                      ELSE p1
          IN IF n >= 4 THEN Commit(p2, s) ELSE p2
    BY DEF ForcedPhy, d
  <2>. HIDE DEF w3
  <2>4. CASE n = 0 BY <2>3, <2>4
  <2>5. CASE n = 1 \/ n = 2
    <3>1. /\ (n >= 1) = TRUE /\ (n >= 3) = FALSE
          /\ (n >= 4) = FALSE
      BY <2>5
    <3>2. n # 0 /\ n # 3 /\ n # 4 BY <2>5
    <3>. QED BY <1>3, <2>3, <2>5, <3>1, <3>2, Zenon
  <2>6. CASE n = 3
    <3>1. /\ (n >= 1) = TRUE /\ (n >= 3) = TRUE
          /\ (n >= 4) = FALSE
      BY <2>6
    <3>2. n # 0 /\ n # 1 /\ n # 2 /\ n # 4 BY <2>6
    <3>3. ForcedPhy(s, n) = Down([[phy EXCEPT ![s].pscr = "mdi"]
                                    EXCEPT ![s].aneg = FALSE, ![s].duplex = d])
      BY <2>3, <3>1, Zenon
    <3>. QED BY <1>3, <2>2, <3>2, <3>3, Zenon
  <2>7. CASE n = 4
    <3>1. /\ (n >= 1) = TRUE /\ (n >= 3) = TRUE
          /\ (n >= 4) = TRUE
      BY <2>7
    <3>2. n # 0 /\ n # 1 /\ n # 2 /\ n # 3 BY <2>7
    <3>3. ForcedPhy(s, n) =
            Commit(Down([[phy EXCEPT ![s].pscr = "mdi"]
                           EXCEPT ![s].aneg = FALSE, ![s].duplex = d]), s)
      BY <2>3, <3>1, Zenon
    <3>. QED BY <1>3, <2>1, <2>2, <3>2, <3>3, Zenon
  <2>. QED BY <2>4, <2>5, <2>6, <2>7
<1>. HIDE DEF w3
<1>14. CASE n = 0 BY <1>1, <1>13, <1>14 DEF SameConfig, SameLink
<1>15. CASE n = 1 \/ n = 2
  <2>1. \A x \in Stations : SameLink(w1[x], phy[x]) /\ w1[x].aneg = phy[x].aneg
    BY <1>2, <1>4 DEF SameLink
  <2>. QED BY <1>4, <1>13, <1>15, <2>1 DEF SameConfig
<1>16. CASE n = 3
  <2>1. \A x \in Stations \ {s} : SameConfig(w2[x], phy[x])
    BY <1>7, <1>8
  <2>. QED BY <1>8, <1>13, <1>16, <2>1
<1>17. CASE n = 4
  <2>1. \A x \in Stations \ {s} : SameConfig(w3[x], phy[x])
    BY <1>7, <1>8, <1>11, <1>12 DEF SameConfig
  <2>2. w3[s].aneg = FALSE /\ w3[s].mdi = "mdi" /\ w3[s].duplex = d
    BY <1>9, <1>11, <1>12 DEF SameConfig
  <2>3. d = hw[s].forced_speed_duplex BY DEF d
  <2>4. ForcedPhy(s, n) = w3 /\ ~(n < 3) BY <1>13, <1>17
  <2>5. w3 \in [Stations -> PhySet] /\ \A x \in Stations : ~w3[x].up
    BY <1>12
  <2>. QED BY <2>1, <2>2, <2>3, <2>4, <2>5, Zenon
<1>18. n = 0 \/ n = 1 \/ n = 2 \/ n = 3 \/ n = 4 OBVIOUS
<1>. QED BY <1>14, <1>15, <1>16, <1>17, <1>18, Zenon

(* Forcing a mode ends without flow control, with link lost.                 *)
LEMMA ForceSpeedDuplexStep ==
  ASSUME LinkInv, NEW s \in Stations, ForceSpeedDuplex(s)
  PROVE  s \in Drivers /\ LocalStep(s)
<1>. DEFINE h == [hw[s] EXCEPT !.current = "none"]
            r == [reg[s] EXCEPT !.frcdpx = TRUE,
                                !.fd = (hw[s].forced_speed_duplex = "full")]
<1>1. pc[s][2] = "media" /\ hw[s].autoneg = FALSE
      /\ scenario' = scenario /\ cable' = cable /\ changes' = changes
  BY Known DEF ForceSpeedDuplex, At, world, HwSet
<1>2. s \in Drivers /\ pc[s] = <<"setup", "media">>
      /\ result[s]["setup"] = "none" /\ result[s]["looked"] = "none"
      /\ (Copper => AskedOf(pc[s], result[s], hw[s], reg[s], phy[s]))
  BY <1>1, Where DEF ControlOf, CheckPlaces
<1>3. hw \in [Stations -> HwSet] /\ reg \in [Stations -> RegSet]
      /\ hw[s] \in HwSet /\ reg[s] \in RegSet
      /\ lsc \in [Stations -> BOOLEAN] /\ phy \in [Stations -> PhySet]
  BY Known
<1>4. PICK n \in 0 .. 4 :
        /\ phy' = ForcedPhy(s, n)
        /\ lsc' = IF n >= 3 THEN LostBy(phy) ELSE lsc
        /\ IF n >= 2
             THEN hw' = [hw EXCEPT ![s] = h] /\ reg' = [reg EXCEPT ![s] = r]
             ELSE hw' = hw /\ reg' = reg
        /\ \/ FailsAt(s)
           \/ n = 4 /\ Goto(s, "poll") /\ faults' = faults
  BY Zenon DEF ForceSpeedDuplex, SetHw, SetReg
<1>5. h \in HwSet /\ h.current = "none" /\ h.autoneg = FALSE
      /\ h.forced_speed_duplex = hw[s].forced_speed_duplex
  BY <1>1, <1>3 DEF HwSet, Modes
<1>6. r \in RegSet /\ r.tfce = reg[s].tfce
  BY <1>3 DEF RegSet
<1>. HIDE DEF h, r
<1>7. /\ phy' \in [Stations -> PhySet]
      /\ \A x \in Stations \ {s} : SameConfig(phy'[x], phy[x])
      /\ n < 3 => \A x \in Stations :
                    SameLink(phy'[x], phy[x]) /\ phy'[x].aneg = phy[x].aneg
      /\ n >= 3 => \A x \in Stations : ~phy'[x].up
      /\ n = 4 => /\ phy'[s].aneg = FALSE /\ phy'[s].mdi = "mdi"
                  /\ phy'[s].duplex = hw[s].forced_speed_duplex
  BY <1>4, ForcedEffect
<1>8. /\ hw' \in [Stations -> HwSet] /\ reg' \in [Stations -> RegSet]
      /\ \A x \in Stations \ {s} : hw'[x] = hw[x] /\ reg'[x] = reg[x]
      /\ hw'[s].autoneg = FALSE /\ reg'[s].tfce = reg[s].tfce
      /\ hw'[s].forced_speed_duplex = hw[s].forced_speed_duplex
      /\ n >= 2 => hw'[s].current = "none"
  <2>1. CASE n >= 2
    <3>1. hw' \in [Stations -> HwSet] /\ hw'[s] = h
          /\ \A x \in Stations \ {s} : hw'[x] = hw[x]
      BY <1>3, <1>4, <1>5, <2>1, SetOne
    <3>2. reg' \in [Stations -> RegSet] /\ reg'[s] = r
          /\ \A x \in Stations \ {s} : reg'[x] = reg[x]
      BY <1>3, <1>4, <1>6, <2>1, SetOne
    <3>. QED BY <1>5, <1>6, <3>1, <3>2
  <2>2. CASE ~(n >= 2) BY <1>1, <1>3, <1>4, <2>2
  <2>. QED BY <2>1, <2>2
<1>9. /\ lsc' \in [Stations -> BOOLEAN]
      /\ \A x \in Stations : lsc'[x] = lsc[x] \/ ~phy'[x].up
  <2>1. LostBy(phy) \in [Stations -> BOOLEAN] BY <1>3, LostByType
  <2>2. CASE n >= 3 BY <1>4, <1>7, <2>1, <2>2
  <2>3. CASE ~(n >= 3) BY <1>3, <1>4, <2>3
  <2>. QED BY <2>2, <2>3
<1>10. CASE FailsAt(s)
  <2>1. /\ pc'[s] = <<"none", "idle">> /\ result'[s]["setup"] = "error"
        /\ \A x \in Stations \ {s} : pc'[x] = pc[x] /\ result'[x] = result[x]
        /\ pc' \in [Stations -> PcSet] /\ result' \in [Stations -> ResultSet]
        /\ faults' \in 0 .. scenario.faults
    BY <1>2, <1>10, FailEffect
  <2>2. LinkTypeOK' BY <1>1, <1>7, <1>8, <1>9, <2>1, Known, TypedAfter
  <2>3. Alone(s) BY <1>1, <1>7, <1>8, <1>9, <2>1 DEF Alone
  <2>4. ControlOf(TRUE, pc'[s], result'[s]) BY <2>1 DEF ControlOf
  <2>5. LinkLost \/ LinkKept(s)
    <3>1. n < 3 => LinkKept(s) BY <1>7, <2>1 DEF LinkKept, DoneOf
    <3>2. n >= 3 => LinkLost BY <1>7 DEF LinkLost
    <3>. QED BY <3>1, <3>2
  <2>6. Copper => AskedOf(pc'[s], result'[s], hw'[s], reg'[s], phy'[s])
    BY <1>1, <1>2, <1>8, <2>1 DEF AskedOf, DoneOf
  <2>7. FlowOf(pc'[s], result'[s], hw'[s], reg'[s], phy'[s], lsc'[s])
    BY <2>1 DEF FlowOf
  <2>. QED BY <1>2, <2>2, <2>3, <2>4, <2>5, <2>6, <2>7 DEF LocalStep
<1>11. CASE n = 4 /\ Goto(s, "poll") /\ faults' = faults
  <2>1. /\ pc'[s] = <<"setup", "poll">> /\ result' = result
        /\ \A x \in Stations \ {s} : pc'[x] = pc[x]
        /\ pc' \in [Stations -> PcSet]
    BY <1>2, <1>11, MoveEffect DEF Places
  <2>2. LinkTypeOK' BY <1>1, <1>7, <1>8, <1>9, <1>11, <2>1, Known, TypedAfter
  <2>3. Alone(s) BY <1>1, <1>7, <1>8, <1>9, <2>1 DEF Alone
  <2>4. ControlOf(TRUE, pc'[s], result'[s])
    BY <1>2, <2>1 DEF ControlOf, SetupPlaces
  <2>5. LinkLost BY <1>7, <1>11 DEF LinkLost
  <2>6. WrittenOf(hw'[s], reg'[s], phy'[s])
    <3>1. /\ phy'[s].aneg = FALSE /\ phy'[s].mdi = "mdi"
          /\ phy'[s].duplex = hw[s].forced_speed_duplex
      BY <1>7, <1>11
    <3>2. /\ hw'[s].autoneg = FALSE /\ hw'[s].current = "none"
          /\ hw'[s].forced_speed_duplex = hw[s].forced_speed_duplex
      BY <1>8, <1>11
    <3>. QED BY <3>1, <3>2 DEF WrittenOf
  <2>7. Copper => AskedOf(pc'[s], result'[s], hw'[s], reg'[s], phy'[s])
    BY <1>1, <1>2, <1>8, <2>1, <2>6 DEF AskedOf
  <2>8. FlowOf(pc'[s], result'[s], hw'[s], reg'[s], phy'[s], lsc'[s])
    BY <2>1 DEF FlowOf
  <2>. QED BY <1>2, <2>2, <2>3, <2>4, <2>5, <2>7, <2>8 DEF LocalStep
<1>. QED BY <1>4, <1>10, <1>11

-----------------------------------------------------------------------------
(* The end of a set-up, and flow control after link up.                    *)

Late == {"poll", "force", "status", "abilities", "duplex", "watermarks"}

(* Once the PHY is written a driver is in a set-up that is done with it, or  *)
(* in a check.                                                               *)
LEMMA LatePlace ==
  ASSUME LinkInv, NEW s \in Stations, pc[s][2] \in Late
  PROVE  /\ s \in Drivers
         /\ pc[s] = <<pc[s][1], pc[s][2]>>
         /\ \/ /\ pc[s][1] = "setup" /\ pc[s] \in {"setup"} \X Late
               /\ result[s]["setup"] = "none" /\ result[s]["looked"] = "none"
               /\ DoneOf(pc[s], result[s])
            \/ /\ pc[s][1] = "check" /\ pc[s] \in {"check"} \X CheckPlaces
         /\ Copper => /\ AskedOf(pc[s], result[s], hw[s], reg[s], phy[s])
                      /\ FlowOf(pc[s], result[s], hw[s], reg[s], phy[s], lsc[s])
                      /\ LinkOf(phy[s], phy[Other(s)], Done(Other(s)))
<1>1. pc[s][2] # "foreign" /\ pc[s][2] # "idle" BY DEF Late
<1>2. /\ s \in Drivers /\ ControlOf(TRUE, pc[s], result[s])
      /\ pc[s] = <<pc[s][1], pc[s][2]>>
      /\ Copper => /\ AskedOf(pc[s], result[s], hw[s], reg[s], phy[s])
                   /\ FlowOf(pc[s], result[s], hw[s], reg[s], phy[s], lsc[s])
                   /\ LinkOf(phy[s], phy[Other(s)], Done(Other(s)))
  BY <1>1, Where
<1>3. \/ pc[s] \in {"setup"} \X SetupPlaces
      \/ pc[s] \in {"check"} \X CheckPlaces
  BY <1>1, <1>2 DEF ControlOf
<1>4. CASE pc[s] \in {"setup"} \X SetupPlaces
  <2>1. pc[s][1] = "setup" /\ pc[s] \in {"setup"} \X Late BY <1>2, <1>4
  <2>. QED BY <1>2, <2>1 DEF ControlOf, DoneOf, Late
<1>5. CASE pc[s] \in {"check"} \X CheckPlaces BY <1>2, <1>5
<1>. QED BY <1>3, <1>4, <1>5

(* A failure there is not a success of the call that it ends.                *)
LEMMA LateFailure ==
  ASSUME LinkInv, NEW s \in Stations, pc[s][2] \in Late, FailsAt(s)
  PROVE  /\ pc'[s] = <<"none", "idle">>
         /\ \A x \in Stations \ {s} : pc'[x] = pc[x] /\ result'[x] = result[x]
         /\ pc' \in [Stations -> PcSet] /\ result' \in [Stations -> ResultSet]
         /\ faults' \in 0 .. scenario.faults
         /\ ControlOf(TRUE, pc'[s], result'[s])
         /\ DoneOf(pc'[s], result'[s]) => DoneOf(pc[s], result[s])
         /\ ~(result'[s]["setup"] = "ok" /\ result'[s]["looked"] = "ok")
<1>1. /\ pc'[s] = <<"none", "idle">>
      /\ \A x \in Stations \ {s} : pc'[x] = pc[x] /\ result'[x] = result[x]
      /\ result'[s][pc[s][1]] = "error"
      /\ pc[s][1] = "check" => /\ result'[s]["looked"] = "error"
                               /\ result'[s]["setup"] = result[s]["setup"]
      /\ pc' \in [Stations -> PcSet] /\ result' \in [Stations -> ResultSet]
      /\ faults' \in 0 .. scenario.faults
  <2>1. pc[s][2] \notin {"foreign", "idle"} BY DEF Late
  <2>. QED BY <2>1, FailEffect
<1>2. ControlOf(TRUE, pc'[s], result'[s]) BY <1>1 DEF ControlOf
<1>3. \/ pc[s][1] = "setup" /\ result'[s]["setup"] = "error"
      \/ /\ pc[s][1] = "check" /\ result'[s]["looked"] = "error"
         /\ result'[s]["setup"] = result[s]["setup"]
  BY <1>1, LatePlace DEF Calls
<1>4. DoneOf(pc'[s], result'[s]) => DoneOf(pc[s], result[s])
  BY <1>1, <1>3 DEF DoneOf
<1>. QED BY <1>1, <1>2, <1>3, <1>4

(* A move there stays within the same call.                                  *)
LEMMA LateMove ==
  ASSUME LinkInv, NEW s \in Stations, pc[s][2] \in Late,
         NEW p \in Late \cap CheckPlaces, Goto(s, p)
  PROVE  /\ pc'[s] = <<pc[s][1], p>> /\ result' = result
         /\ \A x \in Stations \ {s} : pc'[x] = pc[x]
         /\ pc' \in [Stations -> PcSet]
         /\ ControlOf(TRUE, pc'[s], result'[s])
         /\ DoneOf(pc'[s], result'[s]) => DoneOf(pc[s], result[s])
<1>1. /\ pc'[s] = <<pc[s][1], p>> /\ result' = result
      /\ \A x \in Stations \ {s} : pc'[x] = pc[x]
      /\ pc' \in [Stations -> PcSet]
  <2>1. p \in Places BY DEF Late, Places
  <2>. QED BY <2>1, MoveEffect
<1>2. \/ /\ pc[s][1] = "setup" /\ DoneOf(pc[s], result[s])
         /\ result[s]["setup"] = "none" /\ result[s]["looked"] = "none"
      \/ pc[s][1] = "check"
  BY LatePlace
<1>3. ControlOf(TRUE, pc'[s], result'[s])
  BY <1>1, <1>2 DEF ControlOf, Late, SetupPlaces, CheckPlaces
<1>4. DoneOf(pc'[s], result'[s]) => DoneOf(pc[s], result[s])
  BY <1>1, <1>2 DEF DoneOf
<1>. QED BY <1>1, <1>3, <1>4

(* Flow control ends a check, or leads to the end of the set-up.             *)
LEMMA FcDoneEffect ==
  ASSUME LinkInv, NEW s \in Stations, pc[s][2] \in Late, FcDone(s)
  PROVE  /\ \A x \in Stations \ {s} : pc'[x] = pc[x] /\ result'[x] = result[x]
         /\ pc' \in [Stations -> PcSet] /\ result' \in [Stations -> ResultSet]
         /\ ControlOf(TRUE, pc'[s], result'[s])
         /\ DoneOf(pc'[s], result'[s]) => DoneOf(pc[s], result[s])
         /\ \/ pc'[s] = <<"setup", "watermarks">>
            \/ pc[s][1] = "check" /\ pc'[s] = <<"none", "idle">>
<1>1. CASE pc[s][1] = "setup"
  <2>1. Goto(s, "watermarks") BY <1>1 DEF FcDone
  <2>2. /\ pc'[s] = <<"setup", "watermarks">> /\ result' = result
        /\ \A x \in Stations \ {s} : pc'[x] = pc[x]
        /\ pc' \in [Stations -> PcSet]
    BY <1>1, <2>1, MoveEffect DEF Places
  <2>3. /\ result[s]["setup"] = "none" /\ result[s]["looked"] = "none"
        /\ DoneOf(pc[s], result[s])
    BY <1>1, LatePlace
  <2>4. ControlOf(TRUE, pc'[s], result'[s])
    BY <2>2, <2>3 DEF ControlOf, SetupPlaces
  <2>. QED BY <2>2, <2>3, <2>4, Known
<1>2. CASE pc[s][1] = "check"
  <2>1. Return(s, "ok") BY <1>2 DEF FcDone
  <2>2. /\ pc'[s] = <<"none", "idle">>
        /\ \A x \in Stations \ {s} : pc'[x] = pc[x] /\ result'[x] = result[x]
        /\ result'[s]["setup"] = result[s]["setup"]
        /\ pc' \in [Stations -> PcSet] /\ result' \in [Stations -> ResultSet]
    BY <1>2, <2>1, Known, ReturnEffect DEF Calls
  <2>. QED BY <1>2, <2>2 DEF ControlOf, DoneOf
<1>. QED BY <1>1, <1>2, LatePlace

(* Looking for link reads the PHY only.                                      *)
LEMMA PollCopperStep ==
  ASSUME LinkInv, NEW s \in Stations, PollCopper(s)
  PROVE  s \in Drivers /\ LocalStep(s)
<1>1. pc[s][2] = "poll" /\ hw' = hw /\ reg' = reg /\ phy' = phy /\ lsc' = lsc
      /\ scenario' = scenario /\ cable' = cable /\ changes' = changes
  BY DEF PollCopper, At, world
<1>2. /\ s \in Drivers /\ pc[s] = <<"setup", "poll">>
      /\ DoneOf(pc[s], result[s])
      /\ Copper => AskedOf(pc[s], result[s], hw[s], reg[s], phy[s])
  BY <1>1, LatePlace DEF Late, CheckPlaces
<1>3. \/ FailsAt(s)
      \/ /\ Goto(s, IF phy[s].up THEN "force" ELSE "watermarks")
         /\ faults' = faults
  BY DEF PollCopper
<1>4. CASE FailsAt(s)
  <2>1. /\ pc'[s] = <<"none", "idle">>
        /\ \A x \in Stations \ {s} : pc'[x] = pc[x] /\ result'[x] = result[x]
        /\ pc' \in [Stations -> PcSet] /\ result' \in [Stations -> ResultSet]
        /\ faults' \in 0 .. scenario.faults
        /\ ControlOf(TRUE, pc'[s], result'[s])
        /\ ~(result'[s]["setup"] = "ok" /\ result'[s]["looked"] = "ok")
    BY <1>1, <1>4, LateFailure DEF Late
  <2>2. LinkTypeOK' BY <1>1, <2>1, Known, TypedAfter
  <2>3. Alone(s) BY <1>1, <2>1 DEF Alone, SameConfig
  <2>4. LinkKept(s) BY <1>1, <1>2 DEF LinkKept, SameLink
  <2>5. Copper => AskedOf(pc'[s], result'[s], hw'[s], reg'[s], phy'[s])
    BY <1>1, <1>2, <2>1 DEF AskedOf
  <2>6. FlowOf(pc'[s], result'[s], hw'[s], reg'[s], phy'[s], lsc'[s])
    BY <2>1 DEF FlowOf
  <2>. QED BY <1>2, <2>1, <2>2, <2>3, <2>4, <2>5, <2>6 DEF LocalStep
<1>5. CASE /\ Goto(s, IF phy[s].up THEN "force" ELSE "watermarks")
           /\ faults' = faults
  <2>1. PICK p \in {"force", "watermarks"} : Goto(s, p)
    BY <1>5
  <2>2. /\ pc'[s] = <<"setup", p>> /\ result' = result
        /\ \A x \in Stations \ {s} : pc'[x] = pc[x]
        /\ pc' \in [Stations -> PcSet]
    BY <1>2, <2>1, MoveEffect DEF Places
  <2>3. result[s]["setup"] = "none" /\ result[s]["looked"] = "none"
    BY <1>1, <1>2, LatePlace DEF Late
  <2>4. LinkTypeOK' BY <1>1, <1>5, <2>2, Known, TypedAfter
  <2>5. Alone(s) BY <1>1, <2>2 DEF Alone, SameConfig
  <2>6. ControlOf(TRUE, pc'[s], result'[s])
    BY <2>2, <2>3 DEF ControlOf, SetupPlaces
  <2>7. LinkKept(s) BY <1>1, <1>2 DEF LinkKept, SameLink
  <2>8. Copper => AskedOf(pc'[s], result'[s], hw'[s], reg'[s], phy'[s])
    BY <1>1, <1>2, <2>2 DEF AskedOf
  <2>9. FlowOf(pc'[s], result'[s], hw'[s], reg'[s], phy'[s], lsc'[s])
    BY <2>2 DEF FlowOf
  <2>. QED BY <1>2, <2>4, <2>5, <2>6, <2>7, <2>8, <2>9 DEF LocalStep
<1>. QED BY <1>3, <1>4, <1>5

(* A set-up succeeds only where its PHY is written.                          *)
LEMMA SetFcWatermarksStep ==
  ASSUME LinkInv, NEW s \in Stations, SetFcWatermarks(s)
  PROVE  s \in Drivers /\ LocalStep(s)
<1>. DEFINE r == [reg[s] EXCEPT !.fcrth = Sends(hw[s].current)]
<1>1. /\ pc[s][2] = "watermarks" /\ reg' = [reg EXCEPT ![s] = r]
      /\ hw' = hw /\ phy' = phy /\ lsc' = lsc /\ scenario' = scenario
      /\ cable' = cable /\ changes' = changes /\ faults' = faults
      /\ Return(s, "ok")
  BY DEF SetFcWatermarks, SetReg, At, world
<1>2. /\ s \in Drivers /\ pc[s] = <<"setup", "watermarks">>
      /\ result[s]["setup"] = "none" /\ result[s]["looked"] = "none"
      /\ DoneOf(pc[s], result[s])
      /\ Copper => AskedOf(pc[s], result[s], hw[s], reg[s], phy[s])
  BY <1>1, LatePlace DEF Late, CheckPlaces
<1>3. reg \in [Stations -> RegSet] /\ reg[s] \in RegSet /\ hw[s] \in HwSet
  BY Known
<1>4. r \in RegSet /\ r.frcdpx = reg[s].frcdpx /\ r.tfce = reg[s].tfce
  <2>1. Sends(hw[s].current) \in BOOLEAN BY DEF Sends
  <2>. QED BY <1>3, <2>1 DEF RegSet
<1>. HIDE DEF r
<1>5. reg' \in [Stations -> RegSet] /\ reg'[s] = r
      /\ \A x \in Stations \ {s} : reg'[x] = reg[x]
  BY <1>1, <1>3, <1>4, SetOne
<1>6. /\ pc'[s] = <<"none", "idle">>
      /\ \A x \in Stations \ {s} : pc'[x] = pc[x] /\ result'[x] = result[x]
      /\ pc' \in [Stations -> PcSet] /\ result' \in [Stations -> ResultSet]
      /\ result'[s]["looked"] = result[s]["looked"]
  <2>1. pc[s][1] = "setup" /\ pc[s][1] \in Calls BY <1>2 DEF Calls
  <2>2. pc \in [Stations -> PcSet] /\ result \in [Stations -> ResultSet]
    BY Known
  <2>3. /\ pc'[s] = <<"none", "idle">>
        /\ \A x \in Stations \ {s} : pc'[x] = pc[x] /\ result'[x] = result[x]
        /\ result'[s]["looked"] = result[s]["looked"]
        /\ pc' \in [Stations -> PcSet] /\ result' \in [Stations -> ResultSet]
    BY <1>1, <2>1, <2>2, ReturnEffect
  <2>. QED BY <2>1, <2>3
<1>7. LinkTypeOK' BY <1>1, <1>5, <1>6, Known, TypedAfter
<1>8. Alone(s) BY <1>1, <1>5, <1>6 DEF Alone, SameConfig
<1>9. ControlOf(TRUE, pc'[s], result'[s]) BY <1>6 DEF ControlOf
<1>10. LinkKept(s) BY <1>1, <1>2 DEF LinkKept, SameLink
<1>11. Copper => AskedOf(pc'[s], result'[s], hw'[s], reg'[s], phy'[s])
  BY <1>1, <1>2, <1>4, <1>5, <1>6 DEF AskedOf, WrittenOf
<1>12. FlowOf(pc'[s], result'[s], hw'[s], reg'[s], phy'[s], lsc'[s])
  BY <1>2, <1>6 DEF FlowOf
<1>. QED BY <1>2, <1>7, <1>8, <1>9, <1>10, <1>11, <1>12 DEF LocalStep

(* e1000_force_mac_fc_generic writes two bits and no other.                  *)
LEMMA ForceMacFcEffect ==
  ASSUME NEW r \in RegSet, NEW m \in Modes
  PROVE  LET f == ForceMacFc(r, m) IN
         /\ f \in RegSet /\ f.frcdpx = r.frcdpx
         /\ f.tfce = Sends(m) /\ f.rfce = Obeys(m)
<1>1. Sends(m) \in BOOLEAN /\ Obeys(m) \in BOOLEAN BY DEF Sends, Obeys
<1>. QED BY <1>1 DEF ForceMacFc, RegSet

(* Forcing the current mode is not the end of a check that negotiates.       *)
LEMMA ForceCurrentStep ==
  ASSUME LinkInv, NEW s \in Stations, ForceCurrent(s)
  PROVE  s \in Drivers /\ LocalStep(s)
<1>. DEFINE r == ForceMacFc(reg[s], hw[s].current)
<1>1. /\ pc[s][2] = "force" /\ reg' = [reg EXCEPT ![s] = r]
      /\ hw' = hw /\ phy' = phy /\ lsc' = lsc /\ scenario' = scenario
      /\ cable' = cable /\ changes' = changes /\ faults' = faults
      /\ IF hw[s].autoneg THEN Goto(s, "status") ELSE FcDone(s)
  BY DEF ForceCurrent, SetReg, At, world
<1>2. /\ s \in Drivers /\ pc[s] = <<pc[s][1], "force">>
      /\ pc[s][1] = "setup" => DoneOf(pc[s], result[s])
      /\ pc[s][1] = "setup" \/ pc[s] = <<"check", "force">>
      /\ Copper => AskedOf(pc[s], result[s], hw[s], reg[s], phy[s])
  BY <1>1, LatePlace DEF Late
<1>3. reg \in [Stations -> RegSet] /\ reg[s] \in RegSet
      /\ hw[s].current \in Modes
  <2>1. hw[s] \in HwSet BY Known
  <2>. QED BY <2>1, Known DEF HwSet
<1>4. r \in RegSet /\ r.frcdpx = reg[s].frcdpx
      /\ r.tfce = Sends(hw[s].current)
  BY <1>3, ForceMacFcEffect
<1>. HIDE DEF r
<1>5. reg' \in [Stations -> RegSet] /\ reg'[s] = r
      /\ \A x \in Stations \ {s} : reg'[x] = reg[x]
  BY <1>1, <1>3, <1>4, SetOne
<1>6. /\ \A x \in Stations \ {s} : pc'[x] = pc[x] /\ result'[x] = result[x]
      /\ pc' \in [Stations -> PcSet] /\ result' \in [Stations -> ResultSet]
      /\ ControlOf(TRUE, pc'[s], result'[s])
      /\ DoneOf(pc'[s], result'[s]) => DoneOf(pc[s], result[s])
      /\ hw[s].autoneg => pc'[s] = <<pc[s][1], "status">>
      /\ pc'[s][2] \in {"status", "watermarks", "idle"}
      /\ ~hw[s].autoneg => pc'[s][2] # "status"
      /\ pc'[s] # <<"setup", "phy">> /\ pc'[s] # <<"setup", "media">>
  <2>0. pc[s][2] \in Late BY <1>1 DEF Late
  <2>1. CASE hw[s].autoneg
    <3>1. Goto(s, "status") BY <1>1, <2>1
    <3>2. "status" \in Late \cap CheckPlaces BY DEF Late, CheckPlaces
    <3>3. /\ pc'[s] = <<pc[s][1], "status">> /\ result' = result
          /\ \A x \in Stations \ {s} : pc'[x] = pc[x]
          /\ pc' \in [Stations -> PcSet]
          /\ ControlOf(TRUE, pc'[s], result'[s])
          /\ DoneOf(pc'[s], result'[s]) => DoneOf(pc[s], result[s])
      BY <2>0, <3>1, <3>2, LateMove
    <3>4. result \in [Stations -> ResultSet] BY Known
    <3>5. pc'[s][2] = "status" BY <3>3
    <3>6. /\ pc'[s] # <<"setup", "phy">> /\ pc'[s] # <<"setup", "media">>
          /\ pc'[s][2] \in {"status", "watermarks", "idle"}
      BY <3>5
    <3>7. \A x \in Stations \ {s} : pc'[x] = pc[x] /\ result'[x] = result[x]
      BY <3>3
    <3>8. result' \in [Stations -> ResultSet] BY <3>3, <3>4
    <3>. QED BY <2>1, <3>3, <3>6, <3>7, <3>8, Zenon
  <2>2. CASE ~hw[s].autoneg
    <3>1. FcDone(s) BY <1>1, <2>2
    <3>2. /\ \A x \in Stations \ {s} : pc'[x] = pc[x] /\ result'[x] = result[x]
          /\ pc' \in [Stations -> PcSet] /\ result' \in [Stations -> ResultSet]
          /\ ControlOf(TRUE, pc'[s], result'[s])
          /\ DoneOf(pc'[s], result'[s]) => DoneOf(pc[s], result[s])
          /\ pc'[s] = <<"setup", "watermarks">> \/ pc'[s] = <<"none", "idle">>
      BY <2>0, <3>1, FcDoneEffect
    <3>3. pc'[s][2] = "watermarks" \/ pc'[s][2] = "idle" BY <3>2
    <3>4. /\ pc'[s] # <<"setup", "phy">> /\ pc'[s] # <<"setup", "media">>
          /\ pc'[s][2] \in {"status", "watermarks", "idle"}
          /\ pc'[s][2] # "status"
      BY <3>3
    <3>. QED BY <2>2, <3>2, <3>4, Zenon
  <2>. QED BY <2>1, <2>2
<1>7. LinkTypeOK' BY <1>1, <1>5, <1>6, Known, TypedAfter
<1>8. Alone(s) BY <1>1, <1>5, <1>6 DEF Alone, SameConfig
<1>9. LinkKept(s) BY <1>1, <1>6 DEF LinkKept, SameLink
<1>10. ASSUME Copper
       PROVE  AskedOf(pc'[s], result'[s], hw'[s], reg'[s], phy'[s])
  <2>1. DoneOf(pc'[s], result'[s]) => WrittenOf(hw[s], r, phy[s])
    BY <1>2, <1>4, <1>6, <1>10 DEF AskedOf, WrittenOf
  <2>2. ~hw[s].autoneg => ~r.tfce
    <3>1. ASSUME ~hw[s].autoneg PROVE hw[s].current = "none"
      BY <1>2, <1>10, <3>1 DEF AskedOf, WrittenOf
    <3>. QED BY <1>4, <3>1 DEF Sends
  <2>3. /\ pc'[s] \notin {"setup"} \X {"phy", "media"}
        /\ pc'[s][2] \notin {"fiber", "wait"}
    BY <1>6
  <2>4. ~hw[s].autoneg => /\ pc'[s][2] \notin {"status", "abilities", "duplex"}
                          /\ pc'[s] # <<"check", "force">>
    BY <1>6
  <2>. QED BY <1>1, <1>5, <2>1, <2>2, <2>3, <2>4 DEF AskedOf
<1>11. FlowOf(pc'[s], result'[s], hw'[s], reg'[s], phy'[s], lsc'[s])
  BY <1>1, <1>6 DEF FlowOf
<1>. QED BY <1>2, <1>6, <1>7, <1>8, <1>9, <1>10, <1>11 DEF LocalStep

(* A check ends early only without link: a PHY with link that negotiates has *)
(* completed it.                                                             *)
LEMMA ReadAutonegStatusStep ==
  ASSUME LinkInv, NEW s \in Stations, ReadAutonegStatus(s)
  PROVE  s \in Drivers /\ LocalStep(s)
<1>1. /\ pc[s][2] = "status" /\ hw' = hw /\ reg' = reg /\ phy' = phy
      /\ lsc' = lsc /\ scenario' = scenario /\ cable' = cable
      /\ changes' = changes
  BY DEF ReadAutonegStatus, At, world
<1>2. /\ s \in Drivers /\ pc[s] = <<pc[s][1], "status">>
      /\ pc[s][2] \in Late
      /\ Copper => /\ AskedOf(pc[s], result[s], hw[s], reg[s], phy[s])
                   /\ LinkOf(phy[s], phy[Other(s)], Done(Other(s)))
  BY <1>1, LatePlace DEF Late
<1>3. /\ \A x \in Stations \ {s} : pc'[x] = pc[x] /\ result'[x] = result[x]
      /\ pc' \in [Stations -> PcSet] /\ result' \in [Stations -> ResultSet]
      /\ faults' \in 0 .. scenario.faults
      /\ ControlOf(TRUE, pc'[s], result'[s])
      /\ DoneOf(pc'[s], result'[s]) => DoneOf(pc[s], result[s])
      /\ pc'[s][2] \in {"abilities", "watermarks", "idle"}
      /\ \/ pc'[s][2] # "idle" \/ ~phy[s].complete
         \/ ~(result'[s]["setup"] = "ok" /\ result'[s]["looked"] = "ok")
  <2>1. CASE FailsAt(s)
    <3>1. /\ pc'[s] = <<"none", "idle">>
          /\ \A x \in Stations \ {s} : pc'[x] = pc[x] /\ result'[x] = result[x]
          /\ pc' \in [Stations -> PcSet] /\ result' \in [Stations -> ResultSet]
          /\ faults' \in 0 .. scenario.faults
          /\ ControlOf(TRUE, pc'[s], result'[s])
          /\ DoneOf(pc'[s], result'[s]) => DoneOf(pc[s], result[s])
          /\ ~(result'[s]["setup"] = "ok" /\ result'[s]["looked"] = "ok")
      BY <1>2, <2>1, LateFailure
    <3>2. pc'[s][2] = "idle" BY <3>1
    <3>. QED BY <3>1, <3>2
  <2>2. CASE ~FailsAt(s) /\ phy[s].complete
    <3>1. Goto(s, "abilities") /\ faults' = faults
      BY <2>2 DEF ReadAutonegStatus
    <3>2. "abilities" \in Late \cap CheckPlaces BY DEF Late, CheckPlaces
    <3>3. /\ pc'[s] = <<pc[s][1], "abilities">> /\ result' = result
          /\ \A x \in Stations \ {s} : pc'[x] = pc[x]
          /\ pc' \in [Stations -> PcSet]
          /\ ControlOf(TRUE, pc'[s], result'[s])
          /\ DoneOf(pc'[s], result'[s]) => DoneOf(pc[s], result[s])
      BY <1>2, <3>1, <3>2, LateMove
    <3>4. result \in [Stations -> ResultSet] /\ faults \in 0 .. scenario.faults
      BY Known
    <3>5. pc'[s][2] = "abilities" BY <3>3
    <3>. QED BY <3>1, <3>3, <3>4, <3>5
  <2>3. CASE ~FailsAt(s) /\ ~phy[s].complete
    <3>1. FcDone(s) /\ faults' = faults
      BY <2>3 DEF ReadAutonegStatus
    <3>2. /\ \A x \in Stations \ {s} : pc'[x] = pc[x] /\ result'[x] = result[x]
          /\ pc' \in [Stations -> PcSet] /\ result' \in [Stations -> ResultSet]
          /\ ControlOf(TRUE, pc'[s], result'[s])
          /\ DoneOf(pc'[s], result'[s]) => DoneOf(pc[s], result[s])
          /\ pc'[s] = <<"setup", "watermarks">> \/ pc'[s] = <<"none", "idle">>
      BY <1>2, <3>1, FcDoneEffect
    <3>3. pc'[s][2] = "watermarks" \/ pc'[s][2] = "idle" BY <3>2
    <3>4. faults' \in 0 .. scenario.faults BY <3>1, Known
    <3>. QED BY <2>3, <3>2, <3>3, <3>4
  <2>. QED BY <2>1, <2>2, <2>3
<1>4. LinkTypeOK' BY <1>1, <1>3, Known, TypedAfter
<1>5. Alone(s) BY <1>1, <1>3 DEF Alone, SameConfig
<1>6. LinkKept(s) BY <1>1, <1>3 DEF LinkKept, SameLink
<1>7. ASSUME Copper
      PROVE  AskedOf(pc'[s], result'[s], hw'[s], reg'[s], phy'[s])
  <2>1. hw[s].autoneg BY <1>1, <1>2, <1>7 DEF AskedOf
  <2>2. pc'[s] \notin {"setup"} \X {"phy", "media"} BY <1>3
  <2>. QED BY <1>1, <1>2, <1>3, <1>7, <2>1, <2>2 DEF AskedOf
<1>8. ASSUME Copper
      PROVE  FlowOf(pc'[s], result'[s], hw'[s], reg'[s], phy'[s], lsc'[s])
  <2>1. ASSUME phy[s].up, hw[s].autoneg, pc'[s][2] = "idle",
               result'[s]["setup"] = "ok", result'[s]["looked"] = "ok"
        PROVE  FALSE
    <3>1. ~phy[s].complete BY <1>3, <2>1
    <3>2. DoneOf(pc[s], result[s]) BY <1>3, <2>1 DEF DoneOf
    <3>3. phy[s].aneg BY <1>2, <1>8, <2>1, <3>2 DEF AskedOf, WrittenOf
    <3>. QED BY <1>2, <1>8, <2>1, <3>1, <3>3 DEF LinkOf
  <2>. QED BY <1>1, <1>3, <2>1 DEF FlowOf
<1>. QED BY <1>2, <1>3, <1>4, <1>5, <1>6, <1>7, <1>8 DEF LocalStep

(* The mode is resolved from both advertisements.                            *)
LEMMA ReadAbilitiesStep ==
  ASSUME LinkInv, NEW s \in Stations, ReadAbilities(s)
  PROVE  s \in Drivers /\ LocalStep(s)
<1>. DEFINE m == Resolved(hw[s].requested, phy[s].adv, phy[s].lp)
            h == [hw[s] EXCEPT !.current = m]
<1>1. /\ pc[s][2] = "abilities" /\ reg' = reg /\ phy' = phy
      /\ lsc' = lsc /\ scenario' = scenario /\ cable' = cable
      /\ changes' = changes
  BY DEF ReadAbilities, At, world
<1>2. /\ s \in Drivers /\ pc[s] = <<pc[s][1], "abilities">>
      /\ pc[s][2] \in Late
      /\ Copper => AskedOf(pc[s], result[s], hw[s], reg[s], phy[s])
  BY <1>1, LatePlace DEF Late
<1>3. hw \in [Stations -> HwSet] /\ hw[s] \in HwSet /\ m \in Modes
  BY Known, FlowTypes
<1>4. h \in HwSet /\ h.current = m /\ h.autoneg = hw[s].autoneg
      /\ h.requested = hw[s].requested /\ h.mdix = hw[s].mdix
      /\ h.autoneg_advertised = hw[s].autoneg_advertised
      /\ h.get_link_status = hw[s].get_link_status
  <2>. HIDE DEF m
  <2>. QED BY <1>3 DEF HwSet
<1>5. CASE FailsAt(s) /\ hw' = hw
  <2>1. /\ pc'[s] = <<"none", "idle">>
        /\ \A x \in Stations \ {s} : pc'[x] = pc[x] /\ result'[x] = result[x]
        /\ pc' \in [Stations -> PcSet] /\ result' \in [Stations -> ResultSet]
        /\ faults' \in 0 .. scenario.faults
        /\ ControlOf(TRUE, pc'[s], result'[s])
        /\ DoneOf(pc'[s], result'[s]) => DoneOf(pc[s], result[s])
        /\ ~(result'[s]["setup"] = "ok" /\ result'[s]["looked"] = "ok")
    BY <1>2, <1>5, LateFailure
  <2>2. LinkTypeOK' BY <1>1, <1>5, <2>1, Known, TypedAfter
  <2>3. Alone(s) BY <1>1, <1>5, <2>1 DEF Alone, SameConfig
  <2>4. LinkKept(s) BY <1>1, <2>1 DEF LinkKept, SameLink
  <2>5. Copper => AskedOf(pc'[s], result'[s], hw'[s], reg'[s], phy'[s])
    BY <1>1, <1>2, <1>5, <2>1 DEF AskedOf
  <2>6. FlowOf(pc'[s], result'[s], hw'[s], reg'[s], phy'[s], lsc'[s])
    BY <2>1 DEF FlowOf
  <2>. QED BY <1>2, <2>1, <2>2, <2>3, <2>4, <2>5, <2>6 DEF LocalStep
<1>6. CASE hw' = [hw EXCEPT ![s] = h] /\ Goto(s, "duplex") /\ faults' = faults
  <2>1. /\ pc'[s] = <<pc[s][1], "duplex">> /\ result' = result
        /\ \A x \in Stations \ {s} : pc'[x] = pc[x]
        /\ pc' \in [Stations -> PcSet]
        /\ ControlOf(TRUE, pc'[s], result'[s])
        /\ DoneOf(pc'[s], result'[s]) => DoneOf(pc[s], result[s])
    BY <1>2, <1>6, LateMove DEF Late, CheckPlaces
  <2>. HIDE DEF m, h
  <2>2. hw' \in [Stations -> HwSet] /\ hw'[s] = h
        /\ \A x \in Stations \ {s} : hw'[x] = hw[x]
    BY <1>3, <1>4, <1>6, SetOne
  <2>3. LinkTypeOK' BY <1>1, <1>6, <2>1, <2>2, Known, TypedAfter
  <2>4. Alone(s) BY <1>1, <2>1, <2>2 DEF Alone, SameConfig
  <2>5. LinkKept(s) BY <1>1, <2>1 DEF LinkKept, SameLink
  <2>6. ASSUME Copper
        PROVE  AskedOf(pc'[s], result'[s], hw'[s], reg'[s], phy'[s])
    <3>1. hw[s].autoneg BY <1>1, <1>2, <2>6 DEF AskedOf
    <3>2. DoneOf(pc[s], result[s]) => WrittenOf(h, reg[s], phy[s])
      BY <1>2, <1>4, <2>6, <3>1 DEF AskedOf, WrittenOf
    <3>3. pc'[s][2] = "duplex" BY <2>1
    <3>4. /\ pc'[s] \notin {"setup"} \X {"phy", "media"}
          /\ pc'[s][2] \notin {"fiber", "wait"}
      BY <3>3
    <3>5. pc'[s] # <<"setup", "media">> BY <3>3
    <3>. QED BY <1>1, <1>4, <2>1, <2>2, <3>1, <3>2, <3>4, <3>5 DEF AskedOf
  <2>7. FlowOf(pc'[s], result'[s], hw'[s], reg'[s], phy'[s], lsc'[s])
    <3>1. h.current = Resolved(h.requested, phy[s].adv, phy[s].lp)
      BY <1>4 DEF m
    <3>. QED BY <1>1, <2>1, <2>2, <3>1 DEF FlowOf
  <2>. QED BY <1>2, <2>1, <2>3, <2>4, <2>5, <2>6, <2>7 DEF LocalStep
<1>. QED BY <1>5, <1>6 DEF ReadAbilities, SetHw

(* The MAC gets the mode that follows from the negotiation of this link, or  *)
(* the link is pending.                                                      *)
LEMMA ApplyResolvedStep ==
  ASSUME LinkInv, NEW s \in Stations, ApplyResolved(s)
  PROVE  s \in Drivers /\ LocalStep(s)
<1>. DEFINE m == IF Duplex(s) = "half" THEN "none" ELSE hw[s].current
            h == [hw[s] EXCEPT !.current = m]
            r == ForceMacFc(reg[s], m)
<1>1. /\ pc[s][2] = "duplex" /\ phy' = phy
      /\ lsc' = lsc /\ scenario' = scenario /\ cable' = cable
      /\ changes' = changes /\ faults' = faults
      /\ hw' = [hw EXCEPT ![s] = h] /\ reg' = [reg EXCEPT ![s] = r]
      /\ FcDone(s)
  BY DEF ApplyResolved, At, world, SetHw, SetReg
<1>2. /\ s \in Drivers /\ pc[s] = <<pc[s][1], "duplex">>
      /\ pc[s][2] \in Late
      /\ Copper => /\ AskedOf(pc[s], result[s], hw[s], reg[s], phy[s])
                   /\ FlowOf(pc[s], result[s], hw[s], reg[s], phy[s], lsc[s])
  BY <1>1, LatePlace DEF Late
<1>3. /\ hw \in [Stations -> HwSet] /\ hw[s] \in HwSet
      /\ reg \in [Stations -> RegSet] /\ reg[s] \in RegSet
  BY Known
<1>4. m \in Modes BY <1>3 DEF HwSet, Modes
<1>5. h \in HwSet /\ h.current = m /\ h.autoneg = hw[s].autoneg
      /\ h.requested = hw[s].requested /\ h.mdix = hw[s].mdix
      /\ h.autoneg_advertised = hw[s].autoneg_advertised
      /\ h.get_link_status = hw[s].get_link_status
  <2>. HIDE DEF m
  <2>. QED BY <1>3, <1>4 DEF HwSet
<1>6. r \in RegSet /\ r.frcdpx = reg[s].frcdpx
      /\ r.tfce = Sends(m) /\ r.rfce = Obeys(m)
  <2>. HIDE DEF m
  <2>. QED BY <1>3, <1>4, ForceMacFcEffect
<1>7. Duplex(s) = IF reg[s].frcdpx THEN (IF reg[s].fd THEN "full" ELSE "half")
                  ELSE phy[s].resolved
  BY DEF Duplex
<1>8. m = IF Duplex(s) = "half" THEN "none" ELSE hw[s].current OBVIOUS
<1>. HIDE DEF m, h, r
<1>9. /\ \A x \in Stations \ {s} : pc'[x] = pc[x] /\ result'[x] = result[x]
      /\ pc' \in [Stations -> PcSet] /\ result' \in [Stations -> ResultSet]
      /\ ControlOf(TRUE, pc'[s], result'[s])
      /\ DoneOf(pc'[s], result'[s]) => DoneOf(pc[s], result[s])
      /\ \/ pc'[s] = <<"setup", "watermarks">>
         \/ pc[s][1] = "check" /\ pc'[s] = <<"none", "idle">>
  BY <1>1, <1>2, FcDoneEffect
<1>10. hw' \in [Stations -> HwSet] /\ hw'[s] = h
       /\ \A x \in Stations \ {s} : hw'[x] = hw[x]
  BY <1>1, <1>3, <1>5, SetOne
<1>11. reg' \in [Stations -> RegSet] /\ reg'[s] = r
       /\ \A x \in Stations \ {s} : reg'[x] = reg[x]
  BY <1>1, <1>3, <1>6, SetOne
<1>12. LinkTypeOK' BY <1>1, <1>9, <1>10, <1>11, Known, TypedAfter
<1>13. Alone(s) BY <1>1, <1>9, <1>10, <1>11 DEF Alone, SameConfig
<1>14. LinkKept(s) BY <1>1, <1>9 DEF LinkKept, SameLink
<1>15. ASSUME Copper
       PROVE  AskedOf(pc'[s], result'[s], hw'[s], reg'[s], phy'[s])
  <2>1. hw[s].autoneg BY <1>1, <1>2, <1>15 DEF AskedOf
  <2>2. DoneOf(pc[s], result[s]) => WrittenOf(h, r, phy[s])
    BY <1>2, <1>5, <1>6, <1>15, <2>1 DEF AskedOf, WrittenOf
  <2>3. pc'[s][2] \in {"watermarks", "idle"} BY <1>9
  <2>4. /\ pc'[s] \notin {"setup"} \X {"phy", "media"}
        /\ pc'[s][2] \notin {"fiber", "wait"}
    BY <2>3
  <2>5. pc'[s] # <<"setup", "media">> BY <2>3
  <2>. QED BY <1>1, <1>5, <1>9, <1>10, <1>11, <2>1, <2>2, <2>4, <2>5 DEF AskedOf
<1>16. ASSUME Copper
       PROVE  FlowOf(pc'[s], result'[s], hw'[s], reg'[s], phy'[s], lsc'[s])
  <2>1. ASSUME phy[s].up, ~lsc[s], ~h.get_link_status, h.autoneg,
               pc'[s][2] = "idle", result'[s]["setup"] = "ok"
        PROVE  r.tfce = Sends(Decided(h, phy[s]))
               /\ r.rfce = Obeys(Decided(h, phy[s]))
    <3>1. pc[s] = <<"check", "duplex">> BY <1>2, <1>9, <2>1
    <3>2. DoneOf(pc[s], result[s]) BY <1>9, <2>1 DEF DoneOf
    <3>3. ~reg[s].frcdpx
      BY <1>2, <1>5, <1>16, <2>1, <3>2 DEF AskedOf, WrittenOf
    <3>4. hw[s].current = Resolved(hw[s].requested, phy[s].adv, phy[s].lp)
      BY <1>2, <1>5, <1>16, <2>1, <3>1 DEF FlowOf
    <3>5. m = Decided(h, phy[s])
      BY <1>5, <1>7, <1>8, <3>3, <3>4 DEF Decided
    <3>. QED BY <1>6, <3>5
  <2>2. pc'[s] # <<"check", "duplex">> BY <1>9
  <2>. QED BY <1>1, <1>10, <1>11, <2>1, <2>2 DEF FlowOf
<1>. QED BY <1>2, <1>9, <1>12, <1>13, <1>14, <1>15, <1>16 DEF LocalStep

-----------------------------------------------------------------------------
(* The check of a copper link, the interrupt, and a restart.               *)

(* An idle driver is in no call.                                             *)
LEMMA AtIdle ==
  ASSUME LinkInv, NEW s \in Stations, pc[s][2] = "idle"
  PROVE  s \in Drivers /\ pc[s] = <<"none", "idle">>
BY Where DEF ControlOf, SetupPlaces, CheckPlaces

(* A check begins only with link, and says so otherwise.                     *)
LEMMA CheckForCopperLinkStep ==
  ASSUME LinkInv, NEW s \in Stations, CheckForCopperLink(s)
  PROVE  s \in Drivers /\ LocalStep(s)
<1>1. /\ pc[s][2] = "idle" /\ hw' = hw /\ reg' = reg /\ phy' = phy
      /\ lsc' = lsc /\ scenario' = scenario /\ cable' = cable
      /\ changes' = changes
  BY DEF CheckForCopperLink, At, world
<1>2. /\ s \in Drivers /\ pc[s] = <<"none", "idle">>
      /\ Copper => /\ AskedOf(pc[s], result[s], hw[s], reg[s], phy[s])
                   /\ FlowOf(pc[s], result[s], hw[s], reg[s], phy[s], lsc[s])
  BY <1>1, AtIdle, Where
<1>3. /\ pc \in [Stations -> PcSet] /\ result \in [Stations -> ResultSet]
      /\ result[s] \in ResultSet /\ faults \in 0 .. scenario.faults
      /\ phy[s] \in PhySet
  BY Known
<1>4. /\ pc' \in [Stations -> PcSet] /\ result' \in [Stations -> ResultSet]
      /\ faults' \in 0 .. scenario.faults
      /\ \A x \in Stations \ {s} : pc'[x] = pc[x] /\ result'[x] = result[x]
      /\ result'[s]["setup"] = result[s]["setup"]
      /\ \/ pc'[s] = <<"check", "clear">>
         \/ /\ pc'[s] = <<"none", "idle">>
            /\ \/ result'[s]["looked"] = "error" \/ ~phy[s].up
               \/ result'[s]["looked"] = result[s]["looked"]
  <2>1. ASSUME NEW status \in {"ok", "error"}, Note(s, "check", status)
        PROVE  /\ result' \in [Stations -> ResultSet]
               /\ \A x \in Stations \ {s} : result'[x] = result[x]
               /\ result'[s]["setup"] = result[s]["setup"]
               /\ result'[s]["looked"] = status
    BY <1>3, <2>1, NoteEffect DEF Calls
  <2>2. CASE Fault /\ Note(s, "check", "error") /\ pc' = pc
    <3>1. faults' \in 0 .. scenario.faults BY <2>2, Known DEF Fault
    <3>. QED BY <1>2, <1>3, <2>1, <2>2, <3>1
  <2>3. CASE ~phy[s].up /\ Note(s, "check", "ok") /\ pc' = pc /\ faults' = faults
    BY <1>2, <1>3, <2>1, <2>3
  <2>5. CASE /\ pc' = pc /\ faults' = faults
             /\ result' = [result EXCEPT ![s].check = "ok"]
    <3>. DEFINE v == [result[s] EXCEPT !["check"] = "ok"]
    <3>1. v \in ResultSet /\ v["setup"] = result[s]["setup"]
          /\ v["looked"] = result[s]["looked"]
      BY <1>3 DEF ResultSet, Results, Calls
    <3>2. result' = [result EXCEPT ![s] = v] BY <2>5, Zenon
    <3>. HIDE DEF v
    <3>3. /\ result' \in [Stations -> ResultSet] /\ result'[s] = v
          /\ \A x \in Stations \ {s} : result'[x] = result[x]
      BY <1>3, <3>1, <3>2, SetOne
    <3>. QED BY <1>2, <1>3, <2>5, <3>1, <3>3
  <2>4. CASE /\ result' = result /\ faults' = faults
             /\ pc' = [pc EXCEPT ![s] = <<"check", "clear">>]
    <3>1. <<"check", "clear">> \in PcSet BY DEF PcSet, Calls, Places
    <3>2. /\ pc' \in [Stations -> PcSet] /\ pc'[s] = <<"check", "clear">>
          /\ \A x \in Stations \ {s} : pc'[x] = pc[x]
      BY <1>3, <2>4, <3>1, SetOne
    <3>. QED BY <1>3, <2>4, <3>2
  <2>. QED BY <2>2, <2>3, <2>4, <2>5 DEF CheckForCopperLink
<1>5. LinkTypeOK' BY <1>1, <1>4, Known, TypedAfter
<1>6. Alone(s) BY <1>1, <1>4 DEF Alone, SameConfig
<1>7. ControlOf(TRUE, pc'[s], result'[s]) BY <1>4 DEF ControlOf, CheckPlaces
<1>8. DoneOf(pc'[s], result'[s]) => DoneOf(pc[s], result[s])
  BY <1>4 DEF DoneOf
<1>9. LinkKept(s) BY <1>1, <1>8 DEF LinkKept, SameLink
<1>10. Copper => AskedOf(pc'[s], result'[s], hw'[s], reg'[s], phy'[s])
  BY <1>1, <1>2, <1>4, <1>8 DEF AskedOf
<1>11. Copper => FlowOf(pc'[s], result'[s], hw'[s], reg'[s], phy'[s], lsc'[s])
  BY <1>1, <1>2, <1>4 DEF FlowOf
<1>. QED BY <1>2, <1>5, <1>6, <1>7, <1>9, <1>10, <1>11 DEF LocalStep

(* Clearing get_link_status is followed by all of the check.                 *)
LEMMA ClearLinkStatusStep ==
  ASSUME LinkInv, NEW s \in Stations, ClearLinkStatus(s)
  PROVE  s \in Drivers /\ LocalStep(s)
<1>. DEFINE h == [hw[s] EXCEPT !.get_link_status = FALSE]
<1>1. /\ pc[s][2] = "clear" /\ hw' = [hw EXCEPT ![s] = h] /\ reg' = reg
      /\ phy' = phy /\ lsc' = lsc /\ scenario' = scenario /\ cable' = cable
      /\ changes' = changes /\ faults' = faults
      /\ IF hw[s].autoneg THEN Goto(s, "force") ELSE Return(s, "error")
  BY DEF ClearLinkStatus, At, world, SetHw
<1>2. /\ s \in Drivers /\ pc[s] = <<"check", "clear">>
      /\ Copper => AskedOf(pc[s], result[s], hw[s], reg[s], phy[s])
  BY <1>1, Where DEF ControlOf, SetupPlaces
<1>3. /\ hw \in [Stations -> HwSet] /\ hw[s] \in HwSet
      /\ pc \in [Stations -> PcSet] /\ result \in [Stations -> ResultSet]
  BY Known
<1>4. h \in HwSet /\ h.autoneg = hw[s].autoneg /\ h.current = hw[s].current
      /\ h.requested = hw[s].requested /\ h.mdix = hw[s].mdix
      /\ h.autoneg_advertised = hw[s].autoneg_advertised
      /\ h.forced_speed_duplex = hw[s].forced_speed_duplex
  BY <1>3 DEF HwSet
<1>. HIDE DEF h
<1>5. hw' \in [Stations -> HwSet] /\ hw'[s] = h
      /\ \A x \in Stations \ {s} : hw'[x] = hw[x]
  BY <1>1, <1>3, <1>4, SetOne
<1>6. /\ pc' \in [Stations -> PcSet] /\ result' \in [Stations -> ResultSet]
      /\ \A x \in Stations \ {s} : pc'[x] = pc[x] /\ result'[x] = result[x]
      /\ result'[s]["setup"] = result[s]["setup"]
      /\ \/ h.autoneg /\ pc'[s] = <<"check", "force">>
         \/ pc'[s] = <<"none", "idle">> /\ result'[s]["looked"] = "error"
  <2>1. CASE hw[s].autoneg
    <3>1. Goto(s, "force") BY <1>1, <2>1
    <3>2. /\ pc'[s] = <<"check", "force">> /\ result' = result
          /\ \A x \in Stations \ {s} : pc'[x] = pc[x]
          /\ pc' \in [Stations -> PcSet]
      BY <1>2, <3>1, MoveEffect DEF Places
    <3>. QED BY <1>3, <1>4, <2>1, <3>2
  <2>2. CASE ~hw[s].autoneg
    <3>1. Return(s, "error") BY <1>1, <2>2
    <3>2. pc[s][1] = "check" /\ pc[s][1] \in Calls BY <1>2 DEF Calls
    <3>3. /\ pc'[s] = <<"none", "idle">>
          /\ \A x \in Stations \ {s} : pc'[x] = pc[x] /\ result'[x] = result[x]
          /\ result'[s]["looked"] = "error"
          /\ result'[s]["setup"] = result[s]["setup"]
          /\ pc' \in [Stations -> PcSet] /\ result' \in [Stations -> ResultSet]
      BY <1>3, <3>1, <3>2, ReturnEffect
    <3>. QED BY <3>3
  <2>. QED BY <2>1, <2>2
<1>7. LinkTypeOK' BY <1>1, <1>5, <1>6, Known, TypedAfter
<1>8. Alone(s) BY <1>1, <1>5, <1>6 DEF Alone, SameConfig
<1>9. ControlOf(TRUE, pc'[s], result'[s]) BY <1>6 DEF ControlOf, CheckPlaces
<1>10. DoneOf(pc'[s], result'[s]) => DoneOf(pc[s], result[s])
  BY <1>6 DEF DoneOf
<1>11. LinkKept(s) BY <1>1, <1>10 DEF LinkKept, SameLink
<1>12. ASSUME Copper
       PROVE  AskedOf(pc'[s], result'[s], hw'[s], reg'[s], phy'[s])
  <2>1. DoneOf(pc[s], result[s]) => WrittenOf(h, reg[s], phy[s])
    BY <1>2, <1>4, <1>12 DEF AskedOf, WrittenOf
  <2>2. ~h.autoneg => ~reg[s].tfce BY <1>2, <1>4, <1>12 DEF AskedOf
  <2>3. h.autoneg \in BOOLEAN BY <1>4 DEF HwSet
  <2>4. /\ pc'[s] \notin {"setup"} \X {"phy", "media"}
        /\ pc'[s] # <<"setup", "media">>
        /\ pc'[s][2] \notin {"fiber", "wait"}
        /\ ~h.autoneg => /\ pc'[s][2] \notin {"status", "abilities", "duplex"}
                         /\ pc'[s] # <<"check", "force">>
    BY <1>6, <2>3
  <2>. QED BY <1>1, <1>5, <1>10, <2>1, <2>2, <2>4 DEF AskedOf
<1>13. FlowOf(pc'[s], result'[s], hw'[s], reg'[s], phy'[s], lsc'[s])
  BY <1>6 DEF FlowOf
<1>. QED BY <1>2, <1>7, <1>8, <1>9, <1>11, <1>12, <1>13 DEF LocalStep

(* An interrupt only asks for a check.                                       *)
LEMMA LinkInterruptStep ==
  ASSUME LinkInv, NEW s \in Stations, LinkInterrupt(s)
  PROVE  s \in Drivers /\ LocalStep(s)
<1>. DEFINE h == [hw[s] EXCEPT !.get_link_status = TRUE]
<1>1. /\ s \in Drivers /\ hw' = [hw EXCEPT ![s] = h] /\ reg' = reg
      /\ phy' = phy /\ scenario' = scenario /\ cable' = cable
      /\ changes' = changes /\ faults' = faults /\ pc' = pc
      /\ result' = result /\ lsc' = [lsc EXCEPT ![s] = FALSE]
  BY DEF LinkInterrupt, world, SetHw
<1>2. /\ hw \in [Stations -> HwSet] /\ hw[s] \in HwSet
      /\ lsc \in [Stations -> BOOLEAN]
  BY Known
<1>3. h \in HwSet /\ h.autoneg = hw[s].autoneg /\ h.current = hw[s].current
      /\ h.requested = hw[s].requested /\ h.mdix = hw[s].mdix
      /\ h.autoneg_advertised = hw[s].autoneg_advertised
      /\ h.forced_speed_duplex = hw[s].forced_speed_duplex
      /\ h.get_link_status = TRUE
  BY <1>2 DEF HwSet
<1>. HIDE DEF h
<1>4. hw' \in [Stations -> HwSet] /\ hw'[s] = h
      /\ \A x \in Stations \ {s} : hw'[x] = hw[x]
  BY <1>1, <1>2, <1>3, SetOne
<1>5. lsc' \in [Stations -> BOOLEAN]
      /\ \A x \in Stations \ {s} : lsc'[x] = lsc[x]
  BY <1>1, <1>2
<1>6. LinkTypeOK' BY <1>1, <1>4, <1>5, Known, TypedAfter
<1>7. Alone(s) BY <1>1, <1>4, <1>5 DEF Alone, SameConfig
<1>8. ControlOf(TRUE, pc'[s], result'[s])
  <2>1. ControlOf(s \in Drivers, pc[s], result[s]) BY DEF LinkInv, Control
  <2>2. (s \in Drivers) = TRUE BY <1>1
  <2>. QED BY <1>1, <2>1, <2>2
<1>9. LinkKept(s) BY <1>1 DEF LinkKept, SameLink
<1>10. ASSUME Copper
       PROVE  AskedOf(pc'[s], result'[s], hw'[s], reg'[s], phy'[s])
  <2>1. AskedOf(pc[s], result[s], hw[s], reg[s], phy[s])
    BY <1>1, <1>10 DEF LinkInv, Asked
  <2>2. DoneOf(pc[s], result[s]) => WrittenOf(h, reg[s], phy[s])
    BY <1>3, <2>1 DEF AskedOf, WrittenOf
  <2>. QED BY <1>1, <1>3, <1>4, <2>1, <2>2 DEF AskedOf
<1>11. FlowOf(pc'[s], result'[s], hw'[s], reg'[s], phy'[s], lsc'[s])
  BY <1>3, <1>4 DEF FlowOf
<1>. QED BY <1>1, <1>6, <1>7, <1>8, <1>9, <1>10, <1>11 DEF LocalStep

(* A restart gives hw values of its types.                                   *)
LEMMA NewHwType ==
  ASSUME NEW set \in Settings
  PROVE  NewHw(set) \in HwSet /\ NewHw(set).autoneg = set.autoneg
<1>1. set \in [requested : Modes \cup {"default"}, autoneg : BOOLEAN,
               duplexes : SUBSET Duplexes, mdix : 0 .. 3]
  BY LinkAssumption
<1>. QED BY <1>1 DEF NewHw, HwSet, Modes, Duplexes, Abilities

(* A reset clears TFCE.                                                      *)
LEMMA ResetType == ResetRegisters \in RegSet /\ ResetRegisters.tfce = FALSE
BY DEF ResetRegisters, RegSet, Abilities

(* A restart forgets the results, so nothing is promised any more.           *)
LEMMA RestartStep ==
  ASSUME LinkInv, NEW s \in Stations, Restart(s)
  PROVE  s \in Drivers /\ LocalStep(s)
<1>1. PICK set \in Settings :
        hw' = [hw EXCEPT ![s] =
                 [NewHw(set) EXCEPT !.autoneg_failed = hw[s].autoneg_failed,
                                    !.get_link_status = hw[s].get_link_status,
                                    !.serdes_has_link = hw[s].serdes_has_link,
                                    !.txcw = hw[s].txcw,
                                    !.current = hw[s].current]]
  BY Zenon DEF Restart, SetHw
<1>. DEFINE h == [NewHw(set) EXCEPT !.autoneg_failed = hw[s].autoneg_failed,
                                    !.get_link_status = hw[s].get_link_status,
                                    !.serdes_has_link = hw[s].serdes_has_link,
                                    !.txcw = hw[s].txcw,
                                    !.current = hw[s].current]
            none == [c \in Results |-> "none"]
<1>2. /\ pc[s][2] = "idle" /\ changes < scenario.changes
      /\ changes' = changes + 1 /\ reg' = [reg EXCEPT ![s] = ResetRegisters]
      /\ phy' = IF Copper THEN phy ELSE Down(phy)
      /\ lsc' = [lsc EXCEPT ![s] = FALSE]
      /\ pc' = [pc EXCEPT ![s] = <<"setup", "start">>]
      /\ result' = [result EXCEPT ![s] = none]
      /\ scenario' = scenario /\ cable' = cable /\ faults' = faults
  BY DEF Restart, At, SetReg
<1>3. s \in Drivers BY <1>2, AtIdle
<1>4. /\ hw \in [Stations -> HwSet] /\ hw[s] \in HwSet
      /\ reg \in [Stations -> RegSet] /\ phy \in [Stations -> PhySet]
      /\ lsc \in [Stations -> BOOLEAN] /\ pc \in [Stations -> PcSet]
      /\ result \in [Stations -> ResultSet]
  BY Known
<1>5. h \in HwSet BY <1>4, NewHwType DEF HwSet
<1>. HIDE DEF h
<1>6. hw' \in [Stations -> HwSet]
      /\ \A x \in Stations \ {s} : hw'[x] = hw[x]
  BY <1>1, <1>4, <1>5, SetOne DEF h
<1>7. reg' \in [Stations -> RegSet] /\ reg'[s] = ResetRegisters
      /\ \A x \in Stations \ {s} : reg'[x] = reg[x]
  BY <1>2, <1>4, ResetType, SetOne
<1>8. lsc' \in [Stations -> BOOLEAN]
      /\ \A x \in Stations \ {s} : lsc'[x] = lsc[x]
  BY <1>2, <1>4
<1>9. pc' \in [Stations -> PcSet] /\ pc'[s] = <<"setup", "start">>
      /\ \A x \in Stations \ {s} : pc'[x] = pc[x]
  <2>1. <<"setup", "start">> \in PcSet BY DEF PcSet, Calls, Places
  <2>. QED BY <1>2, <1>4, <2>1, SetOne
<1>10. result' \in [Stations -> ResultSet] /\ result'[s] = none
       /\ \A x \in Stations \ {s} : result'[x] = result[x]
  <2>1. none \in ResultSet BY DEF ResultSet
  <2>. HIDE DEF none
  <2>. QED BY <1>2, <1>4, <2>1, SetOne
<1>11. none["setup"] = "none" /\ none["looked"] = "none" BY DEF Results, Calls
<1>. HIDE DEF none
<1>12. phy' \in [Stations -> PhySet]
       /\ \A x \in Stations : SameConfig(phy'[x], phy[x])
  <2>1. CASE Copper BY <1>2, <1>4, <2>1 DEF SameConfig
  <2>2. CASE ~Copper BY <1>2, <1>4, <2>2, DownEffect
  <2>. QED BY <2>1, <2>2
<1>13. changes' \in 0 .. scenario.changes BY <1>2, Known
<1>14. LinkTypeOK'
  BY <1>2, <1>6, <1>7, <1>8, <1>9, <1>10, <1>12, <1>13, Known, TypedAfter
<1>15. Alone(s) BY <1>2, <1>6, <1>7, <1>8, <1>9, <1>10, <1>12 DEF Alone
<1>16. ControlOf(TRUE, pc'[s], result'[s])
  BY <1>9, <1>10, <1>11 DEF ControlOf, SetupPlaces
<1>17. ~DoneOf(pc'[s], result'[s]) BY <1>9, <1>10, <1>11 DEF DoneOf
<1>18. Copper => LinkKept(s) BY <1>2, <1>17 DEF LinkKept, SameLink
<1>19. AskedOf(pc'[s], result'[s], hw'[s], reg'[s], phy'[s])
  BY <1>7, <1>9, <1>17, ResetType DEF AskedOf
<1>20. FlowOf(pc'[s], result'[s], hw'[s], reg'[s], phy'[s], lsc'[s])
  BY <1>9 DEF FlowOf
<1>. QED BY <1>3, <1>14, <1>15, <1>16, <1>18, <1>19, <1>20 DEF LocalStep

-----------------------------------------------------------------------------
(* Fiber and SERDES: here only the types and the control are needed.       *)

(* A check of fiber or SERDES gives hw and registers of their types.         *)
LEMMA CheckType ==
  ASSUME NEW s \in Stations, reg[s] \in RegSet, NEW h \in HwSet
  PROVE  Check(s, h) \in [h : HwSet, r : RegSet]
<1>. DEFINE F == [h : HwSet, r : RegSet]
            c == CheckFiber(s, h)
<1>1. h.txcw \in Abilities /\ h.current \in Modes BY DEF HwSet
<1>2. ForceLink(s, h) \in F
  <2>. DEFINE r == [reg[s] EXCEPT !.ane = FALSE, !.txcw = h.txcw,
                                 !.slu = TRUE, !.fd = TRUE]
  <2>1. r \in RegSet BY <1>1, RegFields, Zenon
  <2>. HIDE DEF r
  <2>2. ForceMacFc(r, h.current) \in RegSet BY <1>1, <2>1, ForceMacFcEffect
  <2>3. ForceLink(s, h) = [h |-> h, r |-> ForceMacFc(r, h.current)]
    BY DEF ForceLink, r
  <2>. QED BY <2>2, <2>3
<1>3. Renegotiate(s, h) \in F
  <2>1. [h EXCEPT !.serdes_has_link = TRUE] \in HwSet BY DEF HwSet
  <2>2. [reg[s] EXCEPT !.ane = TRUE, !.txcw = h.txcw, !.slu = FALSE] \in RegSet
    BY <1>1 DEF RegSet
  <2>. QED BY <2>1, <2>2 DEF Renegotiate
<1>4. [h EXCEPT !.autoneg_failed = TRUE] \in HwSet BY DEF HwSet
<1>5. c \in F BY <1>2, <1>3, <1>4 DEF CheckFiber
<1>6. CheckSerdes(s, h) \in F
  <2>. HIDE DEF c
  <2>1. SerdesHasLink(s, c.r) \in BOOLEAN BY DEF SerdesHasLink
  <2>. DEFINE b == SerdesHasLink(s, c.r)
              g == [c.h EXCEPT !.serdes_has_link = b]
  <2>2. g \in HwSet
    <3>1. c.h \in HwSet BY <1>5
    <3>. HIDE DEF b
    <3>. QED BY <2>1, <3>1 DEF HwSet, b
  <2>3. [c EXCEPT !.h.serdes_has_link = b] = [c EXCEPT !.h = g] BY Zenon
  <2>. HIDE DEF g
  <2>4. [c EXCEPT !.h = g] \in F BY <1>5, <2>2
  <2>. QED BY <1>5, <2>3, <2>4 DEF CheckSerdes, c
<1>. QED BY <1>5, <1>6 DEF Check

(* Off copper a step owes the types and the control only.                    *)
LEMMA OffCopper ==
  ASSUME ~Copper, NEW s \in Drivers, Alone(s), LinkTypeOK',
         ControlOf(TRUE, pc'[s], result'[s])
  PROVE  LocalStep(s)
BY DEF LocalStep

(* The set-up of a fiber link, up to the polling.                            *)
LEMMA SetupFiberStep ==
  ASSUME LinkInv, NEW s \in Stations, SetupFiber(s)
  PROVE  s \in Drivers /\ LocalStep(s)
<1>. DEFINE w == CodeWord(hw[s].current)
            h == [hw[s] EXCEPT !.txcw = w]
            r == [reg[s] EXCEPT !.txcw = w, !.ane = TRUE, !.lrst = FALSE]
<1>1. /\ pc[s][2] = "fiber" /\ phy' = phy /\ lsc' = lsc
      /\ scenario' = scenario /\ cable' = cable /\ changes' = changes
  BY DEF SetupFiber, At, world
<1>2. /\ s \in Drivers /\ pc[s] = <<"setup", "fiber">> /\ ~Copper
      /\ result[s]["setup"] = "none" /\ result[s]["looked"] = "none"
  BY <1>1, Where DEF ControlOf, CheckPlaces, AskedOf
<1>3. /\ hw \in [Stations -> HwSet] /\ hw[s] \in HwSet
      /\ reg \in [Stations -> RegSet] /\ reg[s] \in RegSet
      /\ result \in [Stations -> ResultSet]
  BY Known
<1>4. w \in Abilities BY <1>3, FlowTypes DEF HwSet
<1>5. h \in HwSet /\ r \in RegSet
  <2>. HIDE DEF w
  <2>. QED BY <1>3, <1>4 DEF HwSet, RegSet
<1>6. \/ FailsAt(s) /\ hw' = hw /\ reg' = reg
      \/ /\ hw' = [hw EXCEPT ![s] = h] /\ reg' = [reg EXCEPT ![s] = r]
         /\ Goto(s, IF Signal THEN "wait" ELSE "watermarks")
         /\ faults' = faults
  BY DEF SetupFiber, SetHw, SetReg
<1>. HIDE DEF h, r
<1>7. /\ hw' \in [Stations -> HwSet] /\ reg' \in [Stations -> RegSet]
      /\ \A x \in Stations \ {s} : hw'[x] = hw[x] /\ reg'[x] = reg[x]
  BY <1>3, <1>5, <1>6, SetOne
<1>8. /\ pc' \in [Stations -> PcSet] /\ result' \in [Stations -> ResultSet]
      /\ \A x \in Stations \ {s} : pc'[x] = pc[x] /\ result'[x] = result[x]
      /\ ControlOf(TRUE, pc'[s], result'[s])
      /\ faults' \in 0 .. scenario.faults
  <2>1. CASE FailsAt(s)
    <3>1. /\ pc'[s] = <<"none", "idle">>
          /\ \A x \in Stations \ {s} : pc'[x] = pc[x] /\ result'[x] = result[x]
          /\ pc' \in [Stations -> PcSet] /\ result' \in [Stations -> ResultSet]
          /\ faults' \in 0 .. scenario.faults
      BY <1>2, <2>1, FailEffect
    <3>. QED BY <3>1 DEF ControlOf
  <2>2. CASE /\ Goto(s, IF Signal THEN "wait" ELSE "watermarks")
             /\ faults' = faults
    <3>1. PICK p \in {"wait", "watermarks"} : Goto(s, p) BY <2>2
    <3>2. /\ pc'[s] = <<"setup", p>> /\ result' = result
          /\ \A x \in Stations \ {s} : pc'[x] = pc[x]
          /\ pc' \in [Stations -> PcSet]
      BY <1>2, <3>1, MoveEffect DEF Places
    <3>3. ControlOf(TRUE, pc'[s], result'[s])
      BY <1>2, <3>2 DEF ControlOf, SetupPlaces
    <3>4. faults' \in 0 .. scenario.faults BY <2>2, Known
    <3>. QED BY <1>3, <3>2, <3>3, <3>4
  <2>. QED BY <1>6, <2>1, <2>2
<1>9. LinkTypeOK' BY <1>1, <1>7, <1>8, Known, TypedAfter
<1>10. Alone(s) BY <1>1, <1>7, <1>8 DEF Alone, SameConfig
<1>. QED BY <1>2, <1>8, <1>9, <1>10, OffCopper

(* The polling, which may force the link.                                    *)
LEMMA PollFiberStep ==
  ASSUME LinkInv, NEW s \in Stations, PollFiber(s)
  PROVE  s \in Drivers /\ LocalStep(s)
<1>1. /\ pc[s][2] = "wait" /\ phy' = phy /\ lsc' = lsc
      /\ scenario' = scenario /\ cable' = cable /\ changes' = changes
      /\ faults' = faults /\ Goto(s, "watermarks")
  BY DEF PollFiber, At, world
<1>2. /\ s \in Drivers /\ pc[s] = <<"setup", "wait">> /\ ~Copper
      /\ result[s]["setup"] = "none" /\ result[s]["looked"] = "none"
  BY <1>1, Where DEF ControlOf, CheckPlaces, AskedOf
<1>3. /\ hw \in [Stations -> HwSet] /\ hw[s] \in HwSet
      /\ reg \in [Stations -> RegSet] /\ reg[s] \in RegSet
  BY Known
<1>4. \A g \in HwSet : \A b \in BOOLEAN :
        [g EXCEPT !.autoneg_failed = b] \in HwSet
  BY DEF HwSet
<1>5. PICK g \in HwSet, q \in RegSet :
        /\ hw' = [hw EXCEPT ![s] = g]
        /\ reg' = reg \/ reg' = [reg EXCEPT ![s] = q]
  <2>. DEFINE f == [hw[s] EXCEPT !.autoneg_failed = TRUE]
              c == Check(s, f)
  <2>1. c \in [h : HwSet, r : RegSet] BY <1>3, <1>4, CheckType
  <2>2. [hw[s] EXCEPT !.autoneg_failed = FALSE] \in HwSet
        /\ [c.h EXCEPT !.autoneg_failed = FALSE] \in HwSet /\ c.r \in RegSet
    <3>1. c.h \in HwSet /\ c.r \in RegSet BY <2>1
    <3>. HIDE DEF c
    <3>. QED BY <1>3, <1>4, <3>1
  <2>3. \/ hw' = [hw EXCEPT ![s] = [hw[s] EXCEPT !.autoneg_failed = FALSE]]
           /\ reg' = reg
        \/ hw' = [hw EXCEPT ![s] = [c.h EXCEPT !.autoneg_failed = FALSE]]
           /\ reg' = [reg EXCEPT ![s] = c.r]
    BY Zenon DEF PollFiber, SetHw, SetReg
  <2>. HIDE DEF c
  <2>. QED BY <1>3, <2>2, <2>3
<1>6. /\ hw' \in [Stations -> HwSet] /\ reg' \in [Stations -> RegSet]
      /\ \A x \in Stations \ {s} : hw'[x] = hw[x] /\ reg'[x] = reg[x]
  BY <1>3, <1>5, SetOne
<1>7. /\ pc'[s] = <<"setup", "watermarks">> /\ result' = result
      /\ \A x \in Stations \ {s} : pc'[x] = pc[x]
      /\ pc' \in [Stations -> PcSet]
  BY <1>1, <1>2, MoveEffect DEF Places
<1>8. LinkTypeOK' BY <1>1, <1>6, <1>7, Known, TypedAfter
<1>9. Alone(s) BY <1>1, <1>6, <1>7 DEF Alone, SameConfig
<1>10. ControlOf(TRUE, pc'[s], result'[s])
  BY <1>2, <1>7 DEF ControlOf, SetupPlaces
<1>. QED BY <1>2, <1>8, <1>9, <1>10, OffCopper

(* The check of a fiber or SERDES link.                                      *)
LEMMA CheckForFiberLinkStep ==
  ASSUME LinkInv, NEW s \in Stations, CheckForFiberLink(s)
  PROVE  s \in Drivers /\ LocalStep(s)
<1>. DEFINE c == Check(s, hw[s])
            v == [result[s] EXCEPT !["check"] = "ok"]
<1>1. /\ ~Copper /\ pc[s][2] = "idle" /\ phy' = phy /\ lsc' = lsc
      /\ scenario' = scenario /\ cable' = cable /\ changes' = changes
      /\ faults' = faults /\ pc' = pc
      /\ hw' = [hw EXCEPT ![s] = c.h] /\ reg' = [reg EXCEPT ![s] = c.r]
  BY DEF CheckForFiberLink, At, world, SetHw, SetReg
<1>2. result' = [result EXCEPT ![s] = v]
  BY Zenon DEF CheckForFiberLink
<1>3. s \in Drivers /\ pc[s] = <<"none", "idle">> BY <1>1, AtIdle
<1>4. /\ hw \in [Stations -> HwSet] /\ hw[s] \in HwSet
      /\ reg \in [Stations -> RegSet] /\ reg[s] \in RegSet
      /\ result \in [Stations -> ResultSet] /\ result[s] \in ResultSet
  BY Known
<1>5. c.h \in HwSet /\ c.r \in RegSet
  <2>1. c \in [h : HwSet, r : RegSet] BY <1>4, CheckType
  <2>. QED BY <2>1
<1>6. v \in ResultSet BY <1>4 DEF ResultSet
<1>. HIDE DEF c, v
<1>7. /\ hw' \in [Stations -> HwSet] /\ reg' \in [Stations -> RegSet]
      /\ result' \in [Stations -> ResultSet]
      /\ \A x \in Stations \ {s} :
           hw'[x] = hw[x] /\ reg'[x] = reg[x] /\ result'[x] = result[x]
  BY <1>1, <1>2, <1>4, <1>5, <1>6, SetOne
<1>8. LinkTypeOK' BY <1>1, <1>7, Known, TypedAfter
<1>9. Alone(s) BY <1>1, <1>7 DEF Alone, SameConfig
<1>10. ControlOf(TRUE, pc'[s], result'[s]) BY <1>1, <1>3 DEF ControlOf
<1>. QED BY <1>1, <1>3, <1>8, <1>9, <1>10, OffCopper

-----------------------------------------------------------------------------
(* The cable and the hardware at its ends.                                 *)

(* A step of no driver, that leaves what the drivers wrote as it is.       *)
LEMMA WorldKeeps ==
  ASSUME LinkInv, scenario' = scenario, hw' = hw, pc' = pc, result' = result,
         LinkTypeOK',
         Copper =>
           /\ reg' = reg
           /\ \A x \in Stations :
                /\ SameConfig(phy'[x], phy[x])
                /\ lsc'[x] \/ ~phy'[x].up
                /\ LinkOf(phy'[x], phy'[Other(x)], Done(Other(x))),
         \A x \in Stations : phy'[x].aneg = phy[x].aneg
  PROVE  LinkInv'
<1>1. /\ Drivers' = Drivers /\ (Copper' <=> Copper)
      /\ \A x \in Stations : Kind(x)' = Kind(x)
  BY SameScenario
<1>2. Typed' BY DEF LinkInv, Typed
<1>3. Control' BY <1>1 DEF LinkInv, Control
<1>4. Foreign' BY <1>1 DEF LinkInv, Foreign
<1>5. ASSUME Copper PROVE Cabled'
  <2>1. \A x \in Stations : Done(x)' = Done(x) BY <1>1 DEF Done
  <2>2. \A x \in Stations : Other(x) \in Stations BY Ends
  <2>. QED BY <1>5, <2>1, <2>2 DEF Cabled
<1>6. ASSUME Copper PROVE Asked'
  <2>1. \A x \in Drivers :
          AskedOf(pc'[x], result'[x], hw'[x], reg'[x], phy'[x])
    <3>. SUFFICES ASSUME NEW x \in Drivers
                  PROVE  AskedOf(pc[x], result[x], hw[x], reg[x], phy'[x])
      BY <1>6
    <3>1. AskedOf(pc[x], result[x], hw[x], reg[x], phy[x])
      BY <1>6 DEF LinkInv, Asked
    <3>2. SameConfig(phy'[x], phy[x]) BY <1>6 DEF Drivers
    <3>. QED BY <3>1, <3>2 DEF AskedOf, WrittenOf, SameConfig
  <2>. QED BY <1>1, <2>1 DEF Asked
<1>7. ASSUME Copper PROVE Flow'
  <2>1. \A x \in Drivers :
          FlowOf(pc'[x], result'[x], hw'[x], reg'[x], phy'[x], lsc'[x])
    BY <1>7 DEF FlowOf, Drivers
  <2>. QED BY <1>1, <2>1 DEF Flow
<1>. QED BY <1>1, <1>2, <1>3, <1>4, <1>5, <1>6, <1>7 DEF LinkInv

(* Copper PHYs find a common mode: both see the same duplex and the          *)
(* advertisement of the other, and both drivers have an interrupt pending.   *)
LEMMA CopperNegotiatesKeeps ==
  ASSUME LinkInv, CopperNegotiates
  PROVE  LinkInv'
<1>1. /\ Copper /\ phy' = [s \in Stations |-> Negotiated(s)]
      /\ lsc' = [s \in Stations |-> TRUE] /\ scenario' = scenario
      /\ cable' = cable /\ hw' = hw /\ reg' = reg /\ pc' = pc
      /\ result' = result /\ changes' = changes /\ faults' = faults
  BY DEF CopperNegotiates
<1>2. phy \in [Stations -> PhySet] BY Known
<1>3. ASSUME NEW x \in Stations
      PROVE  /\ Negotiated(x) \in PhySet
             /\ SameConfig(Negotiated(x), phy[x])
             /\ Negotiated(x).up = TRUE
             /\ Negotiated(x).complete = phy[x].aneg
             /\ Negotiated(x).lp =
                  IF phy[x].aneg /\ phy[Other(x)].aneg THEN phy[Other(x)].adv
                  ELSE {}
             /\ phy[x].aneg /\ phy[Other(x)].aneg =>
                  Negotiated(x).resolved =
                    IF "full" \in phy[x].duplexes \cap phy[Other(x)].duplexes
                      THEN "full" ELSE "half"
  <2>. DEFINE me == phy[x]
              p == phy[Other(x)]
              lp == IF me.aneg /\ p.aneg THEN p.adv ELSE {}
              d == IF ~me.aneg THEN me.duplex
                   ELSE IF p.aneg /\ "full" \in me.duplexes \cap p.duplexes
                          THEN "full" ELSE "half"
  <2>1. me \in PhySet /\ p \in PhySet BY <1>2, Ends
  <2>2. lp \in Abilities /\ d \in Duplexes
    <3>. HIDE DEF me, p
    <3>. QED BY <2>1 DEF PhySet, Abilities, Duplexes
  <2>3. Negotiated(x) = [me EXCEPT !.up = TRUE, !.complete = me.aneg,
                                   !.lp = lp, !.resolved = d]
    BY DEF Negotiated
  <2>4. me.aneg /\ p.aneg => d = IF "full" \in me.duplexes \cap p.duplexes
                                   THEN "full" ELSE "half"
    OBVIOUS
  <2>5. lp = IF me.aneg /\ p.aneg THEN p.adv ELSE {} OBVIOUS
  <2>. HIDE DEF lp, d, p
  <2>6. /\ Negotiated(x) \in PhySet /\ SameConfig(Negotiated(x), me)
        /\ Negotiated(x).up = TRUE /\ Negotiated(x).complete = me.aneg
        /\ Negotiated(x).lp = lp /\ Negotiated(x).resolved = d
    <3>. HIDE DEF me
    <3>. QED BY <2>1, <2>2, <2>3 DEF PhySet, SameConfig
  <2>. QED BY <2>4, <2>5, <2>6 DEF p
<1>4. ASSUME NEW x \in Stations
      PROVE  LinkOf(Negotiated(x), Negotiated(Other(x)), Done(Other(x)))
  <2>1. Other(x) \in Stations /\ Other(Other(x)) = x BY Ends
  <2>. DEFINE p == phy[x]
              q == phy[Other(x)]
              np == Negotiated(x)
              nq == Negotiated(Other(x))
  <2>2. /\ np.up = TRUE /\ np.complete = p.aneg /\ SameConfig(np, p)
        /\ np.lp = IF p.aneg /\ q.aneg THEN q.adv ELSE {}
        /\ p.aneg /\ q.aneg =>
             np.resolved = IF "full" \in p.duplexes \cap q.duplexes
                             THEN "full" ELSE "half"
    BY <1>3
  <2>3. /\ nq.up = TRUE /\ SameConfig(nq, q)
        /\ q.aneg /\ p.aneg =>
             nq.resolved = IF "full" \in q.duplexes \cap p.duplexes
                             THEN "full" ELSE "half"
    BY <1>3, <2>1
  <2>4. p.duplexes \cap q.duplexes = q.duplexes \cap p.duplexes OBVIOUS
  <2>. HIDE DEF p, q, np, nq
  <2>5. LinkOf(np, nq, Done(Other(x)))
    BY <2>2, <2>3, <2>4 DEF LinkOf, SameConfig
  <2>. QED BY <2>5 DEF np, nq
<1>5. /\ phy' \in [Stations -> PhySet] /\ lsc' \in [Stations -> BOOLEAN]
      /\ \A x \in Stations : phy'[x] = Negotiated(x) /\ lsc'[x]
  BY <1>1, <1>3
<1>6. LinkTypeOK' BY <1>1, <1>5, Known, TypedAfter
<1>7. \A x \in Stations : SameConfig(phy'[x], phy[x])
  BY <1>3, <1>5
<1>8. \A x \in Stations : LinkOf(phy'[x], phy'[Other(x)], Done(Other(x)))
  BY <1>4, <1>5, Ends
<1>9. \A x \in Stations : phy'[x].aneg = phy[x].aneg
  BY <1>7 DEF SameConfig
<1>. QED BY <1>1, <1>5, <1>6, <1>7, <1>8, <1>9, WorldKeeps

(* The MACs negotiate.                                                       *)
LEMMA FiberNegotiatesKeeps ==
  ASSUME LinkInv, FiberNegotiates
  PROVE  LinkInv'
<1>. DEFINE R(s) ==
       [reg[s] EXCEPT !.rfce = StandardObeys(reg[s].txcw, reg[Other(s)].txcw),
                      !.tfce = StandardSends(reg[s].txcw, reg[Other(s)].txcw)]
<1>1. /\ ~Copper
      /\ phy' = [s \in Stations |-> [phy[s] EXCEPT !.complete = TRUE]]
      /\ reg' = [s \in Stations |-> R(s)] /\ scenario' = scenario
      /\ cable' = cable /\ hw' = hw /\ lsc' = lsc /\ pc' = pc
      /\ result' = result /\ changes' = changes /\ faults' = faults
  BY DEF FiberNegotiates
<1>2. phy \in [Stations -> PhySet] /\ reg \in [Stations -> RegSet] BY Known
<1>3. \A a, b : /\ StandardObeys(a, b) \in BOOLEAN
                /\ StandardSends(a, b) \in BOOLEAN
  BY DEF StandardObeys, StandardSends
<1>4. reg' \in [Stations -> RegSet]
  <2>1. \A s \in Stations : R(s) \in RegSet
    <3>1. \A s \in Stations : reg[s] \in RegSet BY <1>2
    <3>2. \A r \in RegSet : \A a, b \in BOOLEAN :
            [r EXCEPT !.rfce = a, !.tfce = b] \in RegSet
      BY DEF RegSet
    <3>. QED BY <1>3, <3>1, <3>2
  <2>. HIDE DEF R
  <2>. QED BY <1>1, <2>1
<1>5. /\ phy' \in [Stations -> PhySet]
      /\ \A x \in Stations : phy'[x].aneg = phy[x].aneg
  BY <1>1, <1>2 DEF PhySet
<1>6. LinkTypeOK' BY <1>1, <1>4, <1>5, Known, TypedAfter
<1>. QED BY <1>1, <1>5, <1>6, WorldKeeps

(* The cable moves: both ends lose the link.                                 *)
LEMMA MoveCableKeeps ==
  ASSUME LinkInv, MoveCable
  PROVE  LinkInv'
<1>1. /\ changes < scenario.changes /\ changes' = changes + 1
      /\ cable' = ~cable /\ phy' = Down(phy) /\ lsc' = LostBy(phy)
      /\ scenario' = scenario /\ hw' = hw /\ reg' = reg /\ pc' = pc
      /\ result' = result /\ faults' = faults
  BY DEF MoveCable
<1>2. phy \in [Stations -> PhySet] /\ lsc \in [Stations -> BOOLEAN] BY Known
<1>3. /\ phy' \in [Stations -> PhySet]
      /\ \A x \in Stations : ~phy'[x].up /\ SameConfig(phy'[x], phy[x])
  BY <1>1, <1>2, DownEffect
<1>4. changes' \in 0 .. scenario.changes BY <1>1, Known
<1>5. lsc' \in [Stations -> BOOLEAN] BY <1>1, <1>2, LostByType
<1>6. LinkTypeOK' BY <1>1, <1>3, <1>4, <1>5, Known, TypedAfter
<1>7. \A x \in Stations : LinkOf(phy'[x], phy'[Other(x)], Done(Other(x)))
  BY <1>3 DEF LinkOf
<1>8. \A x \in Stations : phy'[x].aneg = phy[x].aneg
  BY <1>3 DEF SameConfig
<1>. QED BY <1>1, <1>3, <1>6, <1>7, <1>8, WorldKeeps

-----------------------------------------------------------------------------
(* The theorems.                                                           *)

(* The invariant holds at power-up.                                          *)
LEMMA LinkInit == Init => LinkInv
<1>. SUFFICES ASSUME Init PROVE LinkInv
  OBVIOUS
<1>1. /\ scenario \in Scenarios
      /\ hw = [s \in Stations |-> NewHw(scenario.settings[s])]
      /\ reg = [s \in Stations |->
           IF s \in Drivers THEN ResetRegisters
           ELSE ForeignRegisters(scenario.right, scenario.adv)]
      /\ phy = [s \in Stations |->
           IF s \in Drivers THEN NewPhy
           ELSE ForeignPhy(scenario.right, scenario.adv, scenario.duplex)]
      /\ pc = [s \in Stations |-> IF s \in Drivers THEN <<"setup", "start">>
                                  ELSE <<"none", "foreign">>]
      /\ cable \in BOOLEAN /\ lsc = [s \in Stations |-> FALSE]
      /\ result = [s \in Stations |-> [c \in Results |-> "none"]]
      /\ changes = 0 /\ faults = 0
  BY DEF Init
<1>2. /\ scenario.right \in {"driver", "auto", "fixed"}
      /\ scenario.settings \in [Stations -> Settings]
      /\ scenario.adv \in Abilities /\ scenario.duplex \in Duplexes
      /\ scenario.changes \in Nat /\ scenario.faults \in Nat
  BY <1>1, LinkAssumption
<1>3. hw \in [Stations -> HwSet] BY <1>1, <1>2, NewHwType
<1>4. reg \in [Stations -> RegSet]
      /\ \A s \in Drivers : reg[s].tfce = FALSE
  <2>1. ForeignRegisters(scenario.right, scenario.adv) \in RegSet
    BY <1>2 DEF ForeignRegisters, ResetRegisters, RegSet
  <2>. QED BY <1>1, <2>1, ResetType DEF Drivers
<1>5. /\ phy \in [Stations -> PhySet] /\ \A s \in Stations : ~phy[s].up
      /\ \A s \in Stations \ Drivers : phy[s].aneg = (scenario.right = "auto")
  <2>. DEFINE f == ForeignPhy(scenario.right, scenario.adv, scenario.duplex)
  <2>1. f \in PhySet /\ ~f.up /\ f.aneg = (scenario.right = "auto")
    BY <1>2 DEF ForeignPhy, NewPhy, PhySet, Mdis, Abilities, Duplexes
  <2>2. NewPhy \in PhySet /\ ~NewPhy.up
    BY DEF NewPhy, PhySet, Mdis, Abilities, Duplexes
  <2>. HIDE DEF f
  <2>3. phy = [s \in Stations |-> IF s \in Drivers THEN NewPhy ELSE f]
    BY <1>1 DEF f
  <2>. QED BY <2>1, <2>2, <2>3
<1>6. /\ pc \in [Stations -> PcSet]
      /\ \A s \in Drivers : pc[s] = <<"setup", "start">>
      /\ \A s \in Stations \ Drivers : pc[s] = <<"none", "foreign">>
  BY <1>1 DEF PcSet, Calls, Places, Drivers
<1>7. result \in [Stations -> ResultSet]
      /\ \A s \in Stations : result[s]["setup"] = "none"
                             /\ result[s]["looked"] = "none"
  BY <1>1 DEF ResultSet, Results, Calls
<1>8. changes \in 0 .. scenario.changes /\ faults \in 0 .. scenario.faults
      /\ lsc \in [Stations -> BOOLEAN]
  BY <1>1, <1>2
<1>9. Typed
  BY <1>1, <1>3, <1>4, <1>5, <1>6, <1>7, <1>8, TypeParts DEF Typed
<1>10. Control
  <2>. SUFFICES ASSUME NEW s \in Stations
                PROVE  ControlOf(s \in Drivers, pc[s], result[s])
    BY DEF Control
  <2>1. CASE s \in Drivers
    <3>1. /\ (s \in Drivers) = TRUE /\ pc[s] = <<"setup", "start">>
          /\ result[s]["setup"] = "none" /\ result[s]["looked"] = "none"
      BY <1>6, <1>7, <2>1
    <3>2. ControlOf(TRUE, pc[s], result[s])
      BY <3>1 DEF ControlOf, SetupPlaces
    <3>. QED BY <3>1, <3>2
  <2>2. CASE s \notin Drivers
    <3>1. pc[s] = <<"none", "foreign">> BY <1>6, <2>2
    <3>. QED BY <2>2, <3>1 DEF ControlOf
  <2>. QED BY <2>1, <2>2
<1>11. Foreign
  <2>1. \A s \in Stations \ Drivers : Kind(s) = scenario.right
    BY DEF Drivers, Kind
  <2>. QED BY <1>5, <2>1 DEF Foreign
<1>12. Cabled BY <1>5 DEF Cabled, LinkOf
<1>13. Asked
  <2>1. \A s \in Drivers : ~DoneOf(pc[s], result[s])
    BY <1>6, <1>7 DEF DoneOf, Drivers
  <2>. QED BY <1>4, <1>6, <2>1 DEF Asked, AskedOf
<1>14. Flow BY <1>5 DEF Flow, FlowOf, Drivers
<1>. QED BY <1>9, <1>10, <1>11, <1>12, <1>13, <1>14 DEF LinkInv

(* Every step of a driver keeps the invariant.                               *)
LEMMA DriverKeeps ==
  ASSUME LinkInv, NEW s \in Stations, Driver(s)
  PROVE  LinkInv'
<1>1. s \in Drivers /\ LocalStep(s)
  BY StartSetupStep, SetupPhyStep, CopperAutonegStep, ForceSpeedDuplexStep,
     PollCopperStep, SetFcWatermarksStep, ForceCurrentStep,
     ReadAutonegStatusStep, ReadAbilitiesStep, ApplyResolvedStep,
     CheckForCopperLinkStep, ClearLinkStatusStep, LinkInterruptStep,
     RestartStep, SetupFiberStep, PollFiberStep, CheckForFiberLinkStep
  DEF Driver
<1>. QED BY <1>1, LocalStepKeeps

(* So does every step.                                                       *)
LEMMA LinkStep == LinkInv /\ [Next]_linkVars => LinkInv'
<1>. SUFFICES ASSUME LinkInv, [Next]_linkVars PROVE LinkInv'
  OBVIOUS
<1>1. CASE \E s \in Stations : Driver(s) BY <1>1, DriverKeeps
<1>2. CASE CopperNegotiates BY <1>2, CopperNegotiatesKeeps
<1>3. CASE FiberNegotiates BY <1>3, FiberNegotiatesKeeps
<1>4. CASE MoveCable BY <1>4, MoveCableKeeps
<1>5. CASE UNCHANGED linkVars
  BY <1>5 DEF linkVars, LinkInv, Typed, LinkTypeOK, Control, Foreign, Copper,
              Drivers, Kind, Cabled, Done, Asked, Flow
<1>. QED BY <1>1, <1>2, <1>3, <1>4, <1>5 DEF Next

(* The inductive invariant holds of the specification.                       *)
LEMMA LinkInvariant == Spec => []LinkInv
BY LinkInit, LinkStep, PTL DEF Spec

(* Every variable of the link keeps its type, with any number of moves and   *)
(* failures: hw.fc.current_mode is always one of the four modes              *)
(* (e1000_mac.c:1410-1510), and a call always returns where it was called.   *)
THEOREM LinkTypesHold == Spec => []LinkTypeOK
<1>1. LinkInv => LinkTypeOK BY DEF LinkInv, Typed
<1>. QED BY <1>1, LinkInvariant, PTL

(* A copper set-up that succeeded has told the PHY all that the client asked *)
(* for, whatever set-ups failed half way before it and in whatever mode they *)
(* were (e1000_phy.c:801-948, 1229-1344, 1420-1524).                         *)
THEOREM SetupIsCompleteHolds == Spec => []SetupIsComplete
<1>1. ASSUME LinkInv PROVE SetupIsComplete
  <2>. SUFFICES ASSUME NEW s \in Stations, Copper, pc[s][2] = "idle",
                       result[s]["setup"] = "ok"
                PROVE  /\ phy[s].aneg = hw[s].autoneg
                       /\ phy[s].mdi = IF hw[s].autoneg
                                         THEN MdiSetting(hw[s].mdix) ELSE "mdi"
                       /\ IF hw[s].autoneg
                            THEN /\ phy[s].adv = Advertised(hw[s].requested)
                                 /\ phy[s].duplexes = hw[s].autoneg_advertised
                            ELSE phy[s].duplex = hw[s].forced_speed_duplex
    BY DEF SetupIsComplete, At
  <2>1. WrittenOf(hw[s], reg[s], phy[s])
    BY <1>1, Where DEF AskedOf, DoneOf
  <2>. QED BY <2>1 DEF WrittenOf
<1>. QED BY <1>1, LinkInvariant, PTL

(* Two ends of a copper link that have settled agree: neither sends PAUSE    *)
(* frames to one that does not obey them (e1000_mac.c:1410-1510). What makes *)
(* it true is that both have resolved the same negotiation: a new one leaves *)
(* an interrupt pending, and a PHY whose settings were rewritten has lost    *)
(* its link. Accesses may have failed before; an end where the last look at  *)
(* the link was cut short by one has not settled, though its next check      *)
(* returns success (708-709), and nothing is said of it.                     *)
THEOREM PauseAgreesHolds == Spec => []PauseAgrees
<1>1. ASSUME LinkInv PROVE PauseAgrees
  <2>. SUFFICES ASSUME NEW s \in Stations, Copper, Settled(s), reg[s].tfce,
                       Other(s) \in Drivers => Settled(Other(s))
                PROVE  ObeysPause(Other(s))
    BY DEF PauseAgrees
  <2>. DEFINE o == Other(s)
  <2>0. /\ o \in Stations /\ Other(o) = s BY Ends
  <2>. HIDE DEF o
  (* What holds at an end that has settled and negotiates.                 *)
  <2>1. ASSUME NEW x \in Stations, Settled(x), hw[x].autoneg
        PROVE  /\ x \in Drivers /\ phy[x].up /\ phy[x].aneg
               /\ hw[x].requested \in Modes
               /\ phy[x].adv = Advertised(hw[x].requested)
               /\ reg[x].tfce = Sends(Decided(hw[x], phy[x]))
               /\ reg[x].rfce = Obeys(Decided(hw[x], phy[x]))
    <3>1. /\ x \in Drivers /\ pc[x][2] = "idle" /\ phy[x].up
          /\ ~lsc[x] /\ ~hw[x].get_link_status
          /\ result[x]["setup"] = "ok" /\ result[x]["looked"] = "ok"
      BY <2>1 DEF Settled, Quiet, At
    <3>2. /\ AskedOf(pc[x], result[x], hw[x], reg[x], phy[x])
          /\ FlowOf(pc[x], result[x], hw[x], reg[x], phy[x], lsc[x])
      BY <1>1, <3>1 DEF LinkInv, Asked, Flow
    <3>3. WrittenOf(hw[x], reg[x], phy[x])
      BY <3>1, <3>2 DEF AskedOf, DoneOf
    <3>. QED BY <2>1, <3>1, <3>2, <3>3 DEF WrittenOf, FlowOf
  <2>2. hw[s].autoneg
    <3>1. s \in Drivers BY DEF Settled, Quiet
    <3>2. AskedOf(pc[s], result[s], hw[s], reg[s], phy[s])
      BY <1>1, <3>1 DEF LinkInv, Asked
    <3>. QED BY <3>2 DEF AskedOf
  <2>3. /\ s \in Drivers /\ phy[s].up /\ phy[s].aneg
        /\ hw[s].requested \in Modes
        /\ phy[s].adv = Advertised(hw[s].requested)
        /\ Sends(Decided(hw[s], phy[s]))
    BY <2>1, <2>2
  (* The link is not half duplex, or s would not send.                     *)
  <2>4. /\ phy[s].resolved # "half"
        /\ Sends(Resolved(hw[s].requested, phy[s].adv, phy[s].lp))
    BY <2>3 DEF Decided, Sends
  <2>5. LinkOf(phy[s], phy[o], Done(o)) BY <1>1 DEF LinkInv, Cabled, o
  <2>6. LinkOf(phy[o], phy[s], Done(s))
    BY <1>1, <2>0 DEF LinkInv, Cabled
  <2>7. phy[o].aneg
    <3>1. ~phy[o].aneg => phy[s].lp = {} BY <2>3, <2>5 DEF LinkOf
    <3>2. ~Sends(Resolved(hw[s].requested, phy[s].adv, {}))
      BY <2>3, ResolvedBits
    <3>. QED BY <2>4, <3>1, <3>2
  <2>8. Done(s) BY DEF Settled, Quiet, Done, DoneOf
  <2>9. CASE o \in Drivers
    <3>1. Settled(o) BY <2>9 DEF o
    <3>2. hw[o].autoneg
      <4>1. DoneOf(pc[o], result[o]) BY <3>1 DEF Settled, Quiet, DoneOf
      <4>2. AskedOf(pc[o], result[o], hw[o], reg[o], phy[o])
        BY <1>1, <2>9 DEF LinkInv, Asked
      <4>. QED BY <2>7, <4>1, <4>2 DEF AskedOf, WrittenOf
    <3>3. /\ phy[o].up /\ hw[o].requested \in Modes
          /\ phy[o].adv = Advertised(hw[o].requested)
          /\ reg[o].rfce = Obeys(Decided(hw[o], phy[o]))
      BY <2>0, <2>1, <3>1, <3>2
    <3>4. Done(o) BY <3>1 DEF Settled, Quiet, Done, DoneOf
    <3>5. /\ phy[s].lp = phy[o].adv /\ phy[o].lp = phy[s].adv
          /\ phy[s].resolved = phy[o].resolved
      BY <2>3, <2>5, <2>6, <2>7, <2>8, <3>3, <3>4 DEF LinkOf
    <3>6. Obeys(Resolved(hw[o].requested, phy[o].adv, phy[o].lp))
      BY <2>3, <2>4, <3>3, <3>5, TwoDriversAgree
    <3>7. reg[o].rfce BY <2>4, <3>3, <3>5, <3>6 DEF Decided
    <3>. QED BY <2>9, <3>7 DEF ObeysPause, o
  <2>10. CASE o \notin Drivers
    <3>1. Kind(o) = "auto"
      BY <1>1, <2>0, <2>7, <2>10 DEF LinkInv, Foreign
    <3>2. Done(o) BY <2>10 DEF Done
    <3>3. phy[s].lp = phy[o].adv
      BY <2>3, <2>5, <2>7, <3>2 DEF LinkOf
    <3>4. phy[o].adv \in Abilities
      <4>1. phy[o] \in PhySet BY <1>1, <2>0, Known
      <4>. QED BY <4>1 DEF PhySet
    <3>5. StandardObeys(phy[o].adv, phy[s].adv)
      BY <2>3, <2>4, <3>3, <3>4, StandardPartnerAgrees
    <3>. QED BY <2>0, <2>10, <3>1, <3>5 DEF ObeysPause, o
  <2>. QED BY <2>9, <2>10
<1>. QED BY <1>1, LinkInvariant, PTL
=============================================================================
