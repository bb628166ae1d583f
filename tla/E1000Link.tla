----------------------------- MODULE E1000Link ------------------------------
(***************************************************************************)
(* The link between an 82540-family adapter and its partner: set-up,       *)
(* autonegotiation and flow control of the shared e1000 code (e1000_mac.c, *)
(* e1000_phy.c, e1000_82540.c) on copper, fiber and SERDES.                *)
(*                                                                         *)
(* The partner runs the same code, or is a foreign station that either     *)
(* negotiates or has a fixed mode.  The code reaches the copper PHY over   *)
(* MDIO: every access may fail, and between two of them the link may drop, *)
(* come back with other partners' abilities, and interrupt.                *)
(***************************************************************************)
EXTENDS Naturals, FiniteSets, E1000Pause

CONSTANTS
  Left, Right,       (* the two ends of the cable                          *)
  Settings,          (* the settings the client of the code may choose     *)
  NvmWord0F,         (* the PAUSE bits of NVM word 0x0F                    *)
  Scenarios          (* a behaviour has one: the medium, what Right is,    *)
                     (* the first settings of drivers, adv and duplex of a *)
                     (* foreign station, and the bounds on moves of the    *)
                     (* cable with restarts, and on accesses that fail     *)

Stations == {Left, Right}
Duplexes == {"half", "full"}
Calls    == {"setup", "check"}
Results  == Calls \cup {"looked"}
Mdis     == {"auto", "mdi", "mdix", "auto1000"}

ASSUME LinkAssumption ==
  /\ Left # Right
  /\ NvmWord0F \in Abilities
  /\ Settings \subseteq [requested : Modes \cup {"default"}, autoneg : BOOLEAN,
                         duplexes : SUBSET Duplexes, mdix : 0 .. 3]
  /\ Scenarios \subseteq [media : {"copper", "fiber", "serdes"},
                           right : {"driver", "auto", "fixed"},
                           settings : [Stations -> Settings],
                           adv : Abilities, duplex : Duplexes,
                           changes : Nat, faults : Nat]

VARIABLES
  scenario,          (* the scenario of this behaviour                     *)
  cable,             (* the two are connected                              *)
  hw,                (* struct e1000_hw of each driver                     *)
  reg,               (* MAC registers: CTRL, TXCW, and whether FCRTH # 0   *)
  phy,               (* PHY registers, or the PCS of the MAC on fiber      *)
  lsc,               (* a link status change interrupt is pending          *)
  pc,                (* each driver: the call it is in, and where          *)
  result,            (* what the last set-up returned, the last check, and *)
                     (* the last check that looked at the link             *)
  changes, faults    (* how much of the two bounds is used                 *)

linkVars == <<scenario, cable, hw, reg, phy, lsc, pc, result, changes, faults>>

Other(s) == IF s = Left THEN Right ELSE Left
Copper   == scenario.media = "copper"
Kind(s)  == IF s = Left THEN "driver" ELSE scenario.right
Drivers  == {s \in Stations : Kind(s) = "driver"}

(* The state of hw, of the registers and of the PHY after power-up.        *)
NewHw(set) ==
  [requested |-> set.requested, current |-> "none", autoneg |-> set.autoneg,
   autoneg_advertised |-> set.duplexes,
   forced_speed_duplex |-> IF set.duplexes = {"half"} THEN "half" ELSE "full",
   mdix |-> IF ~set.autoneg /\ set.mdix \in {0, 3} THEN 1 ELSE set.mdix,
   autoneg_failed |-> FALSE, get_link_status |-> FALSE,
   serdes_has_link |-> FALSE, txcw |-> {}]
ResetRegisters ==
  [slu |-> FALSE, frcdpx |-> FALSE, fd |-> FALSE, rfce |-> FALSE, tfce |-> FALSE,
   lrst |-> TRUE, ane |-> FALSE, txcw |-> {}, fcrth |-> FALSE]
NewPhy ==
  [adv |-> {}, duplexes |-> Duplexes, aneg |-> TRUE, duplex |-> "full",
   pscr |-> "auto", mdi |-> "auto",
   up |-> FALSE, complete |-> FALSE, lp |-> {}, resolved |-> "half"]

(* A foreign station, as the code expects it: on fiber it transmits /C/    *)
(* until negotiation is complete, or idles only.                           *)
ForeignRegisters(k, adv) ==
  [ResetRegisters EXCEPT !.lrst = FALSE, !.ane = (k = "auto"),
                         !.txcw = adv, !.slu = (k = "fixed")]
ForeignPhy(k, adv, d) ==
  [NewPhy EXCEPT !.adv = adv, !.aneg = (k = "auto"), !.duplex = d]

Init ==
  /\ scenario \in Scenarios
  /\ hw = [s \in Stations |-> NewHw(scenario.settings[s])]
  /\ reg = [s \in Stations |->
       IF s \in Drivers THEN ResetRegisters
       ELSE ForeignRegisters(scenario.right, scenario.adv)]
  /\ phy = [s \in Stations |->
       IF s \in Drivers THEN NewPhy
       ELSE ForeignPhy(scenario.right, scenario.adv, scenario.duplex)]
  /\ pc = [s \in Stations |-> IF s \in Drivers THEN <<"setup", "start">>
                               ELSE <<"none", "foreign">>]
  /\ cable \in BOOLEAN
  /\ lsc = [s \in Stations |-> FALSE]
  /\ result = [s \in Stations |-> [c \in Results |-> "none"]]
  /\ changes = 0 /\ faults = 0

-----------------------------------------------------------------------------
(* The cable, the PHYs and the PCS.                                        *)

(* On fiber: /C/ ordered sets are sent while negotiation is not complete.  *)
SendsC(s) == ~reg[s].lrst /\ reg[s].ane /\ ~phy[s].complete
RxC(s)    == cable /\ SendsC(Other(s))
Sync(s)   == cable /\ ~reg[Other(s)].lrst
LinkUp(s, r) == phy[s].complete \/ (r.slu /\ Sync(s))   (* STATUS.LU       *)

(* The link is lost on both sides, p being the PHYs before.                *)
Down(p) == [s \in Stations |-> [p[s] EXCEPT !.up = FALSE, !.complete = FALSE]]
LostBy(p) == [s \in Stations |-> lsc[s] \/ p[s].up]

(* The copper PHYs find a common mode.  One that negotiates with one that  *)
(* does not finds out the speed only, and is half duplex.                  *)
Negotiated(s) ==
  LET me == phy[s] p == phy[Other(s)] IN
  [me EXCEPT !.up = TRUE, !.complete = me.aneg,
             !.lp = IF me.aneg /\ p.aneg THEN p.adv ELSE {},
             !.resolved = IF ~me.aneg THEN me.duplex
                          ELSE IF p.aneg /\ "full" \in me.duplexes \cap p.duplexes
                                 THEN "full" ELSE "half"]

CopperNegotiates ==
  /\ Copper /\ cable /\ ~phy[Left].up
  /\ (phy[Left].aneg /\ phy[Right].aneg) => phy[Left].duplexes \cap phy[Right].duplexes # {}
  /\ phy' = [s \in Stations |-> Negotiated(s)]
  /\ lsc' = [s \in Stations |-> TRUE]
  /\ UNCHANGED <<scenario, cable, hw, reg, pc, result, changes, faults>>

(* On fiber the MAC negotiates and sets its own flow control bits.         *)
FiberNegotiates ==
  /\ ~Copper /\ cable /\ SendsC(Left) /\ SendsC(Right)
  /\ phy' = [s \in Stations |-> [phy[s] EXCEPT !.complete = TRUE]]
  /\ reg' = [s \in Stations |->
       LET mine == reg[s].txcw theirs == reg[Other(s)].txcw IN
       [reg[s] EXCEPT !.rfce = StandardObeys(mine, theirs),
                      !.tfce = StandardSends(mine, theirs)]]
  /\ UNCHANGED <<scenario, cable, hw, lsc, pc, result, changes, faults>>

MoveCable ==
  /\ changes < scenario.changes
  /\ changes' = changes + 1
  /\ cable' = ~cable
  /\ phy' = Down(phy) /\ lsc' = LostBy(phy)
  /\ UNCHANGED <<scenario, hw, reg, pc, result, faults>>

-----------------------------------------------------------------------------
(* The driver.  A call that fails returns at once.                         *)

At(s, place)   == pc[s][2] = place
Goto(s, place) == pc' = [pc EXCEPT ![s][2] = place] /\ UNCHANGED result
Note(s, call, status) ==
  LET noted == IF call = "check" THEN {"check", "looked"} ELSE {call} IN
  result' = [result EXCEPT ![s] =
               [c \in Results |-> IF c \in noted THEN status ELSE result[s][c]]]
Return(s, status) ==
  /\ pc' = [pc EXCEPT ![s] = <<"none", "idle">>]
  /\ Note(s, pc[s][1], status)

Fault == faults < scenario.faults /\ faults' = faults + 1
FailsAt(s) == Fault /\ Return(s, "error")
SetHw(s, h) == hw' = [hw EXCEPT ![s] = h]
SetReg(s, r) == reg' = [reg EXCEPT ![s] = r]

world == <<scenario, cable, changes>>

(* e1000_reset_hw and e1000_init_hw with new settings.  The reset takes    *)
(* the MAC's registers back; on fiber the link is held in reset.           *)
Restart(s) ==
  /\ At(s, "idle") /\ changes < scenario.changes
  /\ changes' = changes + 1
  /\ \E set \in Settings :
       SetHw(s, [NewHw(set) EXCEPT !.autoneg_failed = hw[s].autoneg_failed,
                                  !.get_link_status = hw[s].get_link_status,
                                  !.serdes_has_link = hw[s].serdes_has_link,
                                  !.txcw = hw[s].txcw, !.current = hw[s].current])
  /\ SetReg(s, ResetRegisters)
  /\ phy' = IF Copper THEN phy ELSE Down(phy)
  /\ lsc' = [lsc EXCEPT ![s] = FALSE]
  /\ pc' = [pc EXCEPT ![s] = <<"setup", "start">>]
  /\ result' = [result EXCEPT ![s] = [c \in Results |-> "none"]]
  /\ UNCHANGED <<scenario, cable, faults>>

(* NVM word 0x0F names the mode that "default" stands for.                 *)
DefaultMode == CASE NvmWord0F = {}          -> "none"
                 [] NvmWord0F = {"ASM_DIR"} -> "tx_pause"
                 [] OTHER                   -> "full"

(* Mutant: the default is looked up after the mode was saved.              *)
StartSetupKeepsDefault(s) ==
  /\ At(s, "start")
  /\ \/ /\ hw[s].requested = "default" /\ FailsAt(s)
        /\ UNCHANGED hw
     \/ /\ LET mode == IF hw[s].requested = "default" THEN DefaultMode
                       ELSE hw[s].requested
          IN SetHw(s, [hw[s] EXCEPT !.requested = mode, !.current = hw[s].requested])
        /\ Goto(s, IF Copper THEN "phy" ELSE "fiber") /\ UNCHANGED faults
  /\ UNCHANGED <<world, reg, phy, lsc>>

StartSetup(s) ==
  /\ At(s, "start")
  /\ \/ /\ hw[s].requested = "default" /\ FailsAt(s)
        /\ UNCHANGED hw
     \/ /\ LET mode == IF hw[s].requested = "default" THEN DefaultMode
                       ELSE hw[s].requested
          IN SetHw(s, [hw[s] EXCEPT !.requested = mode, !.current = mode])
        /\ Goto(s, IF Copper THEN "phy" ELSE "fiber") /\ UNCHANGED faults
  /\ UNCHANGED <<world, reg, phy, lsc>>

-----------------------------------------------------------------------------
(* Copper set-up.                                                          *)

(* The crossover field of M88E1000_PHY_SPEC_CTRL.                          *)
MdiSetting(mdix) == CASE mdix = 1 -> "mdi" [] mdix = 2 -> "mdix"
                      [] mdix = 3 -> "auto1000" [] OTHER -> "auto"

(* e1000_phy_sw_reset_generic: what was written to the PHY takes effect,   *)
(* and the link is lost.                                                   *)
Commit(p, s) == Down([p EXCEPT ![s].mdi = p[s].pscr])

(* Mutant: the PHY is not reset after its registers were written.          *)
SetupPhyNoCommit(s) ==
  /\ At(s, "phy")
  /\ SetReg(s, [reg[s] EXCEPT !.slu = TRUE, !.frcdpx = FALSE])
  /\ LET written == [phy EXCEPT ![s].pscr = MdiSetting(hw[s].mdix)] IN
     \/ FailsAt(s) /\ phy' \in {phy, written} /\ UNCHANGED lsc
     \/ /\ phy' = Down(written) /\ lsc' = LostBy(phy)
        /\ Goto(s, "media") /\ UNCHANGED faults
  /\ UNCHANGED <<world, hw>>

(* e1000_setup_copper_link_82540 with e1000_copper_link_setup_m88: it      *)
(* fails before or after the PHY's control register was written.           *)
SetupPhy(s) ==
  /\ At(s, "phy")
  /\ SetReg(s, [reg[s] EXCEPT !.slu = TRUE, !.frcdpx = FALSE])
  /\ LET written == [phy EXCEPT ![s].pscr = MdiSetting(hw[s].mdix)] IN
     \/ FailsAt(s) /\ phy' \in {phy, written} /\ UNCHANGED lsc
     \/ /\ phy' = Commit(written, s) /\ lsc' = LostBy(phy)
        /\ Goto(s, "media") /\ UNCHANGED faults
  /\ UNCHANGED <<world, hw>>

(* e1000_phy_setup_autoneg: no duplex advertised means all.                *)
Advertise(s) ==
  LET all == IF hw[s].autoneg_advertised = {} THEN Duplexes
             ELSE hw[s].autoneg_advertised
  IN [phy EXCEPT ![s].adv = Advertised(hw[s].current), ![s].duplexes = all]

CopperAutoneg(s) ==
  /\ At(s, "media") /\ hw[s].autoneg
  /\ LET all == Advertise(s)[s].duplexes IN
     \/ /\ FailsAt(s) /\ phy' \in {phy, Advertise(s)}
        /\ SetHw(s, [hw[s] EXCEPT !.autoneg_advertised = all])
        /\ UNCHANGED lsc
     \/ /\ phy' = Down([Advertise(s) EXCEPT ![s].aneg = TRUE])
        /\ lsc' = LostBy(phy)
        /\ SetHw(s, [hw[s] EXCEPT !.autoneg_advertised = all, !.get_link_status = TRUE])
        /\ Goto(s, "poll") /\ UNCHANGED faults
  /\ UNCHANGED <<world, reg>>

(* e1000_phy_force_speed_duplex_m88, up to step n of four: the crossover   *)
(* is fixed, MAC and current mode are forced, the PHY is, it is reset.     *)
ForcedPhy(s, n) ==
  LET p0 == phy
      p1 == IF n >= 1 THEN [p0 EXCEPT ![s].pscr = "mdi"] ELSE p0
      p2 == IF n >= 3 THEN Down([p1 EXCEPT ![s].aneg = FALSE, ![s].duplex = hw[s].forced_speed_duplex])
            ELSE p1
  IN IF n >= 4 THEN Commit(p2, s) ELSE p2

(* An access that fails ends it after any of them.                         *)
ForceSpeedDuplex(s) ==
  /\ At(s, "media") /\ ~hw[s].autoneg
  /\ \E n \in 0 .. 4 :
       /\ phy' = ForcedPhy(s, n)
       /\ lsc' = IF n >= 3 THEN LostBy(phy) ELSE lsc
       /\ IF n >= 2
            THEN /\ SetHw(s, [hw[s] EXCEPT !.current = "none"])
                 /\ SetReg(s, [reg[s] EXCEPT !.frcdpx = TRUE,
                                             !.fd = (hw[s].forced_speed_duplex = "full")])
            ELSE UNCHANGED <<hw, reg>>
       /\ \/ FailsAt(s)
          \/ n = 4 /\ Goto(s, "poll") /\ UNCHANGED faults
  /\ UNCHANGED world

(* The end of e1000_setup_copper_link_generic: look for link for 100 us.   *)
PollCopper(s) ==
  /\ At(s, "poll")
  /\ \/ FailsAt(s)
     \/ Goto(s, IF phy[s].up THEN "force" ELSE "watermarks") /\ UNCHANGED faults
  /\ UNCHANGED <<world, hw, reg, phy, lsc>>

(* The end of e1000_setup_link_generic.                                    *)
SetFcWatermarks(s) ==
  /\ At(s, "watermarks")
  /\ SetReg(s, [reg[s] EXCEPT !.fcrth = Sends(hw[s].current)])
  /\ Return(s, "ok")
  /\ UNCHANGED <<world, hw, phy, lsc, faults>>

-----------------------------------------------------------------------------
(* Flow control once the link is up.                                       *)

(* e1000_force_mac_fc_generic.                                             *)
ForceMacFc(r, mode) == [r EXCEPT !.rfce = Obeys(mode), !.tfce = Sends(mode)]

(* e1000_config_fc_after_link_up_generic returns into e1000_check_for_link *)
(* or into the set-up, which then sets the watermarks.                     *)
FcDone(s) == IF pc[s][1] = "setup" THEN Goto(s, "watermarks") ELSE Return(s, "ok")

(* Until it knows better the MAC gets the mode that hw has.                *)
ForceCurrent(s) ==
  /\ At(s, "force")
  /\ SetReg(s, ForceMacFc(reg[s], hw[s].current))
  /\ IF hw[s].autoneg THEN Goto(s, "status") ELSE FcDone(s)
  /\ UNCHANGED <<world, hw, phy, lsc, faults>>

ReadAutonegStatus(s) ==
  /\ At(s, "status")
  /\ \/ FailsAt(s)
     \/ /\ IF phy[s].complete THEN Goto(s, "abilities") ELSE FcDone(s)
        /\ UNCHANGED faults
  /\ UNCHANGED <<world, hw, reg, phy, lsc>>

ReadAbilities(s) ==
  /\ At(s, "abilities")
  /\ \/ FailsAt(s) /\ UNCHANGED hw
     \/ /\ SetHw(s, [hw[s] EXCEPT !.current =
                       Resolved(hw[s].requested, phy[s].adv, phy[s].lp)])
        /\ Goto(s, "duplex") /\ UNCHANGED faults
  /\ UNCHANGED <<world, reg, phy, lsc>>

(* STATUS.FD: what CTRL forces, or what the PHY tells.                     *)
Duplex(s) == IF reg[s].frcdpx THEN (IF reg[s].fd THEN "full" ELSE "half")
             ELSE phy[s].resolved

(* Mutant: the flag is cleared when flow control was set, not before.      *)
ApplyAndClear(s) ==
  /\ At(s, "duplex")
  /\ LET mode == IF Duplex(s) = "half" THEN "none" ELSE hw[s].current IN
     /\ SetHw(s, [hw[s] EXCEPT !.current = mode, !.get_link_status = FALSE])
     /\ SetReg(s, ForceMacFc(reg[s], mode))
  /\ FcDone(s)
  /\ UNCHANGED <<world, phy, lsc, faults>>

ApplyResolved(s) ==
  /\ At(s, "duplex")
  /\ LET mode == IF Duplex(s) = "half" THEN "none" ELSE hw[s].current IN
     /\ SetHw(s, [hw[s] EXCEPT !.current = mode])
     /\ SetReg(s, ForceMacFc(reg[s], mode))
  /\ FcDone(s)
  /\ UNCHANGED <<world, phy, lsc, faults>>

-----------------------------------------------------------------------------
(* The periodic check of a copper link.                                    *)

(* The interrupt handler's part, as e1000_mac.c:701-706 describes it.      *)
LinkInterrupt(s) ==
  /\ lsc[s] /\ s \in Drivers
  /\ lsc' = [lsc EXCEPT ![s] = FALSE]
  /\ SetHw(s, [hw[s] EXCEPT !.get_link_status = TRUE])
  /\ UNCHANGED <<world, reg, phy, pc, result, faults>>

(* A check looks at the link only if it is told to: otherwise it succeeds  *)
(* at once, whatever the last one that looked has returned.                *)
CheckForCopperLink(s) ==
  /\ Copper /\ At(s, "idle")
  /\ \/ /\ ~hw[s].get_link_status /\ UNCHANGED <<pc, faults>>
        /\ result' = [result EXCEPT ![s].check = "ok"]
     \/ /\ hw[s].get_link_status
        /\ \/ Fault /\ Note(s, "check", "error") /\ UNCHANGED pc
           \/ ~phy[s].up /\ Note(s, "check", "ok") /\ UNCHANGED <<pc, faults>>
           \/ /\ phy[s].up /\ UNCHANGED <<result, faults>>
              /\ pc' = [pc EXCEPT ![s] = <<"check", "clear">>]
  /\ UNCHANGED <<world, hw, reg, phy, lsc>>

(* With a forced mode the check ends here, and says so with an error.      *)
ClearLinkStatus(s) ==
  /\ At(s, "clear")
  /\ SetHw(s, [hw[s] EXCEPT !.get_link_status = FALSE])
  /\ IF hw[s].autoneg THEN Goto(s, "force") ELSE Return(s, "error")
  /\ UNCHANGED <<world, reg, phy, lsc, faults>>

-----------------------------------------------------------------------------
(* Fiber and SERDES.                                                       *)

Serdes == scenario.media = "serdes"
Signal == Serdes \/ cable     (* CTRL.SWDPIN1; SERDES does not look at it  *)

(* e1000_setup_fiber_serdes_link_82540 up to the polling.                  *)
SetupFiber(s) ==
  /\ At(s, "fiber")
  /\ \/ FailsAt(s) /\ UNCHANGED <<hw, reg>>
     \/ LET word == CodeWord(hw[s].current) IN
        /\ SetHw(s, [hw[s] EXCEPT !.txcw = word])
        /\ SetReg(s, [reg[s] EXCEPT !.txcw = word, !.ane = TRUE, !.lrst = FALSE])
        /\ Goto(s, IF Signal THEN "wait" ELSE "watermarks") /\ UNCHANGED faults
  /\ UNCHANGED <<world, phy, lsc>>

(* What the MAC does when it is made to force the link.                    *)
ForceLink(s, h) ==
  [h |-> h, r |-> ForceMacFc([reg[s] EXCEPT !.ane = FALSE, !.txcw = h.txcw,
                                           !.slu = TRUE, !.fd = TRUE], h.current)]
Renegotiate(s, h) ==
  [h |-> [h EXCEPT !.serdes_has_link = TRUE],
   r |-> [reg[s] EXCEPT !.ane = TRUE, !.txcw = h.txcw, !.slu = FALSE]]

(* e1000_check_for_fiber_link_generic, and the first half of the check of  *)
(* SERDES, with the hw h.                                                  *)
CheckFiber(s, h) ==
  IF Signal /\ ~LinkUp(s, reg[s]) /\ ~RxC(s)
    THEN IF h.autoneg_failed THEN ForceLink(s, h)
         ELSE [h |-> [h EXCEPT !.autoneg_failed = TRUE], r |-> reg[s]]
  ELSE IF reg[s].slu /\ RxC(s) THEN Renegotiate(s, h)
  ELSE [h |-> h, r |-> reg[s]]

(* The second half for SERDES: has it link?  It is left out when the check *)
(* waits for negotiation or forces the link.                               *)
SerdesHasLink(s, r) == Sync(s) /\ (r.ane => LinkUp(s, r))

CheckSerdes(s, h) ==
  LET c == CheckFiber(s, h) IN
  IF ~LinkUp(s, reg[s]) /\ ~RxC(s) THEN c
  ELSE [c EXCEPT !.h.serdes_has_link = SerdesHasLink(s, c.r)]

Check(s, h) == IF Serdes THEN CheckSerdes(s, h) ELSE CheckFiber(s, h)

CheckForFiberLink(s) ==
  /\ ~Copper /\ At(s, "idle")
  /\ SetHw(s, Check(s, hw[s]).h) /\ SetReg(s, Check(s, hw[s]).r)
  /\ result' = [result EXCEPT ![s].check = "ok"]
  /\ UNCHANGED <<world, phy, lsc, pc, faults>>

(* e1000_poll_fiber_serdes_link_generic sees link, or does not for 500 ms. *)
PollFiber(s) ==
  /\ At(s, "wait")
  /\ \/ LinkUp(s, reg[s]) /\ SetHw(s, [hw[s] EXCEPT !.autoneg_failed = FALSE])
        /\ UNCHANGED reg
     \/ LET c == Check(s, [hw[s] EXCEPT !.autoneg_failed = TRUE]) IN
        /\ ~LinkUp(s, reg[s])
        /\ SetHw(s, [c.h EXCEPT !.autoneg_failed = FALSE]) /\ SetReg(s, c.r)
  /\ Goto(s, "watermarks")
  /\ UNCHANGED <<world, phy, lsc, faults>>

-----------------------------------------------------------------------------
Driver(s) ==
  \/ Restart(s) \/ StartSetup(s)
  \/ SetupPhy(s) \/ CopperAutoneg(s) \/ ForceSpeedDuplex(s) \/ PollCopper(s)
  \/ SetupFiber(s) \/ PollFiber(s) \/ SetFcWatermarks(s)
  \/ ForceCurrent(s) \/ ReadAutonegStatus(s) \/ ReadAbilities(s) \/ ApplyResolved(s)
  \/ CheckForCopperLink(s) \/ ClearLinkStatus(s) \/ CheckForFiberLink(s)
  \/ LinkInterrupt(s)

Next ==
  \/ \E s \in Stations : Driver(s)
  \/ CopperNegotiates \/ FiberNegotiates \/ MoveCable

Spec == Init /\ [][Next]_linkVars

-----------------------------------------------------------------------------
(* Properties.                                                             *)

Places == {"idle", "foreign", "start", "phy", "media", "poll", "fiber", "wait",
           "watermarks", "force", "status", "abilities", "duplex", "clear"}

(* The types of the variables of the link code.                            *)
LinkTypeOK ==
  /\ cable \in BOOLEAN
  /\ hw \in [Stations ->
       [requested : Modes \cup {"default"}, current : Modes,
        autoneg : BOOLEAN, autoneg_advertised : SUBSET Duplexes,
        forced_speed_duplex : Duplexes, mdix : 0 .. 3, autoneg_failed : BOOLEAN,
        get_link_status : BOOLEAN, serdes_has_link : BOOLEAN, txcw : Abilities]]
  /\ reg \in [Stations ->
       [slu : BOOLEAN, frcdpx : BOOLEAN, fd : BOOLEAN, rfce : BOOLEAN, tfce : BOOLEAN,
        lrst : BOOLEAN, ane : BOOLEAN, txcw : Abilities, fcrth : BOOLEAN]]
  /\ phy \in [Stations ->
       [adv : Abilities, duplexes : SUBSET Duplexes, aneg : BOOLEAN, duplex : Duplexes,
        pscr : Mdis, mdi : Mdis, up : BOOLEAN, complete : BOOLEAN, lp : Abilities,
        resolved : Duplexes]]
  /\ lsc \in [Stations -> BOOLEAN]
  /\ pc \in [Stations -> (Calls \cup {"none"}) \X Places]
  /\ result \in [Stations -> [Results -> {"none", "ok", "error"}]]
  /\ changes \in 0 .. scenario.changes /\ faults \in 0 .. scenario.faults

(* A driver has no link change to look at, and the set-up of its link has  *)
(* succeeded.                                                              *)
Quiet(s) ==
  /\ s \in Drivers /\ At(s, "idle") /\ phy[s].up
  /\ ~lsc[s] /\ ~hw[s].get_link_status
  /\ result[s].setup = "ok"

(* A driver has nothing left to do: the last check that looked at the link *)
(* succeeded as well (a check of a forced mode never does).                *)
Settled(s) == Quiet(s) /\ (hw[s].autoneg => result[s].looked = "ok")

(* Whether the other end obeys the PAUSE frames that it is sent.           *)
ObeysPause(s) ==
  IF s \in Drivers THEN reg[s].rfce
  ELSE Kind(s) = "auto" /\ StandardObeys(phy[s].adv, phy[Other(s)].adv)

(* Two ends that have settled agree on flow control: neither sends PAUSE   *)
(* frames to one that does not obey them.  e1000_mac.c:1410-1510 decides   *)
(* it on each side alone, from registers read one after the other.  An end *)
(* whose last look at the link was cut short by an access that failed is   *)
(* not among them: PauseFollowsPartner is about that one.                  *)
PauseAgrees ==
  \A s \in Stations :
    /\ Copper /\ Settled(s) /\ reg[s].tfce
    /\ (Other(s) \in Drivers => Settled(Other(s)))
    => ObeysPause(Other(s))

(* "If auto-negotiation is enabled and did not fail, then we configure     *)
(* flow control based on our link partner" (e1000_mac.c:1351-1353): once   *)
(* the check of the link returns success, no PAUSE frames go to a partner  *)
(* that does not obey them.                                                *)
PauseFollowsPartner ==
  \A s \in Stations :
    /\ Copper /\ Quiet(s) /\ hw[s].autoneg /\ result[s].check = "ok"
    /\ phy[s].complete /\ reg[s].tfce
    /\ (Other(s) \in Drivers => Settled(Other(s)))
    => ObeysPause(Other(s))

(* When a copper set-up has succeeded, the PHY works with what the client  *)
(* asked for, however many set-ups failed half-way before, and in whatever *)
(* mode they were (e1000_phy.c:801-948, 1229-1344, 1420-1524).             *)
SetupIsComplete ==
  \A s \in Stations : Copper /\ At(s, "idle") /\ result[s].setup = "ok" =>
    /\ phy[s].aneg = hw[s].autoneg
    /\ phy[s].mdi = IF hw[s].autoneg THEN MdiSetting(hw[s].mdix) ELSE "mdi"
    /\ IF hw[s].autoneg
         THEN /\ phy[s].adv = Advertised(hw[s].requested)
              /\ phy[s].duplexes = hw[s].autoneg_advertised
         ELSE phy[s].duplex = hw[s].forced_speed_duplex

(* What a driver does of its own; only Restart is the client's choice.     *)
Works(s) ==
  \/ StartSetup(s)
  \/ SetupPhy(s) \/ CopperAutoneg(s) \/ ForceSpeedDuplex(s) \/ PollCopper(s)
  \/ SetupFiber(s) \/ PollFiber(s) \/ SetFcWatermarks(s)
  \/ ForceCurrent(s) \/ ReadAutonegStatus(s) \/ ReadAbilities(s) \/ ApplyResolved(s)
  \/ CheckForCopperLink(s) \/ ClearLinkStatus(s) \/ CheckForFiberLink(s)

(* A call is carried on, the check is made again and again (the client's   *)
(* watchdog), interrupts are served and the hardware negotiates.           *)
Fairness ==
  /\ \A s \in Stations : WF_linkVars(Works(s)) /\ WF_linkVars(LinkInterrupt(s))
  /\ WF_linkVars(CopperNegotiates) /\ WF_linkVars(FiberNegotiates)
FairSpec == Spec /\ Fairness

CanNegotiate == \/ ~phy[Left].aneg \/ ~phy[Right].aneg
                \/ phy[Left].duplexes \cap phy[Right].duplexes # {}

(* With the cable in and every set-up done the link comes up for good: a   *)
(* forced fiber link gives way to a partner that negotiates, and is forced *)
(* for one that does not; on copper, if no access failed, both ends settle *)
(* (e1000_mac.c:694-933, 1124-1164).                                       *)
LinkConverges ==
  <>[](cable /\ CanNegotiate /\ \A s \in Drivers : result[s].setup = "ok")
  => <>[](\A s \in Drivers : IF Copper THEN faults = 0 => Settled(s)
                             ELSE LinkUp(s, reg[s]))
=============================================================================
