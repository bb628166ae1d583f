----------------------------- MODULE E1000Pause -----------------------------
(***************************************************************************)
(* Flow control of the e1000 code as operators: what a mode advertises,    *)
(* how the two advertisements are resolved, what each mode sends and       *)
(* obeys.  A mode is a value of enum e1000_fc_mode.                        *)
(***************************************************************************)

Modes == {"none", "rx_pause", "tx_pause", "full"}

(* The PAUSE bits of an advertisement (PHY_AUTONEG_ADV or TXCW).           *)
Abilities == SUBSET {"PAUSE", "ASM_DIR"}

(* What a station with this mode advertises.  Receive only cannot be said; *)
(* it is advertised as full.                                               *)
Advertised(mode) ==
  CASE mode = "none"     -> {}
    [] mode = "tx_pause" -> {"ASM_DIR"}
    [] OTHER             -> {"PAUSE", "ASM_DIR"}

(* TXCW of e1000_commit_fc_settings_generic has the same table.            *)
CodeWord(mode) == Advertised(mode)

(* Mutant: the partner's PAUSE bit is not looked at before sending.        *)
ResolvedTx(requested, local, partner) ==
  CASE "PAUSE" \in local \cap partner ->
         IF requested = "full" THEN "full" ELSE "rx_pause"
    [] /\ "PAUSE" \notin local /\ "ASM_DIR" \in local
       /\ "ASM_DIR" \in partner -> "tx_pause"
    [] /\ {"PAUSE", "ASM_DIR"} \subseteq local
       /\ "PAUSE" \notin partner /\ "ASM_DIR" \in partner -> "rx_pause"
    [] OTHER -> "none"

(* The mode that follows from both advertisements and from the request.    *)
Resolved(requested, local, partner) ==
  CASE "PAUSE" \in local \cap partner ->
         IF requested = "full" THEN "full" ELSE "rx_pause"
    [] /\ "PAUSE" \notin local /\ "ASM_DIR" \in local
       /\ {"PAUSE", "ASM_DIR"} \subseteq partner -> "tx_pause"
    [] /\ {"PAUSE", "ASM_DIR"} \subseteq local
       /\ "PAUSE" \notin partner /\ "ASM_DIR" \in partner -> "rx_pause"
    [] OTHER -> "none"

(* The bits of CTRL that a mode sets: TFCE sends PAUSE, RFCE obeys it.     *)
Sends(mode) == mode \in {"tx_pause", "full"}
Obeys(mode) == mode \in {"rx_pause", "full"}

(* What a station that follows IEEE 802.3 annex 28B obeys and sends, given *)
(* its own advertisement and the partner's.                                *)
StandardObeys(local, partner) ==
  \/ "PAUSE" \in local \cap partner
  \/ /\ {"PAUSE", "ASM_DIR"} \subseteq local
     /\ "PAUSE" \notin partner /\ "ASM_DIR" \in partner
StandardSends(local, partner) ==
  \/ "PAUSE" \in local \cap partner
  \/ /\ "PAUSE" \notin local /\ "ASM_DIR" \in local
     /\ {"PAUSE", "ASM_DIR"} \subseteq partner
=============================================================================
