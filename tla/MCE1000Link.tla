---------------------------- MODULE MCE1000Link -----------------------------
EXTENDS E1000Link

Auto(mode, duplexes, mdix) ==
  [requested |-> mode, autoneg |-> TRUE, duplexes |-> duplexes, mdix |-> mdix]

(* Every mode, the default, half duplex only, and a forced mode.           *)
Fixed == [requested |-> "full", autoneg |-> FALSE, duplexes |-> {}, mdix |-> 0]
MCSettings ==
  {Auto("default", {}, 0), Auto("rx_pause", {}, 2), Auto("tx_pause", {}, 0),
   Auto("none", {}, 3), Auto("full", {"half"}, 0), Fixed}
MCNvmWord0F == {"PAUSE"}

Two(media, pairs, c, f) ==
  {[media |-> media, right |-> "driver", settings |-> p, adv |-> {}, duplex |-> "full",
    changes |-> c, faults |-> f] : p \in pairs}
One(media, right, set, c, f) ==
  {[media |-> media, right |-> right, settings |-> [x \in Stations |-> s], adv |-> a,
    duplex |-> d, changes |-> c, faults |-> f] :
    s \in set, a \in IF right = "fixed" THEN {{}} ELSE Abilities,
    d \in IF right = "fixed" /\ media = "copper" THEN Duplexes ELSE {"full"}}

Default == Auto("default", {}, 0)
Receive == Auto("rx_pause", {}, 2)
Transmit == Auto("tx_pause", {}, 0)
Pairs(l, r) == {p \in [Stations -> MCSettings] : p[Left] \in l /\ p[Right] \in r}

MCScenarios ==
  Two("copper", Pairs({Transmit}, {Receive, Auto("full", {"half"}, 0), Fixed}), 0, 0)
  \cup Two("copper", Pairs({Default}, {Receive}), 1, 0)
  \cup One("copper", "auto", {Receive, Fixed}, 1, 2)
  \cup One("copper", "fixed", {Default}, 1, 0)
  \cup Two("fiber", Pairs({Default}, {Transmit}), 1, 0)
  \cup One("fiber", "auto", {Receive}, 2, 1) \cup One("fiber", "fixed", {Receive}, 2, 1)
  \cup Two("serdes", Pairs({Default}, {Transmit}), 1, 0)
  \cup One("serdes", "auto", {Receive}, 1, 0) \cup One("serdes", "fixed", {Receive}, 1, 0)
=============================================================================
