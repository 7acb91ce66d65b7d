-------------------------------- MODULE MCSc --------------------------------
EXTENDS Sc
MCNumPorts == [f \in Families |-> IF f = "TSI721" THEN 1 ELSE 2]
MCLists == {ALL_PORTS, <<0>>, <<1, 1>>}
MCMaxOps == [f \in Families |-> IF f = "RXS" THEN 6 ELSE 5]
K(sc, tx, prio, en) == [sc |-> sc, tx |-> tx, prio |-> prio, en |-> en]
MCKinds == [f \in Families |->
  CASE f = "CPS" -> {K("any", FALSE, {}, en) : en \in BOOLEAN}
    [] f = "TSI57X" -> {K("retries", TRUE, {}, TRUE), K("uc_pkts", FALSE, {}, TRUE), K("uc_pkts", FALSE, {1}, TRUE), K("disabled", TRUE, {}, TRUE)}
    [] f = "RXS" -> {K("bwidth", TRUE, {}, TRUE), K("fab_pkt", FALSE, {0}, TRUE), K("pkt", FALSE, {}, FALSE)}
    [] OTHER -> {}]
=============================================================================
