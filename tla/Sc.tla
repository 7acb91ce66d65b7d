--------------------------------- MODULE Sc ---------------------------------
(***************************************************************************)
(* Statistics counters (librio/src/*_SC.c and                              *)
(* RapidIO_Statistics_Counter_API.c).                                      *)
(*                                                                         *)
(* hw: on[p] (all counters of the port count), ctl[p][c] (what a counter   *)
(* counts) and cnt[p][c] (its value).  The counters of the RXS run freely  *)
(* and wrap; those of the other families start again when they are read.   *)
(*                                                                         *)
(* sw is the caller's rio_sc_dev_ctrs_t: num entries are allocated, valid  *)
(* of them are in use, entry i is for port pnum and has the n counters     *)
(* [sc, tx, total, inc] (inc is last_inc).                                 *)
(*                                                                         *)
(* seen[p][c] is how much a counter has counted since what it counts was   *)
(* chosen, or since its entry was initialised; unsure are the ports with a *)
(* counter whose configuration failed half way.                            *)
(***************************************************************************)
EXTENDS Dar, FiniteSets

CONSTANTS NumPorts,         \* by family
          Nums,             \* entries that the caller allocates
          Lists, Kinds,     \* port lists; [sc, tx, prio, en] of cfg, by family
          CtrMod,           \* modulus of an RXS counter: 2^32 in the device
          Bursts,           \* how much a counter counts at a time
          Lefts, MaxOps     \* accesses before a failure; steps, by family

VARIABLES fam, hw, sw, seen, unsure, last, ops
vars == <<fam, hw, sw, seen, unsure, last, ops>>

Families == {"CPS", "TSI721", "TSI57X", "RXS", "STD"}
Ports == 0..(NumPorts[fam] - 1)

(* Counters of a port: of the CPS a trace counter and two others; of the   *)
(* Tsi57x and RXS any two; of the Tsi721 a whole register and the two      *)
(* halves of one.                                                          *)
Ctrs == IF fam \in {"CPS", "TSI721"} THEN 0..2 ELSE 0..1
Entries == 1..(CHOOSE m \in {NumPorts[f] : f \in Families} : \A f \in Families : NumPorts[f] <= m)

Kind(sc, tx, prio) == [sc |-> sc, tx |-> tx, prio |-> prio]
Off == Kind("disabled", FALSE, {})
Ctr(k) == [sc |-> k.sc, tx |-> k.tx, total |-> 0, inc |-> 0]

(* cps_sc_info, tsi721_dev_ctrs *)
Fixed == CASE fam = "CPS" -> <<Kind("disabled", TRUE, {}), Kind("pa", TRUE, {}), Kind("pkt", FALSE, {})>>
           [] fam = "TSI721" -> <<Kind("msg", TRUE, {}), Kind("nwr_tx", TRUE, {}), Kind("nwr_ok_rx", FALSE, {})>>
           [] OTHER -> <<Off, Off>>

ClearedOnRead == fam # "RXS"
Unread(p, c, total) == IF ClearedOnRead THEN hw.cnt[p][c] ELSE (hw.cnt[p][c] - total) % CtrMod

-----------------------------------------------------------------------------
(* The entry for port p, 0 if there is none: the last one that a loop over *)
(* the entries in use finds.                                               *)
EntryOf(s, p) ==
  LET found == {i \in 1..s.valid : s.e[i].pnum = p}
  IN  IF found = {} THEN 0 ELSE CHOOSE i \in found : \A j \in found : j <= i

PortsOf(l) == GetPortList(l, NumPorts[fam], {})
Asked(l) == IF l = ALL_PORTS THEN NumPorts[fam] ELSE Len(l)

(* The checks of the parameters, which differ between the drivers. *)
InitOk(s, l) ==
  /\ PortsOf(l) # <<>>
  /\ CASE fam = "CPS" -> Len(PortsOf(l)) <= s.num
       [] fam = "TSI57X" -> Asked(l) <= s.num
       [] fam = "RXS" -> s.valid <= s.num
       [] fam = "TSI721" -> s.valid <= s.num /\ Len(PortsOf(l)) = 1
CfgOk(s, l) ==
  /\ PortsOf(l) # <<>> /\ s.valid <= s.num /\ Len(PortsOf(l)) <= s.valid
  /\ fam = "CPS" => s.valid # 0
ReadOk(s, l) ==
  /\ PortsOf(l) # <<>> /\ s.valid <= s.num
  /\ CASE fam = "CPS" -> s.valid # 0 /\ Len(PortsOf(l)) <= s.valid
       [] fam = "TSI57X" -> Len(PortsOf(l)) <= s.valid
       [] fam = "RXS" -> IF l = ALL_PORTS THEN s.num = NumPorts[fam] ELSE Len(l) <= s.num
       [] fam = "TSI721" -> Asked(l) <= s.num /\ Len(PortsOf(l)) = 1

(* *_rio_sc_init_dev_ctrs: entries for the ports of the list, in order. *)
InitDevCtrs(d, l) ==
  LET ps == PortsOf(l)
  IN  IF fam = "STD" THEN Fail(d, "STUBBED")
      ELSE IF ~InitOk(d.sw, l) THEN Fail(d, "INVALID")
      ELSE [d EXCEPT !.sw.valid = Len(ps),
              !.sw.e = [i \in DOMAIN @ |-> IF i <= Len(ps)
                          THEN [pnum |-> ps[i], n |-> Cardinality(Ctrs), c |-> [k \in Ctrs |-> Ctr(Fixed[k + 1])]]
                          ELSE @[i]]]

-----------------------------------------------------------------------------
(* rio_sc_cfg_cps_ctrs, for one entry: all counters of the port are        *)
(* switched, and cleared by reading them if that changed anything.         *)
CpsCfgPort(d, p, i, en) ==
  LET was == d.hw.on[p]
      a == Then(RegRead(d), LAMBDA x : RegWrite(x, [x.hw EXCEPT !.on[p] = en]))
      One(x, c) ==
        LET r == IF en = was THEN x ELSE RegWrite(x, [x.hw EXCEPT !.cnt[p][c] = 0])
            zero == IF en = was THEN r ELSE [r EXCEPT !.sw.e[i].c[c].total = 0, !.sw.e[i].c[c].inc = 0]
            k == IF en THEN Fixed[c + 1] ELSE Kind("disabled", TRUE, {})
        IN  IF Ok(r) THEN [zero EXCEPT !.sw.e[i].c[c].sc = k.sc, !.sw.e[i].c[c].tx = k.tx] ELSE r
  IN  Then(a, LAMBDA x : ForEach(x, Count(3), One))

(* rio_sc_cfg_tsi57x_ctr, for one entry.  The array that records which     *)
(* ports were met is initialised for port 0 only: the other ports look     *)
(* like repetitions.                                                       *)
T57Kind(k) == IF k.sc = "disabled" THEN Off
              ELSE Kind(k.sc, k.tx, IF k.sc = "retries" THEN {0, 1} ELSE k.prio)
T57Met(p) == p # 0
T57CfgPort(d, p, i, c, k) ==
  LET new == T57Kind(k)
      old == d.hw.ctl[p][c]
      a == Then(RegRead(d), LAMBDA x : RegWrite(x, [x.hw EXCEPT !.ctl[p][c] = new]))
      e == d.sw.e[i].c[c]
      fresh == e.sc # k.sc \/ e.tx # k.tx \/ old # new
  IN  IF T57Met(p) \/ d.sw.e[i].n # Cardinality(Ctrs) THEN Fail(d, "INVALID")
      ELSE Then(a, LAMBDA x :
             IF fresh THEN RegWrite([x EXCEPT !.sw.e[i].c[c] = Ctr(k)], [x.hw EXCEPT !.cnt[p][c] = 0]) ELSE x)

(* rio_sc_cfg_rxs_ctr, for one port.  When the counters are disabled the   *)
(* entry that is initialised is the one after the last: past the           *)
(* allocated ones there is nothing of the model's.                         *)
RxsCfgPort(d, p, c, k) ==
  LET i == EntryOf(d.sw, p)
      new == Kind(k.sc, k.tx, k.prio)
      a == IF k.en THEN RegWrite(d, [d.hw EXCEPT !.on[p] = TRUE]) ELSE d
      b == Then(Then(a, RegRead), LAMBDA x : RegWrite(x, [x.hw EXCEPT !.ctl[p][c] = new]))
      z == Then(b, LAMBDA x : IF d.hw.ctl[p][c] = new THEN x
             ELSE RegWrite([x EXCEPT !.sw.e[i].c[c] = Ctr(k)], [x.hw EXCEPT !.cnt[p][c] = 0]))
      next == d.sw.valid + 1
  IN  IF i = 0 THEN Then(a, LAMBDA x : Fail(x, "INVALID"))
      ELSE IF k.en THEN z
      ELSE Then(Then(z, LAMBDA x : RegWrite(x, [x.hw EXCEPT !.on[p] = FALSE])), LAMBDA x :
             IF next \in DOMAIN x.sw.e THEN [x EXCEPT !.sw.e[next].c = [j \in Ctrs |-> Ctr(Off)]] ELSE x)

(* What cannot be counted: packets need a priority, and the RXS counts     *)
(* bandwidth only as it is sent.                                           *)
KindOk(k) ==
  CASE fam = "TSI57X" -> k.sc \in {"disabled", "retries"} \/ (k.sc = "uc_pkts" /\ k.prio # {})
    [] fam = "RXS" -> k.sc \in {"disabled", "pkt"} \/ (k.sc = "fab_pkt" /\ k.prio # {}) \/ (k.sc = "bwidth" /\ k.tx)
    [] OTHER -> TRUE

(* The three functions: per port, the entry is looked for. *)
CfgCtr(d, l, c, k) ==
  LET One(x, p) ==
        LET i == EntryOf(x.sw, p)
        IN  CASE fam = "RXS" -> RxsCfgPort(x, p, c, k)
              [] fam # "RXS" /\ i = 0 -> Fail(x, "INVALID")
              [] fam = "CPS" /\ i # 0 -> CpsCfgPort(x, p, i, k.en)
              [] fam = "TSI57X" /\ i # 0 -> T57CfgPort(x, p, i, c, k)
  IN  IF ~CfgOk(d.sw, l) \/ ~KindOk(k) THEN Fail(d, "INVALID") ELSE ForEach(d, PortsOf(l), One)

-----------------------------------------------------------------------------
Added(e, n) == [e EXCEPT !.inc = n, !.total = @ + n]

(* A counter that a read sets to 0. *)
ReadClear(d, p, i, c) ==
  LET n == d.hw.cnt[p][c]
      a == RegWrite(d, [d.hw EXCEPT !.cnt[p][c] = 0])
  IN  IF Ok(a) THEN [a EXCEPT !.sw.e[i].c[c] = Added(@, n)] ELSE a

CpsReadPort(d, p, i) ==
  Then(RegRead(d), LAMBDA x :
    ForEach(x, Count(3), LAMBDA y, c :
      IF y.sw.e[i].c[c].sc # "disabled" /\ y.hw.on[p] THEN ReadClear(y, p, i, c) ELSE y))

T57ReadPort(d, p, i) ==
  IF T57Met(p) \/ d.sw.e[i].n # Cardinality(Ctrs) THEN Fail(d, "INVALID")
  ELSE ForEach(d, Count(2), LAMBDA y, c : IF y.sw.e[i].c[c].sc # "disabled" THEN ReadClear(y, p, i, c) ELSE y)

(* One register holds two counters. *)
T721ReadPort(d) ==
  LET a == ReadClear(d, 0, 1, 0)
      b == Then(a, RegRead)
      Both(x) == [x EXCEPT !.hw.cnt[0] = [@ EXCEPT ![1] = 0, ![2] = 0],
                           !.sw.e[1].c = [@ EXCEPT ![1] = Added(@, x.hw.cnt[0][1]), ![2] = Added(@, x.hw.cnt[0][2])]]
  IN  IF Ok(b) THEN Both(b) ELSE b

RxsReadPort_same(d, p, i) ==
  ForEach(d, Count(2), LAMBDA y, c :
    LET e == y.sw.e[i].c[c]
        l == e.total % CtrMod
        n == y.hw.cnt[p][c]
        tot == (e.total - l) + n + (IF l >= n THEN CtrMod ELSE 0)
    IN  IF e.sc = "disabled" THEN y
        ELSE Then(RegRead(y), LAMBDA x : [x EXCEPT !.sw.e[i].c[c].total = tot, !.sw.e[i].c[c].inc = tot - e.total]))

(* rxs_read_ctrs: the low part of the total is the counter as it was last  *)
(* read; a smaller value has wrapped.                                      *)
RxsReadPort(d, p, i) ==
  ForEach(d, Count(2), LAMBDA y, c :
    LET e == y.sw.e[i].c[c]
        l == e.total % CtrMod
        n == y.hw.cnt[p][c]
        tot == (e.total - l) + n + (IF l > n THEN CtrMod ELSE 0)
    IN  IF e.sc = "disabled" THEN y
        ELSE Then(RegRead(y), LAMBDA x : [x EXCEPT !.sw.e[i].c[c].total = tot, !.sw.e[i].c[c].inc = tot - e.total]))

ReadCtrs(d, l) ==
  LET One(x, p) ==
        LET i == EntryOf(x.sw, p)
        IN  IF i = 0 THEN Fail(x, "INVALID")
            ELSE CASE fam = "CPS" -> CpsReadPort(x, p, i) [] fam = "TSI57X" -> T57ReadPort(x, p, i)
                   [] fam = "RXS" -> RxsReadPort(x, p, i)
  IN  IF fam = "STD" THEN Fail(d, "STUBBED")
      ELSE IF ~ReadOk(d.sw, l) THEN Fail(d, "INVALID")
      ELSE IF fam = "TSI721" THEN T721ReadPort(d) ELSE ForEach(d, PortsOf(l), One)

-----------------------------------------------------------------------------
Init == /\ fam \in Families
        /\ hw = [on |-> [p \in Ports |-> fam \in {"TSI57X", "TSI721"}],
                 ctl |-> [p \in Ports |-> [c \in Ctrs |-> Fixed[c + 1]]],
                 cnt |-> [p \in Ports |-> [c \in Ctrs |-> 0]]]
        /\ \E n \in Nums : sw = [num |-> n, valid |-> 0,
             e |-> [i \in Entries |-> [pnum |-> 0, n |-> 0, c |-> [c \in Ctrs |-> Ctr(Off)]]]]
        /\ seen = [p \in Ports |-> [c \in Ctrs |-> 0]]
        /\ unsure = {}
        /\ last = [call |-> "none"]
        /\ ops = 0

Started(left) == [hw |-> hw, sw |-> sw, rc |-> "SUCCESS", left |-> left]
Listed(l) == {PortsOf(l)[i] : i \in DOMAIN PortsOf(l)}

Returns(call, d, l) ==
  /\ ops' = ops + 1
  /\ hw' = d.hw /\ sw' = d.sw
  /\ last' = [call |-> call, rc |-> d.rc, ports |-> Listed(l), clean |-> d.left > 999]
  /\ UNCHANGED fam

InitCtrs(l) ==
  LET d == InitDevCtrs(Started(9999), l)
      new == IF Ok(d) THEN Listed(l) ELSE {}
  IN  /\ Returns("init", d, l)
      /\ seen' = [p \in Ports |-> IF p \in new THEN hw.cnt[p] ELSE seen[p]]
      /\ unsure' = unsure \ new

(* What a cfg call is to change of a counter. *)
Wanted(p, c, k) == IF fam = "CPS" THEN hw.ctl[p][c]
                   ELSE IF fam = "TSI57X" THEN T57Kind(k) ELSE Kind(k.sc, k.tx, k.prio)
Chosen(p, c, ctr, k) ==
  \/ fam = "CPS" /\ hw.on[p] # k.en
  \/ fam # "CPS" /\ c = ctr /\ hw.ctl[p][c] # Wanted(p, c, k)
  \/ fam = "TSI57X" /\ c = ctr /\ LET e == sw.e[EntryOf(sw, p)].c[c] IN e.sc # k.sc \/ e.tx # k.tx
Cfg(l, c, k, left) ==
  LET d == CfgCtr(Started(left), l, c, k)
  IN  /\ fam \in {"CPS", "TSI57X", "RXS"}
      /\ Returns("cfg", d, l)
      /\ seen' = [p \in Ports |-> [x \in Ctrs |->
                    IF Ok(d) /\ p \in Listed(l) /\ Chosen(p, x, c, k) THEN 0 ELSE seen[p][x]]]
      /\ unsure' = IF Ok(d) THEN unsure ELSE unsure \cup Listed(l)

Read(l, left) == /\ Returns("read", ReadCtrs(Started(left), l), l)
                 /\ UNCHANGED <<seen, unsure>>

(* Something happens n times that a counter counts.  The counters of the RXS are   *)
(* read before they have wrapped a second time.                            *)
Tick(p, c, n) ==
  /\ hw.on[p] /\ (hw.ctl[p][c].sc # "disabled" \/ fam = "CPS")
  /\ \A i \in 1..sw.valid : fam = "RXS" /\ sw.e[i].pnum = p => Unread(p, c, sw.e[i].c[c].total) + n < CtrMod
  /\ hw' = [hw EXCEPT !.cnt[p][c] = IF ClearedOnRead THEN @ + n ELSE (@ + n) % CtrMod]
  /\ seen' = [seen EXCEPT ![p][c] = @ + n]
  /\ last' = [call |-> "tick"]
  /\ ops' = ops + 1
  /\ UNCHANGED <<fam, sw, unsure>>

Next ==
  /\ ops < MaxOps[fam]
  /\ \/ \E p \in Ports, c \in Ctrs, n \in Bursts : Tick(p, c, n)
     \/ \E l \in Lists : InitCtrs(l)
     \/ \E l \in Lists, left \in Lefts : Read(l, left)
     \/ \E l \in Lists, left \in Lefts, c \in Ctrs, k \in Kinds[fam] : Cfg(l, c, k, left)

Spec == Init /\ [][Next]_vars

-----------------------------------------------------------------------------
InUse(p, c) == LET i == EntryOf(sw, p) IN i # 0 /\ sw.e[i].c[c].sc # "disabled"
Total(p, c) == sw.e[EntryOf(sw, p)].c[c].total

(* The total of a counter in use and what the device has counted since the *)
(* counter was read add up to all it counted since it was set up: whatever *)
(* the order of calls, whichever access of read_ctrs fails, and whether or *)
(* not the counter of an RXS wrapped (rxs_read_ctrs).  A read that returns *)
(* success left nothing of its ports unread (the CPS reads nothing of a    *)
(* port that is off), and a counter that is disabled has no total.  A cfg  *)
(* call that failed half way leaves the counters of its ports in doubt.    *)
CountsExact ==
  \A p \in Ports \ unsure, c \in Ctrs :
    /\ InUse(p, c) => Total(p, c) + Unread(p, c, Total(p, c)) = seen[p][c]
    /\ InUse(p, c) /\ hw.on[p] /\ last.call = "read" /\ last.rc = "SUCCESS" /\ p \in last.ports =>
         Total(p, c) = seen[p][c]
    /\ EntryOf(sw, p) # 0 /\ ~InUse(p, c) =>
         Total(p, c) = 0 /\ sw.e[EntryOf(sw, p)].c[c].inc = 0
=============================================================================
