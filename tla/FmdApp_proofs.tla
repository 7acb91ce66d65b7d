---------------------------- MODULE FmdApp_proofs ---------------------------
(***************************************************************************)
(* Theorems about module FmdApp, for any set of connections and kinds of   *)
(* applications, any number of slots and any initial value of dd_mtx->sem. *)
(*                                                                         *)
(* The slots' count needs that a connection is accepted once, and that the *)
(* slot under accept is marked free until the connection is in it; then no *)
(* serving thread has that slot, because it has marked its own.            *)
(* The flags need to know who is between the write that sets an            *)
(* application's flag and the one that clears it, and that a thread which  *)
(* ends marks no slot as not alive that another thread has by then.        *)
(***************************************************************************)
EXTENDS FmdApp, Integers, TLAPS

SlotRec == [alloced : 0..2, alive : BOOLEAN, flag : Flags \cup {NULL},
            conn : Conns \cup {NULL}, proc : Conns \cup {NULL}, started : 0..1]
ThrPcs == Serving \cup {"none", "dead", "post", "remove", "removed", "untell", "done"}
ThrRec == [pc : ThrPcs, i : Slots \cup {0}, tmp : SUBSET Flags]
LoopPcs == {"wait", "scan", "accept", "started", "dead"}
EvRec == [proc : Conns \cup {NULL}, posted : BOOLEAN]

(* The types of all variables, counters as natural numbers. *)
Shape ==
  /\ slot \in [Slots -> SlotRec] /\ avail \in Nat /\ lost \in Nat /\ dd_sem \in Nat
  /\ loop \in [pc : LoopPcs, i : Slots \cup {0}]
  /\ thr \in [Conns -> ThrRec] /\ DOMAIN client = Conns
  /\ mp \in SUBSET Flags /\ ev \in [Slots -> EvRec] /\ view \in [Conns -> SUBSET Flags]

(* Who may use a slot. *)
OwnInv ==
  /\ \A c \in Conns : thr[c].pc # "none" => thr[c].i \in Slots
  /\ \A c \in Conns : thr[c].pc \in Serving =>
       slot[thr[c].i].conn = c /\ slot[thr[c].i].alloced # 0
  /\ loop.pc \in {"accept", "started"} => loop.i \in Slots
  /\ loop.pc = "accept" => slot[loop.i].alloced = 0 /\ slot[loop.i].started = 0

(* The loop waits for the thread that it has just created, and a connection *)
(* that is not accepted has none.                                           *)
StartInv ==
  /\ \A c \in Conns : thr[c].pc = "start" =>
       loop.pc = "started" /\ loop.i = thr[c].i /\ slot[loop.i].started = 0
  /\ \A c \in Conns : client[c] \in {"idle", "connect"} => thr[c].pc = "none"

Holders == {c \in Conns : Holds(c)}
InHand == IF loop.pc \in {"scan", "accept", "dead"} THEN 1 ELSE 0
Inside == {c \in Conns : thr[c].pc \in {"added", "removed"}}

(* The two semaphores count what is left. *)
CountInv ==
  /\ IsFiniteSet(Holders) /\ avail + lost + Cardinality(Holders) + InHand = FMD_MAX_APPS
  /\ IsFiniteSet(Inside) /\ dd_sem + Cardinality(Inside) = DdSem

IndInv == Shape /\ OwnInv /\ StartInv /\ CountInv
-----------------------------------------------------------------------------
(* The record fields of a typed state. *)
LEMMA SlotFields ==
  ASSUME Shape, NEW i \in Slots
  PROVE  /\ slot[i] \in SlotRec /\ slot[i].alloced \in 0..2 /\ slot[i].alive \in BOOLEAN
         /\ slot[i].flag \in Flags \cup {NULL} /\ slot[i].conn \in Conns \cup {NULL}
         /\ slot[i].proc \in Conns \cup {NULL} /\ slot[i].started \in 0..1
  BY DEF Shape, SlotRec

LEMMA SlotUpdates ==
  ASSUME NEW r \in SlotRec
  PROVE  /\ \A x \in 0..2 : LET e == [r EXCEPT !.alloced = x] IN
              e \in SlotRec /\ e.alloced = x /\ e.conn = r.conn /\ e.started = r.started
         /\ \A x \in 0..1 : LET e == [r EXCEPT !.started = x] IN
              e \in SlotRec /\ e.started = x /\ e.conn = r.conn /\ e.alloced = r.alloced
         /\ \A x \in BOOLEAN : LET e == [r EXCEPT !.alive = x] IN
              /\ e \in SlotRec /\ e.conn = r.conn /\ e.alloced = r.alloced
              /\ e.started = r.started
         /\ \A x \in Flags : LET e == [r EXCEPT !.flag = x] IN
              /\ e \in SlotRec /\ e.conn = r.conn /\ e.alloced = r.alloced
              /\ e.started = r.started
         /\ \A x \in Conns : LET e == [r EXCEPT !.proc = x] IN
              /\ e \in SlotRec /\ e.conn = r.conn /\ e.alloced = r.alloced
              /\ e.started = r.started
<1>1. \A x \in 0..2 : LET e == [r EXCEPT !.alloced = x] IN
        e \in SlotRec /\ e.alloced = x /\ e.conn = r.conn /\ e.started = r.started
  BY DEF SlotRec
<1>2. \A x \in 0..1 : LET e == [r EXCEPT !.started = x] IN
        e \in SlotRec /\ e.started = x /\ e.conn = r.conn /\ e.alloced = r.alloced
  BY DEF SlotRec
<1>3. \A x \in BOOLEAN : LET e == [r EXCEPT !.alive = x] IN
        e \in SlotRec /\ e.conn = r.conn /\ e.alloced = r.alloced /\ e.started = r.started
  BY DEF SlotRec
<1>4. \A x \in Flags : LET e == [r EXCEPT !.flag = x] IN
        e \in SlotRec /\ e.conn = r.conn /\ e.alloced = r.alloced /\ e.started = r.started
  BY DEF SlotRec
<1>5. \A x \in Conns : LET e == [r EXCEPT !.proc = x] IN
        e \in SlotRec /\ e.conn = r.conn /\ e.alloced = r.alloced /\ e.started = r.started
  BY DEF SlotRec
<1> QED
  BY <1>1, <1>2, <1>3, <1>4, <1>5

LEMMA ThrFields ==
  ASSUME Shape, NEW c \in Conns
  PROVE  /\ thr[c] \in ThrRec /\ thr[c].pc \in ThrPcs
         /\ thr[c].i \in Slots \cup {0} /\ thr[c].tmp \in SUBSET Flags
  BY DEF Shape, ThrRec

(* What a step of one thread does to the two sets that are counted. *)
LEMMA OneThread ==
  ASSUME NEW c \in Conns, \A d \in Conns \ {c} : thr'[d] = thr[d]
  PROVE  /\ Holders' = IF Holds(c)' THEN Holders \cup {c} ELSE Holders \ {c}
         /\ Inside' = IF thr'[c].pc \in {"added", "removed"}
                      THEN Inside \cup {c} ELSE Inside \ {c}
  BY DEF Holders, Holds, Inside

(* The counts stay when nobody joins or leaves. *)
LEMMA SameCount ==
  ASSUME CountInv, UNCHANGED <<avail, lost, dd_sem>>,
         InHand' = InHand, Holders' = Holders, Inside' = Inside
  PROVE  CountInv'
  BY DEF CountInv

(* The application's own steps concern no slot and no thread. *)
LEMMA WatchInd ==
  ASSUME IndInv, NEW c \in Conns, Watch(c) \/ Connect(c) \/ Close(c)
  PROVE  IndInv'
<1>1. UNCHANGED <<slot, avail, loop, thr, mp, dd_sem, lost>>
  BY DEF Watch, Open, CopyDd, Event, Timeout, Connect, Close
<1>2. ev' \in [Slots -> EvRec]
  <2> DEFINE k == thr[c].i
  <2>1. \/ ev' = ev
        \/ \E p \in Conns \cup {NULL} : ev' = [ev EXCEPT ![k].proc = p]
        \/ ev' = [ev EXCEPT ![k].posted = FALSE]
    BY DEF Watch, Open, CopyDd, Event, Timeout, Connect, Close
  <2>2. \A e \in EvRec : /\ \A p \in Conns \cup {NULL} : [e EXCEPT !.proc = p] \in EvRec
                         /\ [e EXCEPT !.posted = FALSE] \in EvRec
    BY Zenon DEF EvRec
  <2>3. ev \in [Slots -> EvRec]
    BY DEF IndInv, Shape
  <2> HIDE DEF k
  <2>4. ASSUME NEW p \in Conns \cup {NULL}
        PROVE  [ev EXCEPT ![k].proc = p] \in [Slots -> EvRec]
    BY Zenon, <2>2, <2>3
  <2>5. [ev EXCEPT ![k].posted = FALSE] \in [Slots -> EvRec]
    BY Zenon, <2>2, <2>3
  <2> QED
    BY Zenon, <2>1, <2>3, <2>4, <2>5
<1>3. view' \in [Conns -> SUBSET Flags]
  BY DEF IndInv, Shape, Watch, Open, CopyDd, Event, Timeout, Connect, Close
<1>4. /\ DOMAIN client' = Conns
      /\ \A d \in Conns : client'[d] \in {"idle", "connect"}
                            => client[d] \in {"idle", "connect"}
  BY DEF IndInv, Shape, Watch, Open, CopyDd, Event, Timeout, Connect, Close
<1>5. Shape'
  BY <1>1, <1>2, <1>3, <1>4 DEF IndInv, Shape
<1>6. OwnInv' /\ StartInv'
  BY <1>1, <1>4 DEF IndInv, OwnInv, StartInv
<1>7. CountInv'
  BY <1>1, SameCount DEF IndInv, InHand, Holders, Holds, Inside
<1> QED
  BY <1>5, <1>6, <1>7 DEF IndInv

(* Started keeps the invariant: what the loop writes marks the slot, and the *)
(* thread it waited for has started.                                         *)
LEMMA StartedInd == IndInv /\ Started => IndInv'
<1> SUFFICES ASSUME IndInv, Started PROVE IndInv'
  OBVIOUS
<1> DEFINE k == loop.i
<1>1. /\ k \in Slots /\ slot[k].started = 1 /\ loop.pc = "started"
      /\ slot' = [slot EXCEPT ![k].started = @ - 1, ![k].alloced = 1]
      /\ loop' = [pc |-> "wait", i |-> 0]
      /\ UNCHANGED <<avail, thr, client, mp, dd_sem, ev, view, lost>>
  BY SlotFields DEF IndInv, OwnInv, Started
<1> HIDE DEF k
<1>2. /\ slot' \in [Slots -> SlotRec] /\ slot'[k].conn = slot[k].conn
      /\ slot'[k].alloced = 1 /\ \A j \in Slots \ {k} : slot'[j] = slot[j]
  <2>1. slot \in [Slots -> SlotRec] /\ slot[k] \in SlotRec
    BY <1>1 DEF IndInv, Shape
  <2> DEFINE r == [[slot[k] EXCEPT !.started = @ - 1] EXCEPT !.alloced = 1]
  <2>2. r \in SlotRec /\ r.conn = slot[k].conn /\ r.alloced = 1
    <3>1. slot[k].started - 1 \in 0..1
      BY <1>1
    <3> DEFINE y == [slot[k] EXCEPT !.started = @ - 1]
    <3>2. y \in SlotRec /\ y.conn = slot[k].conn
      BY Zenon, <2>1, <3>1, SlotUpdates
    <3> HIDE DEF y
    <3>3. \A x \in 0..2 : LET e == [y EXCEPT !.alloced = x] IN
            e \in SlotRec /\ e.alloced = x /\ e.conn = y.conn
      BY Zenon, <3>2, SlotUpdates
    <3>4. 1 \in 0..2
      OBVIOUS
    <3> QED
      BY <3>2, <3>3, <3>4 DEF y
  <2>3. slot' = [slot EXCEPT ![k] = r]
    BY Zenon, <1>1, <2>1
  <2> HIDE DEF r
  <2> QED
    BY Zenon, <1>1, <2>1, <2>2, <2>3
<1>3. Shape'
  BY <1>1, <1>2 DEF IndInv, Shape, LoopPcs
<1>4. OwnInv'
  BY <1>1, <1>2 DEF IndInv, OwnInv, Serving
<1>5. StartInv'
  BY <1>1 DEF IndInv, StartInv, k
<1>6. CountInv'
  BY <1>1, SameCount DEF IndInv, InHand, Holders, Holds, Inside
<1> QED
  BY <1>3, <1>4, <1>5, <1>6 DEF IndInv
-----------------------------------------------------------------------------
(* What the steps of a thread do to its own slot, and to who owns one. *)
LEMMA ThreadFrame ==
  ASSUME IndInv, NEW c \in Conns, NEW q \in ThrPcs \ {"none", "start"},
         thr[c].pc # "none", q \in Serving => thr[c].pc \in Serving,
         thr' \in [Conns -> ThrRec], thr'[c].pc = q, thr'[c].i = thr[c].i,
         \A d \in Conns \ {c} : thr'[d] = thr[d],
         UNCHANGED loop,
         client' = client \/ \E x \in {"open", "closed"} : client' = [client EXCEPT ![c] = x],
         \A j \in Slots : /\ slot'[j].conn = slot[j].conn
                          /\ slot'[j].alloced = slot[j].alloced
                               \/ (j = thr[c].i /\ thr[c].pc \in Serving
                                    /\ q \notin Serving /\ slot'[j].alloced = 0)
                          /\ slot'[j].started = slot[j].started
  PROVE  OwnInv' /\ StartInv'
<1>1. thr[c].i \in Slots
  BY DEF IndInv, OwnInv
<1>2. ASSUME NEW d \in Conns, thr'[d].pc \in Serving
      PROVE  slot'[thr'[d].i].conn = d /\ slot'[thr'[d].i].alloced # 0
  <2>1. thr[d].pc \in Serving /\ thr'[d].i = thr[d].i /\ thr[d].i \in Slots
    BY <1>2, <1>1 DEF IndInv, OwnInv, Serving
  <2>2. slot[thr[d].i].conn = d /\ slot[thr[d].i].alloced # 0
    BY <2>1 DEF IndInv, OwnInv
  <2>3. ~(thr[d].i = thr[c].i /\ thr[c].pc \in Serving /\ q \notin Serving)
    BY <1>2, <2>2 DEF IndInv, OwnInv
  <2> QED
    BY <2>1, <2>2, <2>3
<1>3. \A d \in Conns : thr'[d].pc # "none" => thr'[d].i \in Slots
  BY <1>1 DEF IndInv, OwnInv
<1>4. OwnInv'
  BY <1>2, <1>3 DEF IndInv, OwnInv
<1>5. \A d \in Conns : thr'[d].pc = "start" => d # c /\ thr'[d] = thr[d]
  OBVIOUS
<1>6. \A d \in Conns : client'[d] \in {"idle", "connect"} => thr'[d].pc = "none"
  <2>1. client'[c] \notin {"idle", "connect"}
    BY DEF IndInv, StartInv, Shape
  <2>2. ASSUME NEW d \in Conns, client'[d] \in {"idle", "connect"}, d # c
        PROVE  thr'[d].pc = "none"
    BY <2>2 DEF IndInv, StartInv, Shape
  <2> QED
    BY <2>1, <2>2
<1>7. StartInv'
  BY SMTT(60), <1>4, <1>5, <1>6 DEF IndInv, StartInv, OwnInv
<1> QED
  BY <1>4, <1>7

LEMMA StepThread ==
  ASSUME Shape, NEW c \in Conns, NEW p, NEW q \in ThrPcs, Step(c, p, q)
  PROVE  /\ thr[c].pc = p /\ thr' \in [Conns -> ThrRec]
         /\ thr'[c].pc = q /\ thr'[c].i = thr[c].i
         /\ \A d \in Conns \ {c} : thr'[d] = thr[d]
<1>1. \A r \in ThrRec : [r EXCEPT !.pc = q] \in ThrRec
  BY DEF ThrRec
<1>2. thr \in [Conns -> ThrRec] /\ thr[c] \in ThrRec
  BY DEF Shape
<1>3. thr' = [thr EXCEPT ![c] = [thr[c] EXCEPT !.pc = q]]
  BY DEF Step
<1>4. [thr[c] EXCEPT !.pc = q].pc = q /\ [thr[c] EXCEPT !.pc = q].i = thr[c].i
  BY <1>2 DEF ThrRec
<1> QED
  BY <1>1, <1>2, <1>3, <1>4 DEF Step

(* A step of a thread that takes and gives back nothing. *)
LEMMA ThreadKeeps ==
  ASSUME IndInv, NEW c \in Conns, UNCHANGED <<avail, lost, dd_sem, loop>>,
         \A d \in Conns \ {c} : thr'[d] = thr[d], Holds(c)' = Holds(c),
         thr[c].pc \notin {"added", "removed"}, thr'[c].pc \notin {"added", "removed"}
  PROVE  CountInv'
<1>1. Holders' = Holders
  BY OneThread DEF Holders
<1>2. Inside' = Inside
  BY OneThread DEF Inside
<1> QED
  BY <1>1, <1>2, SameCount DEF IndInv, InHand

(* A step of a thread leaves the other variables of their types. *)
LEMMA ThreadShape ==
  ASSUME IndInv, thr' \in [Conns -> ThrRec], avail' \in Nat, dd_sem' \in Nat,
         mp' \in SUBSET Flags, UNCHANGED <<slot, loop, client, ev, view, lost>>
  PROVE  Shape'
<1>1. /\ slot \in [Slots -> SlotRec] /\ lost \in Nat
      /\ loop \in [pc : LoopPcs, i : Slots \cup {0}]
      /\ DOMAIN client = Conns /\ ev \in [Slots -> EvRec] /\ view \in [Conns -> SUBSET Flags]
  BY Zenon DEF IndInv, Shape
<1> QED
  BY Zenon, <1>1 DEF Shape

(* ThreadStart keeps the invariant: only the thread that the loop waits for  *)
(* starts, so started is posted once.                                        *)
LEMMA ThreadStartInd ==
  ASSUME IndInv, NEW c \in Conns, ThreadStart(c)
  PROVE  IndInv'
<1> DEFINE k == thr[c].i
<1>1. /\ Step(c, "start", "recv") /\ k \in Slots /\ slot[k].conn = c
      /\ slot[k].started = 0 /\ loop.pc = "started" /\ loop.i = k
      /\ slot' = [slot EXCEPT ![k].alive = TRUE, ![k].started = @ + 1]
      /\ UNCHANGED <<avail, loop, client, mp, dd_sem, ev, view, lost>>
  BY DEF ThreadStart, Step, IndInv, OwnInv, StartInv, Serving
<1>2. /\ thr[c].pc = "start" /\ thr' \in [Conns -> ThrRec]
      /\ thr'[c].pc = "recv" /\ thr'[c].i = k
      /\ \A d \in Conns \ {c} : thr'[d] = thr[d]
  <2>1. "recv" \in ThrPcs
    BY DEF ThrPcs, Serving
  <2> QED
    BY <1>1, <2>1, StepThread DEF IndInv
<1> HIDE DEF k
<1>3. /\ slot' \in [Slots -> SlotRec] /\ slot'[k].conn = slot[k].conn
      /\ slot'[k].alloced = slot[k].alloced /\ \A j \in Slots \ {k} : slot'[j] = slot[j]
  <2>1. slot \in [Slots -> SlotRec] /\ slot[k] \in SlotRec /\ k \in Slots
    BY <1>1 DEF IndInv, Shape
  <2> DEFINE y == [slot[k] EXCEPT !.alive = TRUE]
             r == [y EXCEPT !.started = @ + 1]
  <2>2. /\ y \in SlotRec /\ y.conn = slot[k].conn /\ y.alloced = slot[k].alloced
        /\ y.started = 0
    BY Zenon, <1>1, <2>1, SlotUpdates
  <2>3. slot' = [slot EXCEPT ![k] = r]
    BY Zenon, <1>1, <2>1
  <2> HIDE DEF y
  <2>4. \A x \in 0..1 : LET e == [y EXCEPT !.started = x] IN
          e \in SlotRec /\ e.conn = y.conn /\ e.alloced = y.alloced
    BY Zenon, <2>2, SlotUpdates
  <2>5. y.started + 1 \in 0..1
    BY <2>2
  <2>6. r \in SlotRec /\ r.conn = y.conn /\ r.alloced = y.alloced
    BY <2>4, <2>5
  <2> HIDE DEF r
  <2> QED
    BY <2>1, <2>2, <2>3, <2>6
<1>4. Shape'
  BY <1>1, <1>2, <1>3 DEF IndInv, Shape
<1>5. OwnInv'
  <2>1. \A d \in Conns : thr'[d].pc # "none" => thr[d].pc # "none" /\ thr'[d].i = thr[d].i
    BY <1>2 DEF k
  <2>2. \A d \in Conns : thr'[d].pc \in Serving => thr[d].pc \in Serving /\ thr'[d].i = thr[d].i
    BY <1>2 DEF k, Serving
  <2>3. \A j \in Slots : slot'[j].conn = slot[j].conn /\ slot'[j].alloced = slot[j].alloced
    BY <1>3
  <2>4. \A d \in Conns : thr[d].pc \in Serving => thr[d].pc # "none"
    BY DEF Serving
  <2>5. loop' = loop /\ loop.pc = "started" /\ loop.i \in Slots
    BY <1>1
  <2>6. \A d \in Conns : thr'[d].pc # "none" => thr'[d].i \in Slots
    BY <2>1 DEF IndInv, OwnInv
  <2>7. ASSUME NEW d \in Conns, thr'[d].pc \in Serving
        PROVE  slot'[thr'[d].i].conn = d /\ slot'[thr'[d].i].alloced # 0
    <3>1. slot[thr[d].i].conn = d /\ slot[thr[d].i].alloced # 0 /\ thr[d].i \in Slots
      BY <2>2, <2>4, <2>7 DEF IndInv, OwnInv
    <3> QED
      BY <2>2, <2>3, <2>7, <3>1
  <2> QED
    BY <2>5, <2>6, <2>7 DEF OwnInv
<1>6. StartInv'
  <2>1. ASSUME NEW d \in Conns, thr'[d].pc = "start" PROVE FALSE
    <3>1. d # c /\ thr[d].pc = "start" /\ thr[d].i = k
      BY <1>1, <1>2, <2>1 DEF IndInv, StartInv
    <3> QED
      BY <1>1, <3>1 DEF IndInv, OwnInv, Serving
  <2> QED
    BY <1>1, <1>2, <2>1 DEF IndInv, StartInv
<1>7. CountInv'
  BY <1>1, <1>2, ThreadKeeps DEF Holds, Serving
<1> QED
  BY <1>4, <1>5, <1>6, <1>7 DEF IndInv

(* Reading a hello, or the end of the connection, keeps the invariant. *)
LEMMA ReceiveInd ==
  ASSUME IndInv, NEW c \in Conns, Hello(c) \/ HelloFails(c) \/ RecvFails(c)
  PROVE  IndInv'
<1> DEFINE k == thr[c].i
<1>1. PICK q \in {"add", "close"} : Step(c, "recv", q)
  BY DEF Hello, HelloFails, RecvFails
<1>2. /\ UNCHANGED <<avail, loop, mp, dd_sem, ev, view, lost>>
      /\ client' = client \/ \E x \in {"open", "closed"} : client' = [client EXCEPT ![c] = x]
      /\ \/ slot' = slot
         \/ slot' = [slot EXCEPT ![k].flag = FlagOf[c], ![k].proc = c]
  BY DEF Hello, HelloFails, RecvFails
<1>3. q \in ThrPcs \ {"none", "start"} /\ q \in Serving /\ "recv" \in Serving
  BY DEF ThrPcs, Serving
<1>4. /\ thr[c].pc = "recv" /\ thr' \in [Conns -> ThrRec]
      /\ thr'[c].pc = q /\ thr'[c].i = k
      /\ \A d \in Conns \ {c} : thr'[d] = thr[d]
  BY <1>1, <1>3, StepThread DEF IndInv
<1>5. k \in Slots
  BY <1>4 DEF IndInv, OwnInv
<1> HIDE DEF k
<1>6. /\ slot' \in [Slots -> SlotRec]
      /\ \A j \in Slots : /\ slot'[j].conn = slot[j].conn
                          /\ slot'[j].alloced = slot[j].alloced
                          /\ slot'[j].started = slot[j].started
  <2>1. slot \in [Slots -> SlotRec] /\ slot[k] \in SlotRec /\ FlagOf[c] \in Flags
    BY <1>5, AppConstants DEF IndInv, Shape
  <2>2. CASE slot' = slot
    BY <2>1, <2>2
  <2>3. CASE slot' = [slot EXCEPT ![k].flag = FlagOf[c], ![k].proc = c]
    <3> DEFINE y == [slot[k] EXCEPT !.flag = FlagOf[c]]
               r == [y EXCEPT !.proc = c]
    <3>1. /\ y \in SlotRec /\ y.conn = slot[k].conn /\ y.alloced = slot[k].alloced
          /\ y.started = slot[k].started
      BY Zenon, <2>1, SlotUpdates
    <3>2. slot' = [slot EXCEPT ![k] = r]
      BY Zenon, <1>5, <2>1, <2>3
    <3> HIDE DEF y
    <3>3. r \in SlotRec /\ r.conn = y.conn /\ r.alloced = y.alloced /\ r.started = y.started
      BY Zenon, <3>1, SlotUpdates
    <3> HIDE DEF r
    <3> QED
      BY <1>5, <2>1, <3>1, <3>2, <3>3
  <2> QED
    BY <1>2, <2>2, <2>3
<1>7. Shape'
  BY <1>2, <1>4, <1>6 DEF IndInv, Shape
<1>8. OwnInv' /\ StartInv'
  BY <1>2, <1>3, <1>4, <1>6, ThreadFrame DEF k
<1>9. CountInv'
  BY <1>2, <1>4, ThreadKeeps DEF Holds, Serving
<1> QED
  BY <1>7, <1>8, <1>9 DEF IndInv

LEMMA EvUpdates ==
  ASSUME Shape, NEW c, NEW from, NEW to, Notify(c, from, to)
  PROVE  ev' \in [Slots -> EvRec]
<1>1. \A e \in EvRec : [e EXCEPT !.posted = TRUE] \in EvRec
  BY Zenon DEF EvRec
<1>2. \A i \in Slots : ev[i] \in EvRec
  BY DEF Shape
<1> QED
  BY <1>1, <1>2 DEF Notify

(* Telling the applications keeps the invariant. *)
LEMMA NotifyInd ==
  ASSUME IndInv, NEW c \in Conns, NEW p, NEW q, Notify(c, p, q),
         <<p, q>> \in {<<"tell", "recv">>, <<"untell", "done">>}
  PROVE  IndInv'
<1>1. /\ Step(c, p, q) /\ ev' \in [Slots -> EvRec]
      /\ UNCHANGED <<slot, avail, loop, client, mp, dd_sem, view, lost>>
  BY EvUpdates DEF Notify, IndInv
<1>2. q \in ThrPcs \ {"none", "start"} /\ p # "none" /\ (q \in Serving => p \in Serving)
  BY DEF ThrPcs, Serving
<1>3. /\ thr[c].pc = p /\ thr' \in [Conns -> ThrRec]
      /\ thr'[c].pc = q /\ thr'[c].i = thr[c].i
      /\ \A d \in Conns \ {c} : thr'[d] = thr[d]
  BY <1>1, <1>2, StepThread DEF IndInv
<1>4. Shape'
  BY <1>1, <1>3 DEF IndInv, Shape
<1>5. OwnInv' /\ StartInv'
  BY <1>1, <1>2, <1>3, ThreadFrame
<1>6. CountInv'
  BY <1>1, <1>3, ThreadKeeps DEF Holds, Serving
<1> QED
  BY <1>4, <1>5, <1>6 DEF IndInv

(* CloseApp and NotAlive keep the invariant: the slot that the thread frees  *)
(* is its own, and while it writes alive the slot may be another's already.  *)
LEMMA CloseInd ==
  ASSUME IndInv, NEW c \in Conns, CloseApp(c) \/ NotAlive(c)
  PROVE  IndInv'
<1> DEFINE k == thr[c].i
<1>1. /\ \/ Step(c, "close", "dead") /\ slot' = [slot EXCEPT ![k].alloced = 0]
         \/ Step(c, "dead", "post") /\ slot' = [slot EXCEPT ![k].alive = FALSE]
      /\ UNCHANGED <<avail, loop, client, mp, dd_sem, ev, view, lost>>
  BY DEF CloseApp, NotAlive
<1>2. PICK p \in {"close", "dead"}, q \in {"dead", "post"} :
        /\ Step(c, p, q)
        /\ \/ p = "close" /\ slot' = [slot EXCEPT ![k].alloced = 0]
           \/ slot' = [slot EXCEPT ![k].alive = FALSE]
  BY <1>1
<1>3. q \in ThrPcs \ {"none", "start"} /\ q \notin Serving
  BY DEF ThrPcs, Serving
<1>4. /\ thr[c].pc = p /\ thr' \in [Conns -> ThrRec]
      /\ thr'[c].pc = q /\ thr'[c].i = k
      /\ \A d \in Conns \ {c} : thr'[d] = thr[d]
  BY <1>2, <1>3, StepThread DEF IndInv
<1>5. k \in Slots
  BY <1>4 DEF IndInv, OwnInv
<1> HIDE DEF k
<1>6. /\ slot' \in [Slots -> SlotRec]
      /\ \A j \in Slots : /\ slot'[j].conn = slot[j].conn
                          /\ \/ slot'[j].alloced = slot[j].alloced
                             \/ j = k /\ p = "close" /\ slot'[j].alloced = 0
                          /\ slot'[j].started = slot[j].started
  <2>1. slot \in [Slots -> SlotRec] /\ slot[k] \in SlotRec
    BY <1>5 DEF IndInv, Shape
  <2>2. CASE p = "close" /\ slot' = [slot EXCEPT ![k].alloced = 0]
    <3> DEFINE r == [slot[k] EXCEPT !.alloced = 0]
    <3>1. r \in SlotRec /\ r.conn = slot[k].conn /\ r.alloced = 0 /\ r.started = slot[k].started
      <4>1. \A x \in 0..2 : LET e == [slot[k] EXCEPT !.alloced = x] IN
              /\ e \in SlotRec /\ e.alloced = x /\ e.conn = slot[k].conn
              /\ e.started = slot[k].started
        BY Zenon, <2>1, SlotUpdates
      <4>2. 0 \in 0..2
        OBVIOUS
      <4> QED
        BY <4>1, <4>2
    <3>2. slot' = [slot EXCEPT ![k] = r]
      BY <1>5, <2>1, <2>2
    <3> HIDE DEF r
    <3> QED
      BY <1>5, <2>1, <2>2, <3>1, <3>2
  <2>3. CASE slot' = [slot EXCEPT ![k].alive = FALSE]
    <3> DEFINE r == [slot[k] EXCEPT !.alive = FALSE]
    <3>1. /\ r \in SlotRec /\ r.conn = slot[k].conn /\ r.alloced = slot[k].alloced
          /\ r.started = slot[k].started
      BY Zenon, <2>1, SlotUpdates
    <3>2. slot' = [slot EXCEPT ![k] = r]
      BY <1>5, <2>1, <2>3
    <3> HIDE DEF r
    <3> QED
      BY <1>5, <2>1, <3>1, <3>2
  <2> QED
    BY <1>2, <2>2, <2>3
<1>7. Shape'
  BY <1>1, <1>4, <1>6 DEF IndInv, Shape
<1>8. OwnInv' /\ StartInv'
  <2>1. "close" \in Serving /\ p # "none"
    BY DEF Serving
  <2> QED
    BY <1>1, <1>3, <1>4, <1>6, <2>1, ThreadFrame DEF k
<1>9. CountInv'
  BY <1>1, <1>4, ThreadKeeps DEF Holds, Serving
<1> QED
  BY <1>7, <1>8, <1>9 DEF IndInv
-----------------------------------------------------------------------------
(* Nothing changes, or nothing has happened yet. *)
LEMMA SameInd ==
  ASSUME IndInv, UNCHANGED vars
  PROVE  IndInv'
<1>1. Shape' /\ OwnInv' /\ StartInv'
  BY DEF vars, IndInv, Shape, OwnInv, StartInv
<1>2. CountInv'
  BY DEF vars, IndInv, CountInv, Holders, Holds, InHand, Inside
<1> QED
  BY Zenon, <1>1, <1>2 DEF IndInv

LEMMA InitSets ==
  ASSUME Init
  PROVE  Shape /\ OwnInv /\ StartInv /\ Holders = {} /\ Inside = {} /\ InHand = 0
<1>1. FreeSlot \in SlotRec
  BY DEF FreeSlot, SlotRec
<1>2. [pc |-> "none", i |-> 0, tmp |-> {}] \in ThrRec
  BY DEF ThrRec, ThrPcs
<1>3. [proc |-> NULL, posted |-> FALSE] \in EvRec
  BY DEF EvRec
<1>4. slot \in [Slots -> SlotRec] /\ thr \in [Conns -> ThrRec] /\ ev \in [Slots -> EvRec]
  BY <1>1, <1>2, <1>3 DEF Init
<1>5. Shape
  BY Zenon, <1>4, AppConstants DEF Init, Shape, LoopPcs
<1>6. \A c \in Conns : thr[c].pc = "none"
  BY DEF Init
<1>7. OwnInv /\ StartInv
  BY <1>6 DEF Init, OwnInv, StartInv, Serving
<1>8. Holders = {} /\ Inside = {} /\ InHand = 0
  BY <1>6 DEF Init, Holders, Holds, Serving, Inside, InHand
<1> QED
  BY <1>5, <1>7, <1>8

(* The steps that change what the semaphores count: who is counted after     *)
(* them. WaitAvail has a slot in hand.                                       *)
LEMMA WaitAvailSets ==
  ASSUME IndInv, WaitAvail
  PROVE  /\ Shape' /\ OwnInv' /\ StartInv'
         /\ Holders' = Holders /\ Inside' = Inside /\ InHand = 0 /\ InHand' = 1
<1>1. Shape'
  BY DEF IndInv, Shape, WaitAvail, LoopPcs
<1>2. OwnInv' /\ StartInv'
  BY DEF IndInv, OwnInv, StartInv, WaitAvail
<1>3. Holders' = Holders /\ Inside' = Inside /\ InHand = 0 /\ InHand' = 1
  BY DEF WaitAvail, Holders, Holds, Inside, InHand
<1> QED
  BY <1>1, <1>2, <1>3

(* Accept gives the slot to the connection or loses it: the slot under accept is nobody else's, and   *)
(* the connection has no thread yet.                                         *)
LEMMA AcceptSets ==
  ASSUME IndInv, NEW c \in Conns, Accept(c)
  PROVE  /\ Shape' /\ OwnInv' /\ StartInv'
         /\ Inside' = Inside /\ ~Holds(c) /\ InHand = 1 /\ InHand' = 0
         /\ UNCHANGED <<avail, dd_sem>>
         /\ \/ Holders' = Holders \cup {c} /\ lost' = lost
            \/ Holders' = Holders /\ lost' = lost + 1
<1> DEFINE k == loop.i
<1>1. /\ k \in Slots /\ slot[k].alloced = 0 /\ slot[k].started = 0
      /\ loop.pc = "accept" /\ client[c] = "connect" /\ thr[c].pc = "none"
      /\ slot' = [slot EXCEPT ![k].conn = c, ![k].alloced = 2]
      /\ UNCHANGED <<avail, mp, dd_sem, ev, view>>
  BY DEF IndInv, OwnInv, StartInv, Accept
<1> HIDE DEF k
<1>2. /\ slot' \in [Slots -> SlotRec] /\ slot'[k].conn = c /\ slot'[k].alloced = 2
      /\ slot'[k].started = 0 /\ \A j \in Slots \ {k} : slot'[j] = slot[j]
  <2>1. slot \in [Slots -> SlotRec] /\ slot[k] \in SlotRec
    BY <1>1 DEF IndInv, Shape
  <2> DEFINE r == [[slot[k] EXCEPT !.conn = c] EXCEPT !.alloced = 2]
  <2>2. r \in SlotRec /\ r.conn = c /\ r.alloced = 2 /\ r.started = 0
    BY <1>1, <2>1 DEF SlotRec
  <2>3. slot' = [slot EXCEPT ![k] = r]
    BY Zenon, <1>1, <2>1
  <2> HIDE DEF r
  <2> QED
    BY Zenon, <1>1, <2>1, <2>2, <2>3
<1>3. \A d \in Conns : thr[d].pc \in Serving => thr[d].i \in Slots /\ thr[d].i # k /\ d # c
  BY <1>1 DEF IndInv, OwnInv, Serving
<1>4. Inside = Inside \ {c} /\ ~Holds(c) /\ InHand = 1
  BY <1>1 DEF Inside, Holds, Serving, InHand
<1>5. ASSUME thr' = [thr EXCEPT ![c] = [pc |-> "start", i |-> k, tmp |-> {}]],
             client' = [client EXCEPT ![c] = "hello"],
             loop' = [loop EXCEPT !.pc = "started"], UNCHANGED lost
      PROVE  /\ Shape' /\ OwnInv' /\ StartInv' /\ Inside' = Inside /\ InHand' = 0
             /\ Holders' = Holders \cup {c}
  <2>1. /\ thr' \in [Conns -> ThrRec] /\ thr'[c].pc = "start" /\ thr'[c].i = k
        /\ \A d \in Conns \ {c} : thr'[d] = thr[d]
    BY <1>1, <1>5 DEF IndInv, Shape, ThrRec, ThrPcs, Serving
  <2>2. loop' \in [pc : LoopPcs, i : Slots \cup {0}] /\ loop'.pc = "started" /\ loop'.i = k
    BY <1>5 DEF IndInv, Shape, LoopPcs, k
  <2>3. Shape'
    BY <1>1, <1>2, <1>5, <2>1, <2>2 DEF IndInv, Shape
  <2>4. OwnInv'
    BY <1>1, <1>2, <1>3, <2>1, <2>2 DEF IndInv, OwnInv
  <2>5. StartInv'
    <3>1. \A d \in Conns : thr[d].pc # "start"
      BY <1>1 DEF IndInv, StartInv
    <3>2. \A d \in Conns : client'[d] \in {"idle", "connect"} => d # c /\ client[d] = client'[d]
      BY <1>5 DEF IndInv, Shape
    <3> QED
      BY <1>2, <2>1, <2>2, <3>1, <3>2 DEF IndInv, StartInv
  <2>6. Holders' = Holders \cup {c} /\ Inside' = Inside /\ InHand' = 0
    BY Zenon, <1>4, <2>1, <2>2, OneThread DEF Holds, Serving, InHand
  <2> QED
    BY <2>3, <2>4, <2>5, <2>6
<1>6. ASSUME client' = [client EXCEPT ![c] = "stuck"], loop' = [pc |-> "wait", i |-> 0],
             lost' = lost + 1, UNCHANGED thr
      PROVE  /\ Shape' /\ OwnInv' /\ StartInv' /\ Inside' = Inside /\ InHand' = 0
             /\ Holders' = Holders
  <2>1. Shape'
    BY <1>1, <1>2, <1>6 DEF IndInv, Shape, LoopPcs
  <2>2. OwnInv'
    BY <1>1, <1>2, <1>3, <1>6 DEF IndInv, OwnInv
  <2>3. StartInv'
    <3>1. \A d \in Conns : thr[d].pc # "start"
      BY <1>1 DEF IndInv, StartInv
    <3>2. \A d \in Conns : client'[d] \in {"idle", "connect"} => d # c /\ client[d] = client'[d]
      BY <1>6 DEF IndInv, Shape
    <3> QED
      BY <1>6, <3>1, <3>2 DEF IndInv, StartInv
  <2>4. Holders' = Holders /\ Inside' = Inside /\ InHand' = 0
    BY <1>6 DEF Holders, Holds, Inside, InHand
  <2> QED
    BY <2>1, <2>2, <2>3, <2>4
<1> QED
  BY <1>1, <1>4, <1>5, <1>6 DEF Accept, k

(* PostAvail: the thread gives one slot back, once. *)
LEMMA PostAvailSets ==
  ASSUME IndInv, NEW c \in Conns, PostAvail(c)
  PROVE  /\ Shape' /\ OwnInv' /\ StartInv' /\ avail' = avail + 1 /\ UNCHANGED <<lost, dd_sem>>
         /\ Holds(c) /\ Holders' = Holders \ {c} /\ Inside' = Inside /\ InHand' = InHand
<1>1. /\ Step(c, "post", "remove") /\ avail' = avail + 1
      /\ UNCHANGED <<slot, loop, client, mp, dd_sem, ev, view, lost>>
  BY DEF PostAvail
<1>2. "remove" \in ThrPcs \ {"none", "start"} /\ "remove" \notin Serving
  BY DEF ThrPcs, Serving
<1>3. /\ thr[c].pc = "post" /\ thr' \in [Conns -> ThrRec]
      /\ thr'[c].pc = "remove" /\ thr'[c].i = thr[c].i
      /\ \A d \in Conns \ {c} : thr'[d] = thr[d]
  BY <1>1, <1>2, StepThread DEF IndInv
<1>4. Shape'
  BY <1>1, <1>3, ThreadShape DEF IndInv, Shape
<1>5. OwnInv' /\ StartInv'
  BY <1>1, <1>2, <1>3, ThreadFrame
<1>6. Holds(c) /\ Holders' = Holders \ {c} /\ Inside' = Inside /\ InHand' = InHand
  <2>1. Holds(c) /\ ~Holds(c)' /\ c \notin Inside
    BY <1>3 DEF Holds, Inside, Serving
  <2>2. Holders' = Holders \ {c} /\ Inside' = Inside \ {c}
    <3>1. ~(thr'[c].pc \in {"added", "removed"})
      BY <1>3
    <3> QED
      BY <1>3, <2>1, <3>1, OneThread
  <2>3. InHand' = InHand
    BY <1>1 DEF InHand
  <2> QED
    BY <2>1, <2>2, <2>3
<1> QED
  BY <1>1, <1>4, <1>5, <1>6

(* What mod_dd_mp_flag does to its thread. *)
LEMMA ModThread ==
  ASSUME Shape, NEW c \in Conns, NEW q \in ThrPcs, NEW t \in SUBSET Flags,
         thr' = [thr EXCEPT ![c].pc = q, ![c].tmp = t]
  PROVE  /\ thr' \in [Conns -> ThrRec] /\ thr'[c].pc = q /\ thr'[c].i = thr[c].i
         /\ \A d \in Conns \ {c} : thr'[d] = thr[d]
<1> DEFINE r == [[thr[c] EXCEPT !.pc = q] EXCEPT !.tmp = t]
<1>1. thr \in [Conns -> ThrRec] /\ thr[c] \in ThrRec
  BY DEF Shape
<1>2. r \in ThrRec /\ r.pc = q /\ r.i = thr[c].i
  BY Zenon, <1>1 DEF ThrRec
<1>3. thr' = [thr EXCEPT ![c] = r]
  BY Zenon, <1>1
<1> HIDE DEF r
<1> QED
  BY Zenon, <1>1, <1>2, <1>3

(* mod_dd_mp_flag: its thread is counted from the sem_wait to the sem_post.  *)
LEMMA ModReadSets ==
  ASSUME IndInv, NEW c \in Conns, NEW p, NEW q, ModRead(c, p, q),
         <<p, q>> \in {<<"add", "added">>, <<"remove", "removed">>}
  PROVE  /\ Shape' /\ OwnInv' /\ StartInv' /\ Holders' = Holders /\ InHand' = InHand
         /\ c \notin Inside /\ Inside' = Inside \cup {c}
<1>1. /\ thr[c].pc = p /\ dd_sem > 0 /\ dd_sem' = dd_sem - 1
      /\ UNCHANGED <<slot, avail, loop, client, mp, ev, view, lost>>
  BY DEF ModRead
<1>2. /\ q \in ThrPcs \ {"none", "start"} /\ p # "none"
      /\ q \in Serving <=> p \in Serving
  BY DEF ThrPcs, Serving
<1>3. /\ thr' \in [Conns -> ThrRec] /\ thr'[c].pc = q /\ thr'[c].i = thr[c].i
      /\ \A d \in Conns \ {c} : thr'[d] = thr[d]
  <2>1. mp \in SUBSET Flags /\ thr' = [thr EXCEPT ![c].pc = q, ![c].tmp = mp]
    BY DEF ModRead, IndInv, Shape
  <2> QED
    BY Zenon, <1>2, <2>1, ModThread DEF IndInv
<1>4. Shape'
  <2>1. dd_sem \in Nat /\ avail \in Nat /\ mp \in SUBSET Flags
    BY Zenon DEF IndInv, Shape
  <2> QED
    BY <1>1, <1>3, <2>1, ThreadShape
<1>5. OwnInv' /\ StartInv'
  BY <1>1, <1>2, <1>3, ThreadFrame
<1>6. Holds(c)' = Holds(c) /\ c \notin Inside /\ q \in {"added", "removed"}
  BY <1>1, <1>2, <1>3 DEF Holds, Inside
<1>7. Holders' = Holders /\ Inside' = Inside \cup {c} /\ InHand' = InHand
  BY <1>1, <1>3, <1>6, OneThread DEF Holders, InHand
<1> QED
  BY <1>4, <1>5, <1>6, <1>7

LEMMA ModWriteSets ==
  ASSUME IndInv, NEW c \in Conns, NEW p, NEW q, NEW b, ModWrite(c, p, q, b),
         <<p, q>> \in {<<"added", "tell">>, <<"removed", "untell">>}
  PROVE  /\ Shape' /\ OwnInv' /\ StartInv' /\ Holders' = Holders /\ InHand' = InHand
         /\ c \in Inside /\ Inside' = Inside \ {c}
<1>1. /\ thr[c].pc = p /\ dd_sem' = dd_sem + 1
      /\ UNCHANGED <<slot, avail, loop, client, ev, view, lost>>
  BY DEF ModWrite
<1>2. /\ q \in ThrPcs \ {"none", "start"} /\ p # "none"
      /\ q \in Serving <=> p \in Serving
  BY DEF ThrPcs, Serving
<1>3. /\ thr' \in [Conns -> ThrRec] /\ thr'[c].pc = q /\ thr'[c].i = thr[c].i
      /\ \A d \in Conns \ {c} : thr'[d] = thr[d]
  <2>1. {} \in SUBSET Flags /\ thr' = [thr EXCEPT ![c].pc = q, ![c].tmp = {}]
    BY DEF ModWrite
  <2> QED
    BY Zenon, <1>2, <2>1, ModThread DEF IndInv
<1>4. mp' \in SUBSET Flags
  <2>1. thr[c].tmp \in SUBSET Flags /\ mp \in SUBSET Flags
    BY ThrFields DEF IndInv, Shape
  <2>2. thr[c].i \in Slots
    BY <1>1, <1>2 DEF IndInv, OwnInv
  <2>3. slot[thr[c].i].flag \in Flags \cup {NULL}
    BY <2>2, SlotFields DEF IndInv
  <2> QED
    BY <2>1, <2>3 DEF ModWrite
<1>5. Shape'
  <2>1. dd_sem \in Nat /\ avail \in Nat
    BY Zenon DEF IndInv, Shape
  <2> QED
    BY <1>1, <1>3, <1>4, <2>1, ThreadShape
<1>6. OwnInv' /\ StartInv'
  BY <1>1, <1>2, <1>3, ThreadFrame
<1>7. Holds(c)' = Holds(c) /\ c \in Inside /\ q \notin {"added", "removed"}
  BY <1>1, <1>2, <1>3 DEF Holds, Inside
<1>8. Holders' = Holders /\ Inside' = Inside \ {c} /\ InHand' = InHand
  BY <1>1, <1>3, <1>7, OneThread DEF Holders, InHand
<1> QED
  BY <1>5, <1>6, <1>7, <1>8
-----------------------------------------------------------------------------
(* No two applications have the same flag. *)
Distinct == \A c, d \in Conns : FlagOf[c] = FlagOf[d] => c = d

(* Which steps of an application and of its thread go together. *)
Closing == {"close", "dead", "post", "remove", "removed", "untell", "done"}
Fits(c) ==
  \/ thr[c].pc = "none" /\ client[c] \in {"idle", "connect", "stuck"}
  \/ thr[c].pc = "start" /\ client[c] \in {"hello", "gone"}
  \/ thr[c].pc = "recv" /\ client[c] \in {"hello", "gone", "open", "copy", "wait", "closed"}
  \/ thr[c].pc \in {"add", "added", "tell"} /\ client[c] \in {"open", "copy", "wait", "closed"}
  \/ thr[c].pc \in Closing /\ client[c] = "closed"
FitInv == \A c \in Conns : Fits(c)

(* An application that watches the directory is the one that its event entry *)
(* names, and its slot has its process.                                      *)
WatchInv ==
  \A c \in Conns :
    /\ client[c] \in {"open", "copy", "wait"} => slot[thr[c].i].proc = c
    /\ client[c] \in {"copy", "wait"} => ev[thr[c].i].proc = c

(* Applications came one by one, or none has ended. *)
Orderly == ~(rush /\ Ended)
Active(c) == thr[c].pc \notin {"none", "done"}

(* Nothing is under way for the application. *)
Settled(c) ==
  \/ thr[c].pc = "none" /\ client[c] = "idle"
  \/ thr[c].pc = "recv" /\ client[c] \in {"copy", "wait"}
  \/ thr[c].pc = "done" /\ client[c] = "closed"

(* One by one: at most one application is being handled. *)
MoveInv ==
  ~rush => /\ \A c, d \in Conns : ~Settled(c) /\ ~Settled(d) => c = d
           /\ \A c \in Conns : client[c] # "gone"

(* The threads have slots of their own until they are done, so that none      *)
(* marks the slot of another as not alive.                                    *)
ApartInv ==
  Orderly =>
    /\ \A c, d \in Conns : Active(c) /\ Active(d) /\ thr[c].i = thr[d].i => c = d
    /\ \A c \in Conns : thr[c].pc \in Serving \ {"start"} => slot[thr[c].i].alive

(* What an application missed is posted to it, or about to be. *)
ViewInv ==
  Orderly => \A c \in Conns : client[c] = "wait" =>
    \/ view[c] = mp \/ ev[thr[c].i].posted
    \/ \E d \in Conns : thr[d].pc \in {"tell", "untell"}

(* The applications whose flag is set: from the write in add to the one in   *)
(* remove.                                                                   *)
Known(c) ==
  \/ thr[c].pc \in {"add", "added", "tell", "close", "dead", "post", "remove", "removed"}
  \/ thr[c].pc = "recv" /\ client[c] \notin {"hello", "gone"}
Flagged(c) == Known(c) /\ thr[c].pc \notin {"add", "added"}
MpInv ==
  ~rush => /\ mp = {FlagOf[c] : c \in {d \in Conns : Flagged(d)}}
           /\ \A c \in Conns : Known(c) => slot[thr[c].i].flag = FlagOf[c]
           /\ \A c \in Conns : thr[c].pc \in {"added", "removed"} => thr[c].tmp = mp

FlagInv == FitInv /\ WatchInv /\ MoveInv /\ ApartInv /\ ViewInv /\ MpInv

(* What a write to a field of a slot leaves as it is. *)
LEMMA SlotOthers ==
  ASSUME NEW r \in SlotRec
  PROVE  /\ \A x : LET e == [r EXCEPT !.alloced = x] IN
              e.proc = r.proc /\ e.flag = r.flag /\ e.alive = r.alive
         /\ \A x, y : LET e == [r EXCEPT !.started = x, !.alloced = y] IN
              e.proc = r.proc /\ e.flag = r.flag /\ e.alive = r.alive
         /\ \A x, y : LET e == [r EXCEPT !.conn = x, !.alloced = y] IN
              e.proc = r.proc /\ e.flag = r.flag /\ e.alive = r.alive
         /\ \A x, y : LET e == [r EXCEPT !.alive = x, !.started = y] IN
              e.proc = r.proc /\ e.flag = r.flag /\ e.alive = x
         /\ \A x : LET e == [r EXCEPT !.alive = x] IN
              e.proc = r.proc /\ e.flag = r.flag
         /\ \A x, y : LET e == [r EXCEPT !.flag = x, !.proc = y] IN
              e.proc = y /\ e.flag = x /\ e.alive = r.alive
<1>1. \A x : LET e == [r EXCEPT !.alloced = x] IN
        e.proc = r.proc /\ e.flag = r.flag /\ e.alive = r.alive
  BY DEF SlotRec
<1>2. \A x, y : LET e == [r EXCEPT !.started = x, !.alloced = y] IN
        e.proc = r.proc /\ e.flag = r.flag /\ e.alive = r.alive
  BY DEF SlotRec
<1>3. \A x, y : LET e == [r EXCEPT !.conn = x, !.alloced = y] IN
        e.proc = r.proc /\ e.flag = r.flag /\ e.alive = r.alive
  BY DEF SlotRec
<1>4. \A x, y : LET e == [r EXCEPT !.alive = x, !.started = y] IN
        e.proc = r.proc /\ e.flag = r.flag /\ e.alive = x
  BY DEF SlotRec
<1>5. \A x : LET e == [r EXCEPT !.alive = x] IN
        e.proc = r.proc /\ e.flag = r.flag
  BY DEF SlotRec
<1>6. \A x, y : LET e == [r EXCEPT !.flag = x, !.proc = y] IN
        e.proc = y /\ e.flag = x /\ e.alive = r.alive
  BY DEF SlotRec
<1> QED
  BY <1>1, <1>2, <1>3, <1>4, <1>5, <1>6

(* Once applications have come together and one has ended, it stays so. *)
LEMMA OrderlyBefore ==
  ASSUME rush => rush', \A d \in Conns : client[d] \in {"gone", "closed"}
                                           => client'[d] \in {"gone", "closed"}
  PROVE  Orderly' => Orderly
  BY DEF Orderly, Ended

(* A step that concerns one connection keeps how applications and threads go *)
(* together, and that one of them at most is being handled.                  *)
LEMMA OneConn ==
  ASSUME FitInv, MoveInv, rush' = rush, NEW c \in Conns, Fits(c)',
         \A d \in Conns \ {c} : thr'[d] = thr[d] /\ client'[d] = client[d],
         ~rush => (Settled(c) => Settled(c)') /\ client'[c] # "gone"
  PROVE  FitInv' /\ MoveInv'
<1>1. FitInv'
  BY DEF FitInv, Fits
<1>2. \A d \in Conns \ {c} : Settled(d)' <=> Settled(d)
  BY DEF Settled
<1>3. MoveInv'
  BY <1>2 DEF MoveInv
<1> QED
  BY <1>1, <1>3

(* The threads stay apart when none begins and all keep their slots. *)
LEMMA StillApart ==
  ASSUME ApartInv, Orderly' => Orderly, NEW c \in Conns,
         \A d \in Conns \ {c} : thr'[d] = thr[d],
         thr'[c].i = thr[c].i, Active(c)' => Active(c),
         Orderly => \A d \in Conns : thr'[d].pc \in Serving \ {"start"} =>
                      slot'[thr[d].i].alive
  PROVE  ApartInv'
<1>1. \A d \in Conns : thr'[d].i = thr[d].i /\ (Active(d)' => Active(d))
  BY DEF Active
<1> QED
  BY <1>1 DEF ApartInv

(* The flags stay right when a step neither sets nor clears one. *)
LEMMA SameFlags ==
  ASSUME MpInv, rush' = rush, mp' = mp, NEW c \in Conns,
         \A d \in Conns \ {c} : thr'[d] = thr[d] /\ client'[d] = client[d],
         ~rush => /\ Flagged(c)' <=> Flagged(c)
                  /\ \A d \in Conns : Known(d)' => slot'[thr'[d].i].flag = FlagOf[d]
                  /\ thr'[c].pc \in {"added", "removed"} => thr'[c].tmp = mp
  PROVE  MpInv'
<1> SUFFICES ASSUME ~rush PROVE MpInv'
  BY DEF MpInv
<1>1. \A d \in Conns : Flagged(d)' <=> Flagged(d)
  BY DEF Flagged, Known
<1>2. {d \in Conns : Flagged(d)}' = {d \in Conns : Flagged(d)}
  BY <1>1
<1>3. mp' = {FlagOf[d] : d \in {x \in Conns : Flagged(x)}}'
  BY <1>2 DEF MpInv
<1>4. \A d \in Conns : thr'[d].pc \in {"added", "removed"} => thr'[d].tmp = mp'
  BY DEF MpInv
<1> QED
  BY <1>3, <1>4 DEF MpInv

(* A serving thread has its slot to itself, and an application that watches  *)
(* is served.                                                                *)
LEMMA OwnSlots ==
  ASSUME IndInv, FitInv
  PROVE  /\ \A c \in Conns : client[c] \in {"open", "copy", "wait"} => thr[c].pc \in Serving
         /\ \A c \in Conns : thr[c].pc \in Serving => thr[c].i \in Slots /\ slot[thr[c].i].alloced # 0
         /\ \A c, d \in Conns : thr[c].pc \in Serving /\ thr[d].pc \in Serving
                                  /\ thr[c].i = thr[d].i => c = d
<1>1. \A c \in Conns : client[c] \in {"open", "copy", "wait"} => thr[c].pc \in Serving
  BY DEF FitInv, Fits, Serving, Closing
<1>2. \A c \in Conns : thr[c].pc \in Serving =>
        thr[c].i \in Slots /\ slot[thr[c].i].alloced # 0 /\ slot[thr[c].i].conn = c
  BY DEF IndInv, OwnInv, Serving
<1> QED
  BY <1>1, <1>2

(* A step of a thread that changes no flag and tells nobody. *)
LEMMA ThreadFlags ==
  ASSUME IndInv, FlagInv, NEW c \in Conns, UNCHANGED <<mp, view, ev, rush>>,
         \A d \in Conns \ {c} : thr'[d] = thr[d] /\ client'[d] = client[d],
         thr'[c].i = thr[c].i, Active(c), thr[c].pc \notin {"tell", "untell"},
         ~Settled(c), Fits(c)',
         client'[c] = "gone" => client[c] = "gone",
         client[c] \in {"gone", "closed"} => client'[c] \in {"gone", "closed"},
         client'[c] \in {"copy", "wait"} => client'[c] = client[c],
         \A d \in Conns : client'[d] \in {"open", "copy", "wait"} => slot'[thr[d].i].proc = d,
         Orderly => \A d \in Conns : thr'[d].pc \in Serving \ {"start"} =>
                      slot'[thr[d].i].alive,
         ~rush => /\ Flagged(c)' <=> Flagged(c)
                  /\ \A d \in Conns : Known(d)' => slot'[thr[d].i].flag = FlagOf[d]
                  /\ thr'[c].pc \in {"added", "removed"} => thr'[c].tmp = mp
  PROVE  FlagInv'
<1> USE DEF FlagInv
<1>1. \A d \in Conns : thr'[d].i = thr[d].i
  OBVIOUS
<1>2. ~rush => client'[c] # "gone"
  BY DEF MoveInv
<1>3. FitInv' /\ MoveInv'
  BY <1>2, OneConn
<1>4. Orderly' => Orderly
  BY Zenon, OrderlyBefore
<1>5. WatchInv'
  BY <1>1 DEF WatchInv
<1>6. ApartInv'
  BY <1>4, StillApart
<1>7. ViewInv'
  <2> SUFFICES ASSUME Orderly, NEW d \in Conns, client'[d] = "wait"
               PROVE  \/ view[d] = mp \/ ev[thr[d].i].posted
                      \/ \E x \in Conns : thr'[x].pc \in {"tell", "untell"}
    BY <1>1, <1>4 DEF ViewInv
  <2>1. client[d] = "wait"
    OBVIOUS
  <2> QED
    BY Zenon, <2>1 DEF ViewInv
<1>8. MpInv'
  <2>1. ~rush => \A d \in Conns : Known(d)' => slot'[thr'[d].i].flag = FlagOf[d]
    BY Zenon, <1>1
  <2>2. MpInv
    OBVIOUS
  <2> QED
    BY Zenon, <2>1, <2>2, SameFlags
<1> QED
  BY <1>3, <1>5, <1>6, <1>7, <1>8
-----------------------------------------------------------------------------
(* A step of app_conn_loop that leaves the threads alone. *)
LEMMA LoopFlags ==
  ASSUME IndInv, FlagInv, UNCHANGED <<thr, client, mp, ev, view, rush>>,
         \A j \in Slots : slot'[j].flag = slot[j].flag,
         \A c \in Conns : thr[c].pc \in Serving =>
           /\ slot'[thr[c].i].proc = slot[thr[c].i].proc
           /\ slot'[thr[c].i].alive = slot[thr[c].i].alive
  PROVE  FlagInv'
<1> USE DEF FlagInv
<1>1. FitInv' /\ MoveInv'
  BY SMTT(60) DEF FitInv, Fits, MoveInv, Settled
<1>2. WatchInv'
  BY OwnSlots DEF WatchInv
<1>3. Orderly' <=> Orderly
  BY DEF Orderly, Ended
<1>4. ApartInv'
  BY <1>3 DEF ApartInv, Active
<1>5. ViewInv'
  BY <1>3 DEF ViewInv
<1>6. \A c \in Conns : (Known(c)' <=> Known(c)) /\ (Flagged(c)' <=> Flagged(c))
  BY DEF Known, Flagged
<1>7. \A c \in Conns : Known(c) => thr[c].i \in Slots
  BY DEF IndInv, OwnInv, Known
<1>8. {c \in Conns : Flagged(c)}' = {c \in Conns : Flagged(c)}
  BY <1>6
<1>9. MpInv'
  <2> SUFFICES ASSUME ~rush PROVE MpInv'
    BY DEF MpInv
  <2>1. mp' = {FlagOf[c] : c \in {d \in Conns : Flagged(d)}}'
    BY <1>8 DEF MpInv
  <2>2. \A c \in Conns : Known(c)' => slot'[thr'[c].i].flag = FlagOf[c]
    BY <1>6, <1>7 DEF MpInv
  <2>3. \A c \in Conns : thr'[c].pc \in {"added", "removed"} => thr'[c].tmp = mp'
    BY DEF MpInv
  <2> QED
    BY <2>1, <2>2, <2>3 DEF MpInv
<1> QED
  BY <1>1, <1>2, <1>4, <1>5, <1>9

(* WaitAvail and Started keep the flags. *)
LEMMA LoopFlagInd ==
  ASSUME IndInv, FlagInv, WaitAvail \/ Started
  PROVE  FlagInv'
<1>1. UNCHANGED <<thr, client, mp, ev, view, rush>>
  BY DEF WaitAvail, Started
<1>2. slot \in [Slots -> SlotRec]
  BY DEF IndInv, Shape
<1>3. \A j \in Slots : /\ slot'[j].flag = slot[j].flag /\ slot'[j].proc = slot[j].proc
                       /\ slot'[j].alive = slot[j].alive
  <2>1. CASE WaitAvail
    BY <2>1 DEF WaitAvail
  <2>2. CASE Started
    <3> DEFINE k == loop.i
               r == [[slot[k] EXCEPT !.started = @ - 1] EXCEPT !.alloced = 1]
    <3>1. /\ k \in Slots /\ slot[k].started = 1
          /\ slot' = [slot EXCEPT ![k].started = @ - 1, ![k].alloced = 1]
      BY <2>2, SlotFields DEF IndInv, OwnInv, Started
    <3> HIDE DEF k
    <3>0. slot[k] \in SlotRec
      BY <1>2, <3>1
    <3>2. slot' = [slot EXCEPT ![k] = r]
      BY Zenon, <1>2, <3>0, <3>1
    <3>3. r.proc = slot[k].proc /\ r.flag = slot[k].flag /\ r.alive = slot[k].alive
      BY <1>2, <3>1, SlotOthers
    <3> HIDE DEF r
    <3> QED
      BY <1>2, <3>1, <3>2, <3>3
  <2> QED
    BY <2>1, <2>2
<1> QED
  BY <1>1, <1>3, OwnSlots, LoopFlags DEF FlagInv
-----------------------------------------------------------------------------
(* A step that leaves slots, threads and flags alone, and sets nothing but   *)
(* the application's own state and its event entry.                          *)
LEMMA ClientFlags ==
  ASSUME IndInv, FlagInv, NEW c \in Conns, UNCHANGED <<slot, thr, mp>>,
         rush => rush', \A d \in Conns \ {c} : client'[d] = client[d] /\ view'[d] = view[d],
         FitInv', MoveInv', client[c] \in {"gone", "closed"} => client'[c] \in {"gone", "closed"},
         ~rush' => (Flagged(c)' <=> Flagged(c)) /\ (Known(c)' => Known(c)),
         client'[c] \in {"open", "copy", "wait"} => client[c] \in {"open", "copy", "wait"},
         client'[c] \in {"copy", "wait"} => ev'[thr[c].i].proc = c,
         client'[c] = "wait" => view'[c] = mp,
         \A d \in Conns \ {c} : client[d] \in {"copy", "wait"} =>
           /\ ev'[thr[d].i].proc = ev[thr[d].i].proc
           /\ ev[thr[d].i].posted => ev'[thr[d].i].posted
  PROVE  FlagInv'
<1> USE DEF FlagInv
<1>1. Orderly' => Orderly
  BY OrderlyBefore
<1>2. WatchInv'
  BY DEF WatchInv
<1>3. ApartInv'
  BY <1>1 DEF ApartInv, Active
<1>4. ViewInv'
  BY <1>1 DEF ViewInv
<1>5. MpInv'
  <2> SUFFICES ASSUME ~rush' PROVE MpInv'
    BY DEF MpInv
  <2>1. ~rush
    OBVIOUS
  <2>2. \A d \in Conns : (Known(d)' => Known(d)) /\ (Flagged(d)' <=> Flagged(d))
    BY DEF Known, Flagged
  <2>3. {d \in Conns : Flagged(d)}' = {d \in Conns : Flagged(d)}
    BY <2>2
  <2>4. mp' = {FlagOf[d] : d \in {x \in Conns : Flagged(x)}}'
    BY <2>1, <2>3 DEF MpInv
  <2> QED
    BY <2>1, <2>2, <2>4 DEF MpInv
<1> QED
  BY <1>2, <1>3, <1>4, <1>5

(* The event entries after a write to one of them. *)
LEMMA EvOthers ==
  ASSUME Shape, NEW k \in Slots
  PROVE  /\ \A x : LET e == [ev EXCEPT ![k].proc = x] IN
              e[k].proc = x /\ \A j \in Slots \ {k} : e[j] = ev[j]
         /\ LET e == [ev EXCEPT ![k].posted = FALSE] IN
              e[k].proc = ev[k].proc /\ \A j \in Slots \ {k} : e[j] = ev[j]
<1>1. ev \in [Slots -> EvRec]
  BY DEF Shape
<1>2. ASSUME NEW x PROVE LET e == [ev EXCEPT ![k].proc = x] IN
              e[k].proc = x /\ \A j \in Slots \ {k} : e[j] = ev[j]
  BY <1>1 DEF EvRec
<1>3. LET e == [ev EXCEPT ![k].posted = FALSE] IN
              e[k].proc = ev[k].proc /\ \A j \in Slots \ {k} : e[j] = ev[j]
  BY <1>1 DEF EvRec
<1> QED
  BY <1>2, <1>3

(* Open, CopyDd, Event and Timeout keep the flags: an application has copied *)
(* the flags before it waits.                                                *)
LEMMA WatchFlagInd ==
  ASSUME IndInv, FlagInv, NEW c \in Conns, Watch(c)
  PROVE  FlagInv'
<1> DEFINE k == thr[c].i
<1>1. /\ UNCHANGED <<slot, thr, mp, rush>> /\ client[c] \in {"open", "copy", "wait"}
      /\ \E x \in {"copy", "wait"} : client' = [client EXCEPT ![c] = x]
      /\ ev' = ev \/ ev' = [ev EXCEPT ![k].proc = c] \/ ev' = [ev EXCEPT ![k].posted = FALSE]
      /\ client[c] = "open" => ev' = [ev EXCEPT ![k].proc = c]
      /\ view' = view \/ view' = [view EXCEPT ![c] = mp]
      /\ client'[c] = "wait" => view' = [view EXCEPT ![c] = mp]
  BY DEF Watch, Open, CopyDd, Event, Timeout, IndInv, Shape
<1>2. /\ client'[c] \in {"copy", "wait"} /\ \A d \in Conns \ {c} : client'[d] = client[d]
      /\ \A d \in Conns \ {c} : view'[d] = view[d]
      /\ client'[c] = "wait" => view'[c] = mp
  BY <1>1 DEF IndInv, Shape
<1>3. thr[c].pc \in Serving /\ k \in Slots
  BY <1>1, OwnSlots DEF FlagInv
<1>4. \A d \in Conns \ {c} : client[d] \in {"copy", "wait"} => thr[d].i \in Slots /\ thr[d].i # k
  BY <1>3, OwnSlots DEF FlagInv
<1> HIDE DEF k
<1>5. \A j \in Slots \ {k} : ev'[j] = ev[j]
  BY <1>1, <1>3, EvOthers DEF IndInv
<1>6. ev'[k].proc = c
  <2>1. CASE client[c] = "open"
    <3>1. ev' = [ev EXCEPT ![k].proc = c] /\ Shape
      BY <1>1, <2>1 DEF IndInv
    <3>2. [ev EXCEPT ![k].proc = c][k].proc = c
      BY <1>3, <3>1, EvOthers
    <3> QED
      BY <3>1, <3>2
  <2>2. CASE client[c] # "open"
    <3>1. ev[k].proc = c
      BY <1>1, <2>2 DEF FlagInv, WatchInv, k
    <3>2. [ev EXCEPT ![k].proc = c][k].proc = c
      BY <1>3, EvOthers DEF IndInv
    <3>3. [ev EXCEPT ![k].posted = FALSE][k].proc = ev[k].proc
      BY <1>3, EvOthers DEF IndInv
    <3> QED
      BY Zenon, <1>1, <3>1, <3>2, <3>3
  <2> QED
    BY <2>1, <2>2
<1>7. FitInv' /\ MoveInv'
  <2>1. Fits(c)'
    BY <1>1, <1>2 DEF FlagInv, FitInv, Fits, Closing
  <2>2. Settled(c) => Settled(c)'
    BY <1>1, <1>2 DEF Settled
  <2> QED
    BY <1>1, <1>2, <2>1, <2>2, OneConn DEF FlagInv
<1>8. (Flagged(c)' <=> Flagged(c)) /\ (Known(c)' => Known(c))
  BY <1>1, <1>2 DEF Flagged, Known
<1> QED
  BY SMTT(60), <1>1, <1>2, <1>4, <1>5, <1>6, <1>7, <1>8, ClientFlags DEF k

(* When all is quiet nothing is under way for any application. *)
LEMMA QuietSettled ==
  ASSUME FitInv, Quiet
  PROVE  \A c \in Conns : Settled(c)
  BY DEF FitInv, Fits, Quiet, Settled, Closing

(* Connect and Close keep the flags: with rush still FALSE nothing else was  *)
(* under way.                                                                *)
LEMMA ActsMove ==
  ASSUME FitInv, MoveInv, Acts, NEW c \in Conns, Fits(c)', thr' = thr,
         \A d \in Conns \ {c} : client'[d] = client[d],
         Quiet => client'[c] # "gone"
  PROVE  FitInv' /\ MoveInv'
<1>1. FitInv'
  BY DEF FitInv, Fits
<1>2. ASSUME ~rush'
      PROVE  /\ \A d \in Conns \ {c} : Settled(d)'
             /\ \A d \in Conns : client'[d] # "gone"
  <2>1. Quiet /\ ~rush
    BY Zenon, <1>2 DEF Acts
  <2>2. \A d \in Conns \ {c} : Settled(d)'
    BY <2>1, QuietSettled DEF Settled
  <2>3. \A d \in Conns : client'[d] # "gone"
    BY <2>1 DEF MoveInv
  <2> QED
    BY <2>2, <2>3
<1>3. MoveInv'
  BY <1>2 DEF MoveInv
<1> QED
  BY <1>1, <1>3

LEMMA ConnectFlagInd ==
  ASSUME IndInv, FlagInv, NEW c \in Conns, Connect(c)
  PROVE  FlagInv'
<1>1. /\ UNCHANGED <<slot, thr, mp, ev, view>> /\ Acts /\ client[c] = "idle"
      /\ client'[c] = "connect" /\ \A d \in Conns \ {c} : client'[d] = client[d]
  BY DEF Connect, IndInv, Shape
<1>2. rush => rush'
  BY Zenon, <1>1 DEF Acts
<1>3. FitInv' /\ MoveInv'
  <2>1. Fits(c)'
    BY <1>1 DEF FlagInv, FitInv, Fits, Closing
  <2> QED
    BY <1>1, <2>1, ActsMove DEF FlagInv
<1>4. (Flagged(c)' <=> Flagged(c)) /\ (Known(c)' => Known(c))
  BY <1>1 DEF Flagged, Known
<1> QED
  BY <1>1, <1>2, <1>3, <1>4, ClientFlags

LEMMA CloseFlagInd ==
  ASSUME IndInv, FlagInv, NEW c \in Conns, Close(c)
  PROVE  FlagInv'
<1> DEFINE k == thr[c].i
<1>1. /\ UNCHANGED <<slot, thr, mp, view>> /\ Acts
      /\ client[c] \in {"hello", "open", "copy", "wait"}
      /\ client'[c] = IF client[c] = "hello" THEN "gone" ELSE "closed"
      /\ \A d \in Conns \ {c} : client'[d] = client[d]
      /\ ev' = ev \/ ev' = [ev EXCEPT ![k].proc = NULL]
  BY DEF Close, IndInv, Shape
<1>2. rush => rush'
  BY Zenon, <1>1 DEF Acts
<1>3. thr[c].pc \in Serving /\ k \in Slots
  <2>1. thr[c].pc \in Serving
    BY <1>1 DEF FlagInv, FitInv, Fits, Closing, Serving
  <2> QED
    BY <2>1, OwnSlots DEF FlagInv
<1>4. \A d \in Conns \ {c} : client[d] \in {"copy", "wait"} => thr[d].i \in Slots /\ thr[d].i # k
  BY <1>3, OwnSlots DEF FlagInv
<1>5. FitInv' /\ MoveInv'
  <2>1. Fits(c)'
    BY <1>1 DEF FlagInv, FitInv, Fits, Closing
  <2>2. Quiet => client'[c] # "gone"
    BY <1>1 DEF Quiet
  <2> QED
    BY <1>1, <2>1, <2>2, ActsMove DEF FlagInv
<1>6. (Flagged(c)' <=> Flagged(c)) /\ (Known(c)' => Known(c))
  BY <1>1 DEF Flagged, Known
<1> HIDE DEF k
<1>7. \A j \in Slots \ {k} : ev'[j] = ev[j]
  BY <1>1, <1>3, EvOthers DEF IndInv
<1> QED
  BY <1>1, <1>2, <1>4, <1>5, <1>6, <1>7, ClientFlags DEF k
-----------------------------------------------------------------------------
(* Orderly threads have slots of their own. *)
LEMMA ApartSlots ==
  ASSUME IndInv, ApartInv, Orderly, NEW c \in Conns, Active(c)
  PROVE  /\ thr[c].i \in Slots
         /\ \A d \in Conns \ {c} : Active(d) => thr[d].i \in Slots /\ thr[d].i # thr[c].i
  BY DEF IndInv, OwnInv, ApartInv, Active

(* ThreadStart keeps the flags. *)
LEMMA ThreadStartFlagInd ==
  ASSUME IndInv, FlagInv, NEW c \in Conns, ThreadStart(c)
  PROVE  FlagInv'
<1> DEFINE k == thr[c].i
           r == [[slot[k] EXCEPT !.alive = TRUE] EXCEPT !.started = @ + 1]
<1>1. /\ Step(c, "start", "recv") /\ UNCHANGED <<client, mp, ev, view, rush>>
      /\ slot' = [slot EXCEPT ![k].alive = TRUE, ![k].started = @ + 1]
  BY DEF ThreadStart
<1>2. /\ thr[c].pc = "start" /\ thr'[c].pc = "recv" /\ thr'[c].i = k
      /\ \A d \in Conns \ {c} : thr'[d] = thr[d]
  BY <1>1, StepThread DEF IndInv, ThrPcs, Serving
<1>3. k \in Slots /\ slot \in [Slots -> SlotRec] /\ slot[k] \in SlotRec
  BY <1>2 DEF IndInv, OwnInv, Shape
<1> HIDE DEF k
<1>4. slot' = [slot EXCEPT ![k] = r]
  BY Zenon, <1>1, <1>3
<1>5. r.proc = slot[k].proc /\ r.flag = slot[k].flag /\ r.alive = TRUE
  BY <1>3, SlotOthers
<1> HIDE DEF r
<1>6. /\ \A j \in Slots : slot'[j].proc = slot[j].proc /\ slot'[j].flag = slot[j].flag
      /\ slot'[k].alive = TRUE /\ \A j \in Slots \ {k} : slot'[j] = slot[j]
  BY <1>3, <1>4, <1>5
<1>7. client[c] \in {"hello", "gone"} /\ Fits(c)' /\ Active(c) /\ ~Settled(c)
  BY <1>1, <1>2 DEF FlagInv, FitInv, Fits, Closing, Active, Settled
<1>8. \A d \in Conns : client'[d] \in {"open", "copy", "wait"} => slot'[thr[d].i].proc = d
  BY Zenon, <1>1, <1>6, OwnSlots DEF FlagInv, WatchInv
<1>9. ASSUME Orderly, NEW d \in Conns, thr'[d].pc \in Serving \ {"start"}
      PROVE  slot'[thr[d].i].alive
  <2>1. CASE d = c
    BY <1>6, <2>1 DEF k
  <2>2. CASE d # c
    <3>1. thr[d].pc \in Serving \ {"start"} /\ slot[thr[d].i].alive
      BY <1>2, <1>9, <2>2 DEF FlagInv, ApartInv
    <3>2. thr[d].i \in Slots \ {k}
      BY <1>2, <2>2, <3>1, OwnSlots DEF FlagInv, Serving, k
    <3> QED
      BY <1>6, <3>1, <3>2
  <2> QED
    BY <2>1, <2>2
<1>10. (Flagged(c)' <=> Flagged(c)) /\ (Known(c)' => Known(c))
  BY <1>1, <1>2, <1>7 DEF Flagged, Known
<1>11. ASSUME ~rush, NEW d \in Conns, Known(d)' PROVE slot'[thr[d].i].flag = FlagOf[d]
  <2>1. Known(d)
    BY <1>1, <1>2, <1>10, <1>11 DEF Known
  <2>2. thr[d].i \in Slots
    BY <2>1 DEF IndInv, OwnInv, Known
  <2> QED
    BY <1>6, <1>11, <2>1, <2>2 DEF FlagInv, MpInv
<1> QED
  BY Zenon, <1>1, <1>2, <1>7, <1>8, <1>9, <1>10, <1>11, ThreadFlags DEF k

(* Hello, HelloFails and RecvFails keep the flags: the flag of the hello     *)
(* goes to the slot that only this thread uses.                              *)
LEMMA ReceiveFlagInd ==
  ASSUME IndInv, FlagInv, NEW c \in Conns, Hello(c) \/ HelloFails(c) \/ RecvFails(c)
  PROVE  FlagInv'
<1> DEFINE k == thr[c].i
           r == [[slot[k] EXCEPT !.flag = FlagOf[c]] EXCEPT !.proc = c]
<1>1. PICK q \in {"add", "close"} :
        /\ Step(c, "recv", q) /\ UNCHANGED <<mp, ev, view, rush>>
        /\ \/ /\ q = "add" /\ client[c] = "hello" /\ client' = [client EXCEPT ![c] = "open"]
              /\ slot' = [slot EXCEPT ![k].flag = FlagOf[c], ![k].proc = c]
           \/ /\ q = "close" /\ client[c] = "gone" /\ client' = [client EXCEPT ![c] = "closed"]
              /\ slot' = [slot EXCEPT ![k].flag = FlagOf[c], ![k].proc = c]
           \/ q = "close" /\ client[c] = "closed" /\ UNCHANGED <<client, slot>>
  BY DEF Hello, HelloFails, RecvFails
<1>2. /\ thr[c].pc = "recv" /\ thr'[c].pc = q /\ thr'[c].i = k
      /\ \A d \in Conns \ {c} : thr'[d] = thr[d]
  <2>1. q \in ThrPcs
    BY DEF ThrPcs, Serving
  <2> QED
    BY <1>1, <2>1, StepThread DEF IndInv
<1>3. k \in Slots /\ slot \in [Slots -> SlotRec] /\ slot[k] \in SlotRec
  BY <1>2 DEF IndInv, OwnInv, Shape
<1>4. /\ client'[c] = IF q = "add" THEN "open" ELSE "closed"
      /\ \A d \in Conns \ {c} : client'[d] = client[d]
  BY <1>1 DEF IndInv, Shape
<1> HIDE DEF k
<1>5. slot' = slot \/ slot' = [slot EXCEPT ![k] = r]
  BY Zenon, <1>1, <1>3
<1>6. r.proc = c /\ r.flag = FlagOf[c] /\ r.alive = slot[k].alive
  BY <1>3, SlotOthers
<1> HIDE DEF r
<1>7. /\ \A j \in Slots \ {k} : slot'[j] = slot[j]
      /\ slot'[k].alive = slot[k].alive
      /\ q = "add" => slot'[k].proc = c /\ slot'[k].flag = FlagOf[c]
      /\ q = "add" \/ client[c] = "gone" \/ slot' = slot
  <2>1. q = "add" => slot' = [slot EXCEPT ![k] = r]
    BY Zenon, <1>1, <1>3 DEF r
  <2> QED
    BY <1>1, <1>3, <1>5, <1>6, <2>1
<1>8. Fits(c)' /\ Active(c) /\ ~Settled(c)
  BY <1>1, <1>2, <1>4 DEF Fits, Closing, Active, Settled
<1>9. \A d \in Conns : client'[d] \in {"open", "copy", "wait"} => slot'[thr[d].i].proc = d
  <2>1. slot'[k].proc = c \/ q # "add"
    BY <1>7
  <2>2. ASSUME NEW d \in Conns \ {c}, client[d] \in {"open", "copy", "wait"}
        PROVE  slot'[thr[d].i].proc = d
    <3>1. thr[d].i \in Slots \ {k}
      BY <1>2, <2>2, OwnSlots DEF FlagInv, Serving, k
    <3> QED
      BY <1>7, <2>2, <3>1 DEF FlagInv, WatchInv
  <2> QED
    BY <1>4, <2>1, <2>2 DEF k
<1>10. ASSUME Orderly, NEW d \in Conns, thr'[d].pc \in Serving \ {"start"}
       PROVE  slot'[thr[d].i].alive
  <2>1. thr[d].pc \in Serving \ {"start"}
    BY <1>2, <1>10 DEF Serving
  <2>2. slot[thr[d].i].alive /\ thr[d].i \in Slots
    BY <1>10, <2>1, OwnSlots DEF FlagInv, ApartInv
  <2> QED
    BY <1>7, <2>2
<1>11. ASSUME ~rush PROVE Flagged(c)' <=> Flagged(c)
  <2>1. client[c] # "gone"
    BY <1>11 DEF FlagInv, MoveInv
  <2> QED
    BY <1>1, <1>2, <1>4, <2>1 DEF Flagged, Known
<1>12. ASSUME ~rush, NEW d \in Conns, Known(d)' PROVE slot'[thr[d].i].flag = FlagOf[d]
  <2>1. client[c] # "gone" /\ Orderly
    BY <1>12 DEF FlagInv, MoveInv, Orderly
  <2>2. CASE d = c
    <3>1. CASE q = "add"
      BY <1>7, <2>2, <3>1 DEF k
    <3>2. CASE q # "add"
      <4>1. slot' = slot /\ Known(c)
        BY <1>1, <1>2, <1>7, <2>1, <3>2 DEF Known
      <4> QED
        BY <1>12, <2>2, <4>1 DEF FlagInv, MpInv
    <3> QED
      BY <3>1, <3>2
  <2>3. CASE d # c
    <3>1. Known(d) /\ Active(d)
      BY <1>2, <1>4, <1>12, <2>3 DEF Known, Active
    <3>2. thr[d].i \in Slots \ {k}
      BY <1>8, <2>1, <2>3, <3>1, ApartSlots DEF FlagInv, k
    <3> QED
      BY <1>7, <1>12, <3>1, <3>2 DEF FlagInv, MpInv
  <2> QED
    BY <2>2, <2>3
<1> QED
  BY <1>1, <1>2, <1>4, <1>8, <1>9, <1>10, <1>11, <1>12, ThreadFlags DEF k

(* CloseApp, NotAlive and PostAvail keep the flags: the slot that is marked  *)
(* not alive is nobody else's yet.                                           *)
LEMMA EndFlagInd ==
  ASSUME IndInv, FlagInv, NEW c \in Conns, CloseApp(c) \/ NotAlive(c) \/ PostAvail(c)
  PROVE  FlagInv'
<1> DEFINE k == thr[c].i
<1>1. PICK p \in {"close", "dead", "post"}, q \in {"dead", "post", "remove"} :
        /\ Step(c, p, q) /\ UNCHANGED <<client, mp, ev, view, rush>>
        /\ \/ slot' = [slot EXCEPT ![k].alloced = 0]
           \/ slot' = [slot EXCEPT ![k].alive = FALSE]
           \/ slot' = slot
  BY DEF CloseApp, NotAlive, PostAvail
<1>2. /\ thr[c].pc = p /\ thr'[c].pc = q /\ thr'[c].i = k
      /\ \A d \in Conns \ {c} : thr'[d] = thr[d]
  <2>1. q \in ThrPcs
    BY DEF ThrPcs, Serving
  <2> QED
    BY <1>1, <2>1, StepThread DEF IndInv
<1>3. k \in Slots /\ slot \in [Slots -> SlotRec] /\ slot[k] \in SlotRec
  BY <1>2 DEF IndInv, OwnInv, Shape
<1> HIDE DEF k
<1>4. /\ \A j \in Slots : slot'[j].proc = slot[j].proc /\ slot'[j].flag = slot[j].flag
      /\ \A j \in Slots \ {k} : slot'[j] = slot[j]
  <2> DEFINE x == [slot[k] EXCEPT !.alloced = 0]
             y == [slot[k] EXCEPT !.alive = FALSE]
  <2>1. x.proc = slot[k].proc /\ x.flag = slot[k].flag /\ y.proc = slot[k].proc /\ y.flag = slot[k].flag
    BY <1>3, SlotOthers
  <2>2. slot' = [slot EXCEPT ![k] = x] \/ slot' = [slot EXCEPT ![k] = y] \/ slot' = slot
    BY <1>1, <1>3
  <2> HIDE DEF x, y
  <2> QED
    BY <1>3, <2>1, <2>2
<1>5. client[c] = "closed" /\ Fits(c)' /\ Active(c) /\ ~Settled(c)
  BY <1>1, <1>2 DEF FlagInv, FitInv, Fits, Closing, Active, Settled
<1>6. \A d \in Conns : client'[d] \in {"open", "copy", "wait"} => slot'[thr[d].i].proc = d
  BY <1>1, <1>4, OwnSlots DEF FlagInv, WatchInv
<1>7. ASSUME Orderly, NEW d \in Conns, thr'[d].pc \in Serving \ {"start"}
      PROVE  slot'[thr[d].i].alive
  <2>1. d # c /\ thr[d].pc \in Serving \ {"start"}
    BY <1>2, <1>7 DEF Serving
  <2>2. Active(d) /\ slot[thr[d].i].alive
    BY <1>7, <2>1 DEF FlagInv, ApartInv, Active, Serving
  <2>3. thr[d].i \in Slots \ {k}
    BY <1>5, <1>7, <2>1, <2>2, ApartSlots DEF FlagInv, k
  <2> QED
    BY <1>4, <2>2, <2>3
<1>8. (Flagged(c)' <=> Flagged(c)) /\ Known(c)
  BY <1>2 DEF Flagged, Known
<1>9. ASSUME ~rush, NEW d \in Conns, Known(d)' PROVE slot'[thr[d].i].flag = FlagOf[d]
  <2>1. Known(d)
    BY <1>1, <1>2, <1>8, <1>9 DEF Known
  <2>2. thr[d].i \in Slots
    BY <2>1 DEF IndInv, OwnInv, Known
  <2> QED
    BY <1>4, <1>9, <2>1, <2>2 DEF FlagInv, MpInv
<1> QED
  BY <1>1, <1>2, <1>5, <1>6, <1>7, <1>8, <1>9, ThreadFlags DEF k

(* The read of mod_dd_mp_flag keeps the flags. *)
LEMMA ModReadFlagInd ==
  ASSUME IndInv, FlagInv, NEW c \in Conns, NEW p, NEW q, ModRead(c, p, q),
         <<p, q>> \in {<<"add", "added">>, <<"remove", "removed">>}
  PROVE  FlagInv'
<1>1. thr[c].pc = p /\ UNCHANGED <<slot, client, mp, ev, view, rush>>
  BY DEF ModRead
<1>2. /\ thr'[c].pc = q /\ thr'[c].i = thr[c].i /\ thr'[c].tmp = mp
      /\ \A d \in Conns \ {c} : thr'[d] = thr[d]
  <2>1. /\ q \in ThrPcs /\ mp \in SUBSET Flags
        /\ thr' = [thr EXCEPT ![c].pc = q, ![c].tmp = mp]
    BY DEF ModRead, IndInv, Shape, ThrPcs, Serving
  <2>2. /\ thr'[c].pc = q /\ thr'[c].i = thr[c].i
        /\ \A d \in Conns \ {c} : thr'[d] = thr[d]
    BY Zenon, <2>1, ModThread DEF IndInv
  <2>3. thr \in [Conns -> ThrRec] /\ thr[c] \in ThrRec
    BY DEF IndInv, Shape
  <2>4. thr'[c].tmp = mp
    BY <2>1, <2>3 DEF ThrRec
  <2> QED
    BY <2>2, <2>4
<1>3. Fits(c)' /\ Active(c) /\ ~Settled(c)
  BY <1>1, <1>2 DEF FlagInv, FitInv, Fits, Closing, Active, Settled
<1>4. \A d \in Conns : thr'[d].pc \in Serving \ {"start"} => thr[d].pc \in Serving \ {"start"}
  BY <1>1, <1>2 DEF Serving
<1>5. Flagged(c)' <=> Flagged(c)
  BY <1>1, <1>2 DEF Flagged, Known
<1>6. \A d \in Conns : Known(d)' => Known(d)
  BY <1>1, <1>2 DEF Known
<1>7. \A d \in Conns : client[d] \in {"open", "copy", "wait"} => slot[thr[d].i].proc = d
  BY DEF FlagInv, WatchInv
<1>8. Orderly => \A d \in Conns : thr'[d].pc \in Serving \ {"start"} => slot'[thr[d].i].alive
  BY <1>1, <1>4 DEF FlagInv, ApartInv
<1>9. ~rush => \A d \in Conns : Known(d)' => slot'[thr[d].i].flag = FlagOf[d]
  BY <1>1, <1>6 DEF FlagInv, MpInv
<1> QED
  BY Zenon, <1>1, <1>2, <1>3, <1>5, <1>7, <1>8, <1>9, ThreadFlags

(* Its write keeps them: with one application at a time what it read is what *)
(* is there, and the slot's flag is the application's.                       *)
LEMMA ModWriteFlagInd ==
  ASSUME Distinct, IndInv, FlagInv, NEW c \in Conns, NEW p, NEW q, NEW b \in BOOLEAN,
         ModWrite(c, p, q, b),
         <<p, q, b>> \in {<<"added", "tell", TRUE>>, <<"removed", "untell", FALSE>>}
  PROVE  FlagInv'
<1> USE DEF FlagInv
<1>1. thr[c].pc = p /\ UNCHANGED <<slot, client, ev, view, rush>>
  BY DEF ModWrite
<1>2. /\ thr'[c].pc = q /\ thr'[c].i = thr[c].i /\ \A d \in Conns \ {c} : thr'[d] = thr[d]
  <2>1. q \in ThrPcs /\ {} \in SUBSET Flags /\ thr' = [thr EXCEPT ![c].pc = q, ![c].tmp = {}]
    BY Zenon DEF ModWrite, ThrPcs, Serving
  <2> QED
    BY Zenon, <2>1, ModThread DEF IndInv
<1>3. Fits(c)' /\ Active(c) /\ ~Settled(c)
  BY Zenon, <1>1, <1>2 DEF FitInv, Fits, Closing, Active, Settled
<1>4. FitInv' /\ MoveInv'
  <2>1. ~rush => client'[c] # "gone"
    BY <1>1 DEF MoveInv
  <2> QED
    BY <1>1, <1>2, <1>3, <2>1, OneConn
<1>5. Orderly' => Orderly
  BY <1>1, OrderlyBefore
<1>6. WatchInv'
  <2>1. \A d \in Conns : thr'[d].i = thr[d].i
    BY <1>2
  <2> QED
    BY <1>1, <2>1 DEF WatchInv
<1>7. ApartInv'
  <2>1. \A d \in Conns : thr'[d].pc \in Serving \ {"start"} => thr[d].pc \in Serving \ {"start"}
    BY Zenon, <1>1, <1>2 DEF Serving
  <2>2. Orderly => \A d \in Conns : thr'[d].pc \in Serving \ {"start"} => slot'[thr[d].i].alive
    BY <1>1, <2>1 DEF ApartInv
  <2> QED
    BY <1>2, <1>3, <1>5, <2>2, StillApart
<1>8. ViewInv'
  <2>1. thr'[c].pc \in {"tell", "untell"}
    BY Zenon, <1>2
  <2> QED
    BY <2>1 DEF ViewInv
<1>9. ASSUME ~rush
      PROVE  /\ mp' = {FlagOf[d] : d \in {x \in Conns : Flagged(x)}}'
             /\ \A d \in Conns : Known(d)' => slot'[thr'[d].i].flag = FlagOf[d]
             /\ \A d \in Conns : thr'[d].pc \in {"added", "removed"} => thr'[d].tmp = mp'
  <2>1. thr[c].tmp = mp /\ Known(c) /\ slot[thr[c].i].flag = FlagOf[c]
    BY Zenon, <1>1, <1>9 DEF MpInv, Known
  <2>2. FlagOf[c] # NULL
    BY AppConstants
  <2>3. mp' = IF b THEN mp \cup {FlagOf[c]} ELSE mp \ {FlagOf[c]}
    BY <2>1, <2>2 DEF ModWrite
  <2> DEFINE F == {d \in Conns : Flagged(d)}
  <2>4. \A d \in Conns \ {c} : Flagged(d)' <=> Flagged(d)
    BY <1>1, <1>2 DEF Flagged, Known
  <2>5. Flagged(c)' <=> b
    BY Zenon, <1>2 DEF Flagged, Known
  <2>6. F' = IF b THEN F \cup {c} ELSE F \ {c}
    BY <2>4, <2>5
  <2>7. mp = {FlagOf[d] : d \in F}
    BY <1>9 DEF MpInv
  <2> HIDE DEF F
  <2>8. mp' = {FlagOf[d] : d \in F'}
    <3>1. CASE b
      BY <2>3, <2>6, <2>7, <3>1
    <3>2. CASE ~b
      <4>1. F \subseteq Conns
        BY DEF F
      <4>2. ASSUME NEW x \in mp \ {FlagOf[c]} PROVE x \in {FlagOf[d] : d \in F \ {c}}
        BY <2>7, <4>2
      <4>3. ASSUME NEW d \in F \ {c} PROVE FlagOf[d] \in mp \ {FlagOf[c]}
        BY <2>7, <4>1, <4>3 DEF Distinct
      <4> QED
        BY <2>3, <2>6, <3>2, <4>2, <4>3
    <3> QED
      BY <3>1, <3>2
  <2>9. \A d \in Conns : Known(d)' => slot'[thr'[d].i].flag = FlagOf[d]
    <3>1. \A d \in Conns : Known(d)' => Known(d) /\ thr'[d].i = thr[d].i
      BY <1>1, <1>2, <2>1 DEF Known
    <3> QED
      BY <1>1, <1>9, <3>1 DEF MpInv
  <2>10. \A d \in Conns : thr'[d].pc \notin {"added", "removed"}
    <3>1. \A d \in Conns \ {c} : Settled(d)
      BY <1>3, <1>9 DEF MoveInv
    <3> QED
      BY Zenon, <1>2, <3>1 DEF Settled
  <2> QED
    BY <2>8, <2>9, <2>10 DEF F
<1>10. MpInv'
  BY Zenon, <1>1, <1>9 DEF MpInv
<1> QED
  BY <1>4, <1>6, <1>7, <1>8, <1>10

(* Telling the applications keeps the flags: each one that waits has an       *)
(* entry of its own and a slot that is alive, so that it is told.             *)
LEMMA NotifyFlagInd ==
  ASSUME IndInv, FlagInv, NEW c \in Conns, NEW p, NEW q, Notify(c, p, q),
         <<p, q>> \in {<<"tell", "recv">>, <<"untell", "done">>}
  PROVE  FlagInv'
<1> USE DEF FlagInv
<1>1. /\ Step(c, p, q) /\ UNCHANGED <<slot, client, mp, view, rush>>
      /\ ev' = [i \in Slots |-> IF Notified(i) THEN [ev[i] EXCEPT !.posted = TRUE] ELSE ev[i]]
  BY DEF Notify
<1>2. /\ thr[c].pc = p /\ thr'[c].pc = q /\ thr'[c].i = thr[c].i
      /\ \A d \in Conns \ {c} : thr'[d] = thr[d]
  <2>1. q \in ThrPcs
    BY DEF ThrPcs, Serving
  <2> QED
    BY <1>1, <2>1, StepThread DEF IndInv
<1>3. \A i \in Slots : ev'[i].proc = ev[i].proc /\ (Notified(i) => ev'[i].posted)
  <2> TAKE i \in Slots
  <2> DEFINE e == [ev[i] EXCEPT !.posted = TRUE]
  <2>1. ev[i] \in EvRec
    BY DEF IndInv, Shape
  <2>2. e.proc = ev[i].proc /\ e.posted = TRUE
    BY <2>1 DEF EvRec
  <2>3. ev'[i] = IF Notified(i) THEN e ELSE ev[i]
    BY <1>1
  <2> HIDE DEF e
  <2> QED
    BY <2>2, <2>3
<1>5. Fits(c)' /\ Active(c) /\ ~Settled(c)
  BY <1>1, <1>2 DEF FitInv, Fits, Closing, Active, Settled
<1>6. FitInv' /\ MoveInv'
  <2>1. ~rush => client'[c] # "gone"
    BY <1>1 DEF MoveInv
  <2> QED
    BY <1>1, <1>2, <1>5, <2>1, OneConn
<1>7. Orderly' => Orderly
  BY <1>1, OrderlyBefore
<1>8. \A d \in Conns : thr'[d].i = thr[d].i
  BY <1>2
<1>9. \A d \in Conns : client[d] \in {"open", "copy", "wait"} => thr[d].i \in Slots
  BY OwnSlots
<1>10. WatchInv'
  BY <1>1, <1>3, <1>8, <1>9 DEF WatchInv
<1>11. ApartInv'
  <2>1. \A d \in Conns : thr'[d].pc \in Serving \ {"start"} => thr[d].pc \in Serving \ {"start"}
    BY <1>2 DEF Serving
  <2>2. Orderly => \A d \in Conns : thr'[d].pc \in Serving \ {"start"} => slot'[thr[d].i].alive
    BY <1>1, <2>1 DEF ApartInv
  <2> QED
    BY <1>2, <1>5, <1>7, <2>2, StillApart
<1>12. ViewInv'
  <2> SUFFICES ASSUME Orderly, NEW d \in Conns, client[d] = "wait"
               PROVE  ev'[thr[d].i].posted
    BY <1>1, <1>7, <1>8 DEF ViewInv
  <2>1. thr[d].pc \in Serving \ {"start"}
    BY DEF FitInv, Fits, Serving, Closing
  <2>2. thr[d].i \in Slots /\ slot[thr[d].i].alloced # 0
    BY <2>1, OwnSlots
  <2>3. slot[thr[d].i].alive /\ slot[thr[d].i].proc = d /\ ev[thr[d].i].proc = d
    BY <2>1 DEF ApartInv, WatchInv
  <2>4. Notified(thr[d].i)
    BY <2>2, <2>3, AppConstants DEF Notified
  <2> QED
    BY <1>3, <2>2, <2>4
<1>13. MpInv'
  <2>1. Flagged(c)' <=> Flagged(c)
    BY <1>1, <1>2 DEF Flagged, Known, FitInv, Fits, Closing
  <2>2. \A d \in Conns : Known(d)' => Known(d)
    BY <1>1, <1>2 DEF Known
  <2>3. ~rush => \A d \in Conns : Known(d)' => slot'[thr'[d].i].flag = FlagOf[d]
    BY <1>1, <1>8, <2>2 DEF MpInv
  <2> QED
    BY <1>1, <1>2, <2>1, <2>3, SameFlags
<1> QED
  BY <1>6, <1>10, <1>11, <1>12, <1>13

(* Accept keeps the flags: as long as the applications come one by one or    *)
(* none has ended, no thread has the slot that it hands out.                 *)
LEMMA AcceptFlagInd ==
  ASSUME IndInv, FlagInv, NEW c \in Conns, Accept(c)
  PROVE  FlagInv'
<1> USE DEF FlagInv
<1> DEFINE k == loop.i
<1>1. /\ k \in Slots /\ slot[k].alloced = 0 /\ client[c] = "connect" /\ thr[c].pc = "none"
      /\ slot' = [slot EXCEPT ![k].conn = c, ![k].alloced = 2]
      /\ UNCHANGED <<mp, ev, view, rush>>
  BY DEF IndInv, OwnInv, StartInv, Accept
<1>2. /\ \/ thr'[c].pc = "start" /\ thr'[c].i = k /\ client'[c] = "hello"
         \/ thr' = thr /\ client'[c] = "stuck"
      /\ \A d \in Conns \ {c} : thr'[d] = thr[d] /\ client'[d] = client[d]
  BY DEF Accept, IndInv, Shape
<1> HIDE DEF k
<1>3. \A j \in Slots : /\ slot'[j].proc = slot[j].proc /\ slot'[j].flag = slot[j].flag
                       /\ slot'[j].alive = slot[j].alive
  <2> DEFINE x == [slot[k] EXCEPT !.conn = c, !.alloced = 2]
  <2>1. slot \in [Slots -> SlotRec] /\ slot[k] \in SlotRec
    BY <1>1 DEF IndInv, Shape
  <2>2. x.proc = slot[k].proc /\ x.flag = slot[k].flag /\ x.alive = slot[k].alive
    BY <2>1, SlotOthers
  <2>3. slot' = [slot EXCEPT ![k] = x]
    BY Zenon, <1>1, <2>1
  <2> HIDE DEF x
  <2> QED
    BY <2>1, <2>2, <2>3
<1>4. Fits(c)' /\ ~Settled(c)
  BY <1>1, <1>2 DEF Fits, Settled
<1>5. FitInv' /\ MoveInv'
  BY <1>1, <1>2, <1>4, OneConn
<1>6. Orderly' => Orderly
  BY <1>1, <1>2, OrderlyBefore
<1>7. \A d \in Conns : client[d] \in {"open", "copy", "wait"} => d # c /\ thr[d].i \in Slots
  BY <1>1, OwnSlots
<1>8. \A d \in Conns : client'[d] \in {"open", "copy", "wait"} => d # c
  BY <1>2
<1>9. WatchInv'
  <2>1. ASSUME NEW d \in Conns, client'[d] \in {"open", "copy", "wait"}
        PROVE  /\ client'[d] = client[d] /\ thr'[d].i = thr[d].i
               /\ slot'[thr[d].i].proc = slot[thr[d].i].proc
    <3>1. client'[d] = client[d] /\ thr'[d] = thr[d]
      BY <1>2, <1>8, <2>1
    <3> QED
      BY <1>3, <1>7, <2>1, <3>1
  <2> QED
    BY Zenon, <1>1, <2>1 DEF WatchInv
<1>10. ASSUME Orderly, NEW d \in Conns, Active(d) PROVE thr[d].i # k
  <2>1. CASE thr[d].pc \in Serving
    BY <1>1, <2>1, OwnSlots
  <2>2. CASE thr[d].pc \notin Serving
    <3>1. thr[d].pc \in Closing \ {"done"} /\ client[d] = "closed" /\ d # c
      BY <1>1, <1>10, <2>2 DEF FitInv, Fits, Active, Serving, Closing
    <3>2. ~Settled(d)
      BY <3>1 DEF Settled, Closing
    <3>3. ~rush
      BY <1>10, <3>1 DEF Orderly, Ended
    <3> QED
      BY <1>4, <3>1, <3>2, <3>3 DEF MoveInv
  <2> QED
    BY <2>1, <2>2
<1>11. ApartInv'
  <2> SUFFICES ASSUME Orderly PROVE ApartInv'
    BY <1>6 DEF ApartInv
  <2>1. \A d \in Conns \ {c} : Active(d)' => Active(d) /\ thr'[d].i # k /\ thr'[d].i = thr[d].i
    BY <1>2, <1>10 DEF Active
  <2>2. Active(c)' => thr'[c].i = k
    BY <1>1, <1>2 DEF Active
  <2>3. \A x, y \in Conns : Active(x)' /\ Active(y)' /\ thr'[x].i = thr'[y].i => x = y
    BY <2>1, <2>2 DEF ApartInv
  <2>4. ASSUME NEW d \in Conns, thr'[d].pc \in Serving \ {"start"} PROVE slot'[thr'[d].i].alive
    <3>1. d # c /\ thr'[d] = thr[d]
      BY <1>1, <1>2, <2>4 DEF Serving
    <3>2. thr[d].i \in Slots
      BY <2>4, <3>1, OwnSlots
    <3> QED
      BY <1>3, <2>4, <3>1, <3>2 DEF ApartInv
  <2> QED
    BY <2>3, <2>4 DEF ApartInv
<1>12. ViewInv'
  <2> SUFFICES ASSUME Orderly, NEW d \in Conns, client'[d] = "wait"
               PROVE  \/ view[d] = mp \/ ev[thr'[d].i].posted
                      \/ \E x \in Conns : thr'[x].pc \in {"tell", "untell"}
    BY <1>1, <1>6 DEF ViewInv
  <2>1. client[d] = "wait" /\ thr'[d] = thr[d]
    BY <1>2, <1>8
  <2>2. \A x \in Conns : thr[x].pc \in {"tell", "untell"} => thr'[x] = thr[x]
    BY <1>1, <1>2
  <2> QED
    BY <2>1, <2>2 DEF ViewInv
<1>13. MpInv'
  <2>1. (Flagged(c)' <=> Flagged(c)) /\ ~Known(c)' /\ thr'[c].pc \notin {"added", "removed"}
    BY <1>1, <1>2 DEF Flagged, Known
  <2>2. ASSUME ~rush, NEW d \in Conns, Known(d)' PROVE slot'[thr'[d].i].flag = FlagOf[d]
    <3>1. Known(d) /\ thr'[d] = thr[d]
      BY <1>2, <2>1, <2>2 DEF Known
    <3>2. thr[d].i \in Slots
      BY <3>1 DEF IndInv, OwnInv, Known
    <3> QED
      BY <1>3, <2>2, <3>1, <3>2 DEF MpInv
  <2> QED
    BY Zenon, <1>1, <1>2, <2>1, <2>2, SameFlags
<1> QED
  BY <1>5, <1>9, <1>11, <1>12, <1>13

LEMMA InitFlag == Init => FlagInv
<1> SUFFICES ASSUME Init PROVE FlagInv
  OBVIOUS
<1>1. /\ \A c \in Conns : thr[c].pc = "none" /\ client[c] = "idle"
      /\ mp = {}
  BY DEF Init
<1>2. FitInv /\ WatchInv /\ MoveInv
  BY <1>1 DEF FitInv, Fits, WatchInv, MoveInv, Settled
<1>3. ApartInv /\ ViewInv
  BY <1>1 DEF ApartInv, Active, ViewInv, Serving
<1>4. \A c \in Conns : ~Known(c) /\ ~Flagged(c)
  BY <1>1 DEF Known, Flagged
<1>5. MpInv
  BY <1>1, <1>4 DEF MpInv
<1> QED
  BY <1>2, <1>3, <1>5 DEF FlagInv
-----------------------------------------------------------------------------
INSTANCE WellFoundedInduction

(* A non-empty set of slots has a lowest one, which the scan takes. *)
LEMMA LowestSlot ==
  ASSUME NEW S \in SUBSET Slots, S # {}
  PROVE  \E x \in S : \A y \in 1..(x - 1) : y \notin S
<1>1. S \subseteq Nat
  BY DEF Slots
<1>2. PICK x \in S : \A y \in S : ~(<<y, x>> \in OpToRel(<, Nat))
  BY Zenon, <1>1, NatLessThanWellFounded, WFMin
<1>3. ASSUME NEW y \in 1..(x - 1), y \in S PROVE FALSE
  <2>1. y < x
    BY <1>1, <1>3
  <2> QED
    BY Zenon, <1>1, <1>2, <1>3, <2>1 DEF OpToRel
<1> QED
  BY <1>3

(* Scan keeps the invariant: the slot it takes is no serving thread's. *)
LEMMA ScanInd == IndInv /\ Scan => IndInv'
<1> SUFFICES ASSUME IndInv, Scan PROVE IndInv'
  OBVIOUS
<1>1. /\ UNCHANGED <<avail, thr, client, mp, dd_sem, ev, view, lost>>
      /\ loop.pc = "scan"
  BY DEF Scan
<1>2. loop'.pc \in {"accept", "dead"}
  BY DEF Scan
<1>3. CountInv'
  <2>1. Holders' = Holders /\ Inside' = Inside /\ InHand' = InHand
    BY <1>1, <1>2 DEF Holders, Holds, Inside, InHand
  <2> QED
    BY <1>1, <2>1, SameCount DEF IndInv
<1>4. StartInv'
  BY <1>1 DEF IndInv, StartInv
<1>5. CASE ~\E i \in Slots : Unalloced(i)
  <2>1. loop' = [pc |-> "dead", i |-> 0] /\ slot' = slot
    BY <1>5 DEF Scan
  <2>2. Shape' /\ OwnInv'
    BY <1>1, <2>1 DEF IndInv, Shape, OwnInv, LoopPcs
  <2> QED
    BY <1>3, <1>4, <2>2 DEF IndInv
<1>6. CASE \E i \in Slots : Unalloced(i)
  <2> DEFINE i == CHOOSE x \in Slots : Unalloced(x) /\ \A y \in 1..(x - 1) : ~Unalloced(y)
             S == {x \in Slots : Unalloced(x)}
             new == [FreeSlot EXCEPT !.flag = slot[i].flag]
  <2>1. i \in Slots /\ Unalloced(i)
    <3>1. PICK x \in S : \A y \in 1..(x - 1) : y \notin S
      BY Zenon, <1>6, LowestSlot
    <3>2. \A y \in 1..(x - 1) : y \in Slots
      BY <3>1, AppConstants DEF Slots
    <3>3. \E z \in Slots : Unalloced(z) /\ \A y \in 1..(z - 1) : ~Unalloced(y)
      BY <3>1, <3>2
    <3> QED
      BY <3>3
  <2>2. slot' = [slot EXCEPT ![i] = new] /\ loop' = [pc |-> "accept", i |-> i]
    BY <1>6 DEF Scan
  <2> HIDE DEF i, S
  <2>3. new \in SlotRec /\ new.alloced = 0 /\ new.started = 0
    <3>1. slot[i].flag \in Flags \cup {NULL}
      BY <2>1, SlotFields DEF IndInv
    <3>2. FreeSlot \in SlotRec /\ FreeSlot.alloced = 0 /\ FreeSlot.started = 0
      BY DEF FreeSlot, SlotRec
    <3> QED
      BY <3>1, <3>2 DEF SlotRec
  <2> HIDE DEF new
  <2>4. Shape'
    BY <1>1, <2>1, <2>2, <2>3 DEF IndInv, Shape, LoopPcs
  <2>5. \A c \in Conns : thr[c].pc \in Serving => thr[c].i \in Slots /\ thr[c].i # i
    BY <2>1 DEF IndInv, OwnInv, Unalloced, Serving
  <2>6. slot'[i] = new /\ \A j \in Slots \ {i} : slot'[j] = slot[j]
    BY <2>1, <2>2 DEF IndInv, Shape
  <2>7. OwnInv'
    BY <1>1, <2>1, <2>2, <2>3, <2>5, <2>6 DEF IndInv, OwnInv
  <2> QED
    BY <1>3, <1>4, <2>4, <2>7 DEF IndInv
<1> QED
  BY <1>5, <1>6

(* Scan keeps the flags: it clears a slot that no thread serves, except for  *)
(* its flag.                                                                 *)
LEMMA ScanFlagInd ==
  ASSUME IndInv, FlagInv, Scan
  PROVE  FlagInv'
<1>1. UNCHANGED <<thr, client, mp, ev, view, rush>>
  BY DEF Scan
<1>2. slot \in [Slots -> SlotRec]
  BY DEF IndInv, Shape
<1>3. CASE ~\E i \in Slots : Unalloced(i)
  <2>1. slot' = slot
    BY <1>3 DEF Scan
  <2> QED
    BY <1>1, <2>1, LoopFlags
<1>4. CASE \E i \in Slots : Unalloced(i)
  <2> DEFINE i == CHOOSE x \in Slots : Unalloced(x) /\ \A y \in 1..(x - 1) : ~Unalloced(y)
             S == {x \in Slots : Unalloced(x)}
             new == [FreeSlot EXCEPT !.flag = slot[i].flag]
  <2>1. i \in Slots /\ Unalloced(i)
    <3>0. S \in SUBSET Slots /\ S # {}
      BY <1>4
    <3> HIDE DEF S
    <3>1. PICK x \in S : \A y \in 1..(x - 1) : y \notin S
      BY <3>0, LowestSlot
    <3> USE DEF S
    <3>2. \A y \in 1..(x - 1) : y \in Slots
      BY <3>1, AppConstants DEF Slots
    <3>3. \E z \in Slots : Unalloced(z) /\ \A y \in 1..(z - 1) : ~Unalloced(y)
      BY <3>1, <3>2
    <3> QED
      BY <3>3
  <2>2. slot' = [slot EXCEPT ![i] = new]
    BY <1>4 DEF Scan
  <2>3. new.flag = slot[i].flag
    BY DEF FreeSlot
  <2> HIDE DEF i, S, new
  <2>4. \A j \in Slots : slot'[j].flag = slot[j].flag /\ (j # i => slot'[j] = slot[j])
    BY <1>2, <2>1, <2>2, <2>3
  <2>5. \A c \in Conns : thr[c].pc \in Serving => thr[c].i \in Slots /\ thr[c].i # i
    BY <2>1, OwnSlots DEF Unalloced, FlagInv
  <2> QED
    BY <1>1, <2>4, <2>5, LoopFlags
<1> QED
  BY <1>3, <1>4

(* Every step keeps the flags. *)
LEMMA NextFlag == Distinct /\ IndInv /\ FlagInv /\ [Next]_vars => FlagInv'
<1> SUFFICES ASSUME Distinct, IndInv, FlagInv, [Next]_vars PROVE FlagInv'
  OBVIOUS
<1>1. CASE LoopStep
  BY <1>1, LoopFlagInd, ScanFlagInd DEF LoopStep
<1>2. ASSUME NEW c \in Conns, Accept(c) PROVE FlagInv'
  BY <1>2, AcceptFlagInd
<1>3. ASSUME NEW c \in Conns, Serve(c) PROVE FlagInv'
  <2>1. CASE ThreadStart(c)
    BY <2>1, ThreadStartFlagInd
  <2>2. CASE Hello(c) \/ HelloFails(c) \/ RecvFails(c)
    BY <2>2, ReceiveFlagInd
  <2>3. CASE AddFlag(c)
    BY Zenon, <2>3, ModReadFlagInd, ModWriteFlagInd, NotifyFlagInd DEF AddFlag
  <2>4. CASE CloseApp(c) \/ NotAlive(c) \/ PostAvail(c)
    BY <2>4, EndFlagInd
  <2>5. CASE RemoveFlag(c)
    BY Zenon, <2>5, ModReadFlagInd, ModWriteFlagInd, NotifyFlagInd DEF RemoveFlag
  <2> QED
    BY <1>3, <2>1, <2>2, <2>3, <2>4, <2>5 DEF Serve
<1>4. ASSUME NEW c \in Conns, Watch(c) \/ Connect(c) \/ Close(c) PROVE FlagInv'
  BY <1>4, WatchFlagInd, ConnectFlagInd, CloseFlagInd
<1>5. CASE UNCHANGED vars
  <2>1. UNCHANGED <<slot, thr, client, mp, ev, view, rush>>
    BY <1>5 DEF vars
  <2>2. FitInv'
    BY <2>1 DEF FlagInv, FitInv, Fits
  <2>3. WatchInv'
    BY <2>1 DEF FlagInv, WatchInv
  <2>4. MoveInv'
    BY <2>1 DEF FlagInv, MoveInv, Settled
  <2>5. Orderly' <=> Orderly
    BY <2>1 DEF Orderly, Ended
  <2>6. ApartInv'
    BY <2>1, <2>5 DEF FlagInv, ApartInv, Active
  <2>7. ViewInv'
    BY <2>1, <2>5 DEF FlagInv, ViewInv
  <2>8. \A c \in Conns : (Known(c)' <=> Known(c)) /\ (Flagged(c)' <=> Flagged(c))
    BY <2>1 DEF Known, Flagged
  <2>9. MpInv'
    BY <2>1, <2>8 DEF FlagInv, MpInv
  <2> QED
    BY <2>2, <2>3, <2>4, <2>6, <2>7, <2>9 DEF FlagInv
<1> QED
  BY <1>1, <1>2, <1>3, <1>4, <1>5 DEF Next
-----------------------------------------------------------------------------
(* The steps that change what the semaphores count. *)
INSTANCE FiniteSetTheorems

LEMMA Counts ==
  ASSUME IndInv
  PROVE  /\ avail \in Nat /\ lost \in Nat /\ dd_sem \in Nat /\ mp \in SUBSET Flags
         /\ IsFiniteSet(Holders) /\ Cardinality(Holders) \in Nat /\ InHand \in Nat
         /\ IsFiniteSet(Inside) /\ Cardinality(Inside) \in Nat
         /\ avail + lost + Cardinality(Holders) + InHand = FMD_MAX_APPS
         /\ dd_sem + Cardinality(Inside) = DdSem
<1>1. avail \in Nat /\ lost \in Nat /\ dd_sem \in Nat /\ mp \in SUBSET Flags
  BY Zenon DEF IndInv, Shape
<1>2. CountInv
  BY Zenon DEF IndInv
<1>3. Cardinality(Holders) \in Nat /\ Cardinality(Inside) \in Nat
  BY Zenon, <1>2, FS_CardinalityType DEF CountInv
<1>4. InHand \in Nat
  BY DEF InHand
<1> QED
  BY Zenon, <1>1, <1>2, <1>3, <1>4 DEF CountInv

(* One more thread holds a slot, or one less. *)
LEMMA JoinHolders ==
  ASSUME CountInv, NEW c \in Conns, ~Holds(c), Holders' = Holders \cup {c}
  PROVE  /\ IsFiniteSet(Holders') /\ Cardinality(Holders) \in Nat
         /\ Cardinality(Holders') = Cardinality(Holders) + 1
<1>1. c \notin Holders /\ IsFiniteSet(Holders)
  BY DEF Holders, CountInv
<1>2. /\ IsFiniteSet(Holders \cup {c})
      /\ Cardinality(Holders \cup {c})
           = IF c \in Holders THEN Cardinality(Holders) ELSE Cardinality(Holders) + 1
  BY <1>1, FS_AddElement
<1>3. Cardinality(Holders) \in Nat
  BY <1>1, FS_CardinalityType
<1> QED
  BY <1>1, <1>2, <1>3

LEMMA LeaveHolders ==
  ASSUME CountInv, NEW c \in Conns, Holds(c), Holders' = Holders \ {c}
  PROVE  /\ IsFiniteSet(Holders') /\ Cardinality(Holders) \in Nat
         /\ Cardinality(Holders') = Cardinality(Holders) - 1
<1>1. c \in Holders /\ IsFiniteSet(Holders)
  BY DEF Holders, CountInv
<1>2. /\ IsFiniteSet(Holders \ {c})
      /\ Cardinality(Holders \ {c})
           = IF c \in Holders THEN Cardinality(Holders) - 1 ELSE Cardinality(Holders)
  BY <1>1, FS_RemoveElement
<1>3. Cardinality(Holders) \in Nat
  BY <1>1, FS_CardinalityType
<1> QED
  BY <1>1, <1>2, <1>3

(* The semaphores count what is left after each of these steps. *)
LEMMA WaitAvailInd == IndInv /\ WaitAvail => IndInv'
<1> SUFFICES ASSUME IndInv, WaitAvail PROVE IndInv'
  OBVIOUS
<1>1. avail > 0 /\ avail' = avail - 1 /\ UNCHANGED <<lost, dd_sem>>
  BY DEF WaitAvail
<1>2. CountInv'
  BY <1>1, Counts, WaitAvailSets DEF CountInv
<1> QED
  BY Zenon, <1>2, WaitAvailSets DEF IndInv

LEMMA AcceptInd ==
  ASSUME IndInv, NEW c \in Conns, Accept(c)
  PROVE  IndInv'
<1>1. /\ Inside' = Inside /\ ~Holds(c) /\ InHand = 1 /\ InHand' = 0
      /\ UNCHANGED <<avail, dd_sem>>
      /\ \/ Holders' = Holders \cup {c} /\ lost' = lost
         \/ Holders' = Holders /\ lost' = lost + 1
  BY AcceptSets
<1>2. CASE Holders' = Holders \cup {c} /\ lost' = lost
  <2>1. /\ IsFiniteSet(Holders') /\ Cardinality(Holders') = Cardinality(Holders) + 1
    BY Zenon, <1>1, <1>2, JoinHolders DEF IndInv
  <2>2. CountInv'
    BY <1>1, <1>2, <2>1, Counts DEF CountInv
  <2> QED
    BY Zenon, <2>2, AcceptSets DEF IndInv
<1>3. CASE Holders' = Holders /\ lost' = lost + 1
  <2>1. CountInv'
    BY <1>1, <1>3, Counts DEF CountInv
  <2> QED
    BY Zenon, <2>1, AcceptSets DEF IndInv
<1> QED
  BY <1>1, <1>2, <1>3

LEMMA PostAvailInd ==
  ASSUME IndInv, NEW c \in Conns, PostAvail(c)
  PROVE  IndInv'
<1>1. /\ Holds(c) /\ Holders' = Holders \ {c} /\ Inside' = Inside /\ InHand' = InHand
      /\ avail' = avail + 1 /\ UNCHANGED <<lost, dd_sem>>
  BY PostAvailSets
<1>2. IsFiniteSet(Holders') /\ Cardinality(Holders') = Cardinality(Holders) - 1
  BY Zenon, <1>1, LeaveHolders DEF IndInv
<1>3. CountInv'
  BY <1>1, <1>2, Counts DEF CountInv
<1> QED
  BY Zenon, <1>3, PostAvailSets DEF IndInv

LEMMA ModReadInd ==
  ASSUME IndInv, NEW c \in Conns, NEW p, NEW q, ModRead(c, p, q),
         <<p, q>> \in {<<"add", "added">>, <<"remove", "removed">>}
  PROVE  IndInv'
<1>1. /\ Holders' = Holders /\ InHand' = InHand /\ c \notin Inside /\ Inside' = Inside \cup {c}
      /\ Shape' /\ OwnInv' /\ StartInv'
  BY ModReadSets
<1>2. dd_sem > 0 /\ dd_sem' = dd_sem - 1 /\ UNCHANGED <<avail, lost>>
  BY DEF ModRead
<1>3. /\ IsFiniteSet(Inside \cup {c})
      /\ Cardinality(Inside \cup {c})
           = IF c \in Inside THEN Cardinality(Inside) ELSE Cardinality(Inside) + 1
  BY Counts, FS_AddElement
<1>4. CountInv'
  BY <1>1, <1>2, <1>3, Counts DEF CountInv
<1> QED
  BY Zenon, <1>1, <1>4 DEF IndInv

LEMMA ModWriteInd ==
  ASSUME IndInv, NEW c \in Conns, NEW p, NEW q, NEW b, ModWrite(c, p, q, b),
         <<p, q>> \in {<<"added", "tell">>, <<"removed", "untell">>}
  PROVE  IndInv'
<1>1. /\ Holders' = Holders /\ InHand' = InHand /\ c \in Inside /\ Inside' = Inside \ {c}
      /\ Shape' /\ OwnInv' /\ StartInv'
  BY ModWriteSets
<1>2. dd_sem' = dd_sem + 1 /\ UNCHANGED <<avail, lost>>
  BY DEF ModWrite
<1>3. /\ IsFiniteSet(Inside \ {c})
      /\ Cardinality(Inside \ {c})
           = IF c \in Inside THEN Cardinality(Inside) - 1 ELSE Cardinality(Inside)
  BY Counts, FS_RemoveElement
<1>4. CountInv'
  BY <1>1, <1>2, <1>3, Counts DEF CountInv
<1> QED
  BY Zenon, <1>1, <1>4 DEF IndInv
-----------------------------------------------------------------------------
LEMMA InitInd == Init => IndInv
<1> SUFFICES ASSUME Init PROVE IndInv
  OBVIOUS
<1>1. avail = FMD_MAX_APPS /\ lost = 0 /\ dd_sem = DdSem
  BY DEF Init
<1>2. CountInv
  BY <1>1, InitSets, FS_EmptySet, AppConstants DEF CountInv
<1> QED
  BY Zenon, <1>2, InitSets DEF IndInv

LEMMA NextInd == IndInv /\ [Next]_vars => IndInv'
<1> SUFFICES ASSUME IndInv, [Next]_vars PROVE IndInv'
  OBVIOUS
<1>1. CASE LoopStep
  BY <1>1, WaitAvailInd, ScanInd, StartedInd DEF LoopStep
<1>2. ASSUME NEW c \in Conns, Accept(c) PROVE IndInv'
  BY <1>2, AcceptInd
<1>3. ASSUME NEW c \in Conns, Serve(c) PROVE IndInv'
  <2>1. CASE ThreadStart(c)
    BY <2>1, ThreadStartInd
  <2>2. CASE Hello(c) \/ HelloFails(c) \/ RecvFails(c)
    BY <2>2, ReceiveInd
  <2>3. CASE AddFlag(c)
    BY Zenon, <2>3, ModReadInd, ModWriteInd, NotifyInd DEF AddFlag
  <2>4. CASE CloseApp(c) \/ NotAlive(c)
    BY <2>4, CloseInd
  <2>5. CASE PostAvail(c)
    BY <2>5, PostAvailInd
  <2>6. CASE RemoveFlag(c)
    BY Zenon, <2>6, ModReadInd, ModWriteInd, NotifyInd DEF RemoveFlag
  <2> QED
    BY <1>3, <2>1, <2>2, <2>3, <2>4, <2>5, <2>6 DEF Serve
<1>4. ASSUME NEW c \in Conns, Watch(c) \/ Connect(c) \/ Close(c) PROVE IndInv'
  BY <1>4, WatchInd
<1>5. CASE UNCHANGED vars
  BY <1>5, SameInd
<1> QED
  BY <1>1, <1>2, <1>3, <1>4, <1>5 DEF Next

(* The slots and the threads stay of their types, apps_avail within the      *)
(* number of slots, and dd_mtx->sem within its initial value: no sem_post of *)
(* fmd_app.c is one too many.                                                *)
THEOREM AppTypes == Spec => []TypeOK
<1>1. IndInv => TypeOK
  <2> SUFFICES ASSUME IndInv PROVE TypeOK
    OBVIOUS
  <2>1. /\ avail \in Nat /\ lost \in Nat /\ dd_sem \in Nat
        /\ avail + lost + Cardinality(Holders) + InHand = FMD_MAX_APPS
        /\ dd_sem + Cardinality(Inside) = DdSem
        /\ Cardinality(Holders) \in Nat /\ Cardinality(Inside) \in Nat
    BY Counts
  <2>2. InHand \in Nat
    BY DEF InHand
  <2>3. avail \in 0..FMD_MAX_APPS
    BY <2>1, <2>2, AppConstants
  <2>4. dd_sem \in 0..DdSem
    BY <2>1, AppConstants
  <2>5. \A i \in Slots : /\ slot[i].alloced \in 0..2 /\ slot[i].alive \in BOOLEAN
                         /\ slot[i].flag \in Flags \cup {NULL} /\ slot[i].started \in 0..1
    BY SlotFields DEF IndInv
  <2>6. \A c \in Conns : thr[c].i \in Slots \cup {0} /\ (thr[c].pc # "none" => thr[c].i \in Slots)
    BY ThrFields DEF IndInv, OwnInv
  <2>7. mp \subseteq Flags /\ view \in [Conns -> SUBSET Flags]
    BY DEF IndInv, Shape
  <2> QED
    BY <2>3, <2>4, <2>5, <2>6, <2>7 DEF TypeOK
<1> QED
  BY <1>1, InitInd, NextInd, PTL DEF Spec

(* A thread that serves an application has its slot to itself, and apps_avail *)
(* counts exactly the slots that are left, although app_conn_loop and the     *)
(* app_loop threads write alloced without a lock.                             *)
THEOREM AppSlots == Spec => []SlotsExact
<1>1. IndInv => SlotsExact
  BY DEF IndInv, OwnInv, CountInv, SlotsExact, Holders, InHand
<1> QED
  BY <1>1, InitInd, NextInd, PTL DEF Spec

(* When no thread has work left, the directory has the flags of exactly the  *)
(* applications that are connected if they came one by one, and every one of *)
(* them knows what the directory has if they came one by one or none has     *)
(* ended: mod_dd_mp_flag and fmd_dd_incr_chg_idx lose no flag and forget no  *)
(* application.  No two applications may have the same flag.                 *)
THEOREM AppFlags == Distinct => (Spec => []FlagsRight)
<1> SUFFICES ASSUME Distinct PROVE Spec => []FlagsRight
  OBVIOUS
<1>1. IndInv /\ FlagInv => FlagsRight
  <2> SUFFICES ASSUME FlagInv, Quiet PROVE FlagsRight
    BY DEF FlagsRight
  <2> USE DEF FlagInv
  <2>1. \A c \in Conns : /\ Flagged(c) <=> client[c] = "wait"
                         /\ thr[c].pc \notin {"tell", "untell"}
                         /\ client[c] = "wait" => ~ev[thr[c].i].posted
    BY DEF Quiet, FitInv, Fits, Closing, Flagged, Known
  <2>2. ~rush => mp = {FlagOf[c] : c \in {x \in Conns : client[x] = "wait"}}
    BY <2>1 DEF MpInv
  <2>3. ~(rush /\ Ended) => \A c \in Conns : client[c] = "wait" => view[c] = mp
    BY <2>1 DEF ViewInv, Orderly
  <2> QED
    BY <2>2, <2>3 DEF FlagsRight
<1>2. Init => IndInv /\ FlagInv
  BY InitInd, InitFlag
<1>3. IndInv /\ FlagInv /\ [Next]_vars => (IndInv /\ FlagInv)'
  BY NextInd, NextFlag
<1> QED
  BY <1>1, <1>2, <1>3, PTL DEF Spec
=============================================================================
