--------------------------- MODULE FmdPeers_proofs --------------------------
(***************************************************************************)
(* Theorems about module FmdPeers, for any set of slaves, any number of    *)
(* sessions and of changes, in any environment.                            *)
(*                                                                         *)
(* That the master's directory is its list of peers needs to know which    *)
(* device a session's thread deletes: the one that its hello added.  It    *)
(* holds as long as the directory has an entry to spare; in a full one     *)
(* del_device_from_dd keeps num_devs and doubles the last entry.           *)
(***************************************************************************)
EXTENDS FmdPeers, FiniteSetTheorems, TLAPS

(* All devices together leave an entry of the directory free. *)
Room == IsFiniteSet(Slaves) /\ Cardinality(Slaves) + 1 < FMD_MAX_DEVS

(* A directory: a sequence of devices, none of them twice. *)
Dir(q) ==
  /\ \E E : q \in Seq(E)
  /\ \A i \in DOMAIN q : q[i].dev \in Devs
  /\ \A i, j \in DOMAIN q : q[i].dev = q[j].dev => i = j

(* The threads are records, of which only pc and id matter here. *)
Shape ==
  /\ DOMAIN th = Threads /\ \A t \in Threads : {"pc", "id"} \subseteq DOMAIN th[t]
  /\ ses \in [Slaves -> Nat]

(* What a session's thread knows: a session that did not start has none, and *)
(* one that is listed, or is about to be, has said who it is.                *)
SesInv ==
  /\ \A k \in Sessions : k[2] > ses[k[1]] => th[k].pc = "none"
  /\ \A k \in Sessions : k \in peers \/ th[k].pc \in {"list", "dd"} => th[k].id = k[1]
  /\ \A k \in Sessions : th[k].pc = "dd" => k \in peers

(* The session of a device that is listed. *)
Vouches(k, d) == k[1] = d /\ (k \in peers \/ (th[k].pc = "del" /\ th[k].id = d))
ListInv == \A d \in DevSet(dd) \ {Master} : \E k \in Sessions : Vouches(k, d)

IndInv == Shape /\ Dir(dd) /\ SesInv /\ ListInv

-----------------------------------------------------------------------------
(* A directory with room has an entry left, however many devices it lists. *)
LEMMA RoomLen ==
  ASSUME Room, NEW q, Dir(q)
  PROVE  Len(q) \in Nat /\ DOMAIN q = 1..Len(q) /\ Len(q) < FMD_MAX_DEVS
<1>1. Len(q) \in Nat /\ DOMAIN q = 1..Len(q)
  BY DEF Dir
<1> DEFINE f == [i \in 1..Len(q) |-> q[i].dev]
<1>2. f \in Injection(1..Len(q), Devs)
  BY <1>1 DEF Dir, Injection, IsInjective
<1>3. Master \notin Slaves /\ FMD_MAX_DEVS \in Nat
  BY PeerConstants
<1>4. IsFiniteSet(Devs) /\ Cardinality(Devs) = Cardinality(Slaves) + 1
  BY <1>3, FS_AddElement DEF Room, Devs
<1>5. Cardinality(1..Len(q)) <= Cardinality(Devs)
  BY <1>2, <1>4, FS_Injection
<1>6. Cardinality(1..Len(q)) = Len(q)
  <2>1. Cardinality(1..Len(q)) = IF 1 > Len(q) THEN 0 ELSE Len(q) - 1 + 1
    BY <1>1, FS_Interval
  <2> QED
    BY <1>1, <2>1
<1>7. Cardinality(Slaves) \in Nat
  BY FS_CardinalityType DEF Room
<1> QED
  BY <1>1, <1>3, <1>4, <1>5, <1>6, <1>7 DEF Room

(* A change of flags keeps the devices. *)
LEMMA SameDevs ==
  ASSUME NEW q, Dir(q), NEW r, NEW E, r \in Seq(E), DOMAIN r = DOMAIN q,
         \A i \in DOMAIN q : r[i].dev = q[i].dev
  PROVE  Dir(r) /\ DevSet(r) = DevSet(q)
<1>1. DevSet(r) = DevSet(q)
  BY DEF DevSet
<1>2. Dir(r)
  BY DEF Dir
<1> QED
  BY <1>1, <1>2

LEMMA DevFields == \A d, f : Dev(d, f).dev = d
  BY DEF Dev

(* add_device_to_dd adds at most the device, at most once. *)
LEMMA AddDir ==
  ASSUME NEW q, Dir(q), NEW d \in Devs, NEW f
  PROVE  Dir(AddDevice(q, d, f)) /\ DevSet(AddDevice(q, d, f)) \subseteq DevSet(q) \cup {d}
<1>1. PICK E : q \in Seq(E)
  BY DEF Dir
<1>2. CASE d \in DevSet(q)
  <2> DEFINE r == [i \in DOMAIN q |-> IF q[i].dev = d /\ f > q[i].flag THEN Dev(d, f) ELSE q[i]]
  <2>1. r \in Seq(E \cup {Dev(d, f)})
    BY <1>1
  <2>2. DOMAIN r = DOMAIN q /\ \A i \in DOMAIN q : r[i].dev = q[i].dev
    BY DevFields
  <2> HIDE DEF r
  <2>3. Dir(r) /\ DevSet(r) = DevSet(q)
    BY <2>1, <2>2, SameDevs
  <2> QED
    BY <1>2, <2>3 DEF AddDevice, r
<1>3. CASE d \notin DevSet(q) /\ Len(q) >= FMD_MAX_DEVS
  BY <1>3 DEF AddDevice
<1>4. CASE d \notin DevSet(q) /\ ~(Len(q) >= FMD_MAX_DEVS)
  <2> DEFINE e == Dev(d, f)
             r == Append(q, e)
             n == Len(q)
  <2>1. e.dev = d
    BY DevFields
  <2>2. AddDevice(q, d, f) = r
    BY <1>4 DEF AddDevice
  <2> HIDE DEF e
  <2>3. /\ n \in Nat /\ DOMAIN q = 1..n /\ r \in Seq(E \cup {e})
        /\ DOMAIN r = 1..(n + 1) /\ r[n + 1] = e
        /\ \A i \in 1..n : r[i] = q[i]
    BY <1>1
  <2> HIDE DEF r, n
  <2>4. \A i \in 1..n : q[i].dev # d
    BY <1>4, <2>3 DEF DevSet
  <2>5. \A i \in 1..(n + 1) : i \in 1..n \/ i = n + 1
    BY <2>3
  <2>6. Dir(r)
    BY <2>1, <2>3, <2>4, <2>5 DEF Dir
  <2>7. DevSet(r) \subseteq DevSet(q) \cup {d}
    BY <2>1, <2>3, <2>5 DEF DevSet
  <2> QED
    BY <2>2, <2>6, <2>7
<1> QED
  BY <1>2, <1>3, <1>4

(* The first entry of a device that is listed. *)
LEMMA IndexOfDev ==
  ASSUME NEW q, Dir(q), NEW d \in DevSet(q)
  PROVE  IndexOf(q, d) \in DOMAIN q /\ q[IndexOf(q, d)].dev = d
<1>1. PICK i \in DOMAIN q : q[i].dev = d
  BY DEF DevSet
<1>2. \A j \in 1..(i - 1) : j \in DOMAIN q /\ j # i
  BY DEF Dir
<1>3. \A j \in 1..(i - 1) : q[j].dev # d
  BY <1>1, <1>2 DEF Dir
<1> QED
  BY <1>1, <1>3 DEF IndexOf

LEMMA SetDir ==
  ASSUME NEW q, Dir(q), NEW d, NEW f
  PROVE  Dir(SetFlag(q, d, f)) /\ DevSet(SetFlag(q, d, f)) = DevSet(q)
<1>1. PICK E : q \in Seq(E)
  BY DEF Dir
<1>2. CASE d \notin DevSet(q)
  BY <1>2 DEF SetFlag
<1>3. CASE d \in DevSet(q)
  <2> DEFINE x == IndexOf(q, d)
             e == Dev(d, f)
             r == [q EXCEPT ![x] = e]
  <2>1. x \in DOMAIN q /\ q[x].dev = d
    BY <1>3, IndexOfDev
  <2>2. e.dev = d
    BY DevFields
  <2> HIDE DEF x, e
  <2>3. r \in Seq(E \cup {e})
    BY <1>1, <2>1
  <2>4. DOMAIN r = DOMAIN q /\ \A i \in DOMAIN q : r[i].dev = q[i].dev
    BY <2>1, <2>2
  <2> HIDE DEF r
  <2>5. Dir(r) /\ DevSet(r) = DevSet(q)
    BY <2>3, <2>4, SameDevs
  <2> QED
    BY <1>3, <2>5 DEF SetFlag, r, x, e
<1> QED
  BY <1>2, <1>3

LEMMA ToggleDir ==
  ASSUME NEW q, Dir(q), NEW d
  PROVE  Dir(Toggle(q, d)) /\ DevSet(Toggle(q, d)) = DevSet(q)
<1>1. PICK E : q \in Seq(E)
  BY DEF Dir
<1>2. CASE ~(q # <<>> /\ q[1].dev = d)
  BY <1>2 DEF Toggle
<1>3. CASE q # <<>> /\ q[1].dev = d
  <2> DEFINE e == Dev(d, 1 - q[1].flag)
             r == [q EXCEPT ![1] = e]
  <2>1. 1 \in DOMAIN q
    BY <1>1, <1>3
  <2>2. e.dev = d
    BY DevFields
  <2>3. Toggle(q, d) = r
    BY <1>3, <2>1 DEF Toggle
  <2> HIDE DEF e
  <2>4. r \in Seq(E \cup {e})
    BY <1>1, <2>1
  <2>5. DOMAIN r = DOMAIN q /\ \A i \in DOMAIN q : r[i].dev = q[i].dev
    BY <1>3, <2>1, <2>2
  <2> HIDE DEF r
  <2>6. Dir(r) /\ DevSet(r) = DevSet(q)
    BY <2>4, <2>5, SameDevs
  <2> QED
    BY <2>3, <2>6
<1> QED
  BY <1>2, <1>3

(* del_device_from_dd takes the device out, and nothing else, as long as     *)
(* there is room.                                                            *)
LEMMA DelDir ==
  ASSUME Room, NEW q, Dir(q), NEW d
  PROVE  Dir(DelDevice(q, d)) /\ DevSet(DelDevice(q, d)) = DevSet(q) \ {d}
<1>1. PICK E : q \in Seq(E)
  BY DEF Dir
<1>2. CASE d \notin DevSet(q)
  BY <1>2 DEF DelDevice
<1>3. CASE d \in DevSet(q)
  <2> DEFINE n == Len(q)
             x == IndexOf(q, d)
             r == [i \in 1..(n - 1) |-> IF i < x THEN q[i] ELSE q[i + 1]]
  <2>1. n \in Nat /\ DOMAIN q = 1..n /\ n < FMD_MAX_DEVS
    BY RoomLen
  <2>2. x \in 1..n /\ q[x].dev = d
    BY <1>3, <2>1, IndexOfDev
  <2>3. DelDevice(q, d) = r
    BY <1>3, <2>1 DEF DelDevice
  <2>4. \A i \in 1..n : q[i] \in E
    BY <1>1, <2>1
  <2> HIDE DEF x, n
  <2>5. \A i \in 1..(n - 1) : i \in 1..n /\ i + 1 \in 1..n
    BY <2>1
  <2>6. n - 1 \in Nat
    BY <2>1, <2>2
  <2>7. r \in Seq(E)
    BY <2>4, <2>5, <2>6
  <2>8. DOMAIN r = 1..(n - 1)
    OBVIOUS
  <2>9. \A i \in 1..(n - 1) : r[i] = IF i < x THEN q[i] ELSE q[i + 1]
    OBVIOUS
  <2> HIDE DEF r
  <2>10. \A i \in 1..(n - 1) : r[i].dev \in Devs
    BY <2>1, <2>5, <2>9 DEF Dir
  <2>11. ASSUME NEW i \in 1..(n - 1), NEW j \in 1..(n - 1), r[i].dev = r[j].dev
         PROVE  i = j
    <3> DEFINE from(m) == IF m < x THEN m ELSE m + 1
    <3>1. from(i) \in 1..n /\ from(j) \in 1..n /\ r[i] = q[from(i)] /\ r[j] = q[from(j)]
      BY <2>5, <2>9
    <3>2. from(i) = from(j)
      BY <2>1, <2>11, <3>1 DEF Dir
    <3> QED
      BY <2>1, <2>2, <3>2
  <2>12. Dir(r)
    BY <2>7, <2>8, <2>10, <2>11 DEF Dir
  <2>13. DevSet(r) = DevSet(q) \ {d}
    <3>1. ASSUME NEW i \in 1..(n - 1) PROVE r[i].dev \in DevSet(q) \ {d}
      <4> DEFINE m == IF i < x THEN i ELSE i + 1
      <4>1. m \in 1..n /\ m # x /\ r[i] = q[m]
        BY <2>2, <2>5, <2>9
      <4> HIDE DEF m
      <4> QED
        BY <2>1, <2>2, <4>1 DEF Dir, DevSet
    <3>2. ASSUME NEW m \in 1..n, q[m].dev # d PROVE \E i \in 1..(n - 1) : r[i] = q[m]
      <4>1. m # x
        BY <2>2, <3>2
      <4>2. CASE m < x
        BY <2>1, <2>2, <2>9, <4>2
      <4>3. CASE m > x
        <5>1. m - 1 \in 1..(n - 1) /\ ~(m - 1 < x) /\ (m - 1) + 1 = m
          BY <2>1, <2>2, <4>3
        <5> QED
          BY <2>9, <5>1
      <4> QED
        BY <2>1, <2>2, <4>1, <4>2, <4>3
    <3>3. DevSet(r) \subseteq DevSet(q) \ {d}
      BY <2>8, <3>1 DEF DevSet
    <3>4. DevSet(q) \ {d} \subseteq DevSet(r)
      BY <2>1, <2>8, <3>2 DEF DevSet
    <3> QED
      BY <3>3, <3>4
  <2> QED
    BY <2>3, <2>12, <2>13
<1> QED
  BY <1>2, <1>3
-----------------------------------------------------------------------------
(* A step of one thread. *)
LEMMA ThSet ==
  ASSUME Shape, NEW t \in Threads, NEW r, {"pc", "id"} \subseteq DOMAIN r,
         th' = [th EXCEPT ![t] = r], UNCHANGED ses
  PROVE  Shape' /\ th'[t] = r /\ \A u \in Threads \ {t} : th'[u] = th[u]
  BY DEF Shape

(* What the step writes, by the fields that it sets. *)
LEMMA ThFields ==
  ASSUME NEW r, {"pc", "id"} \subseteq DOMAIN r, NEW p
  PROVE  /\ LET e == [r EXCEPT !.pc = p] IN
            DOMAIN e = DOMAIN r /\ e.pc = p /\ e.id = r.id
         /\ LET e == [r EXCEPT !.id = p] IN
            DOMAIN e = DOMAIN r /\ e.pc = r.pc /\ e.id = p
         /\ LET e == [r EXCEPT !.add = p] IN
            DOMAIN e = DOMAIN r /\ e.pc = r.pc /\ e.id = r.id
         /\ LET e == [r EXCEPT !.devs = p] IN
            DOMAIN e = DOMAIN r /\ e.pc = r.pc /\ e.id = r.id
         /\ LET e == [r EXCEPT !.work = p] IN
            DOMAIN e = DOMAIN r /\ e.pc = r.pc /\ e.id = r.id
         /\ LET e == [r EXCEPT !.tgt = p] IN
            DOMAIN e = DOMAIN r /\ e.pc = r.pc /\ e.id = r.id
         /\ LET e == [r EXCEPT !.todo = p] IN
            DOMAIN e = DOMAIN r /\ e.pc = r.pc /\ e.id = r.id
  OBVIOUS
(* The places of a session's thread that the invariant speaks of. *)
Marked == {"none", "list", "dd", "del"}

(* A step of thread t between other places. *)
Aside(t) ==
  /\ Shape' /\ th'[t].id = th[t].id /\ th[t].pc \notin Marked /\ th'[t].pc \notin Marked
  /\ \A u \in Threads \ {t} : th'[u] = th[u]

(* Such a step keeps the invariant if it adds no device. *)
LEMMA AsideInd ==
  ASSUME IndInv, NEW t \in Threads, Aside(t), UNCHANGED <<peers, ses>>,
         Dir(dd'), DevSet(dd') \subseteq DevSet(dd)
  PROVE  IndInv'
<1>1. \A k \in Sessions : /\ th'[k].id = th[k].id
                          /\ \A p \in Marked : th'[k].pc = p <=> th[k].pc = p
  BY DEF Aside, Threads
<1>2. \A k \in Sessions : /\ th'[k].pc = "none" <=> th[k].pc = "none"
                          /\ th'[k].pc = "list" <=> th[k].pc = "list"
                          /\ th'[k].pc = "dd" <=> th[k].pc = "dd"
                          /\ th'[k].pc = "del" <=> th[k].pc = "del"
  BY <1>1 DEF Marked
<1>3. SesInv'
  BY <1>1, <1>2 DEF IndInv, SesInv
<1>4. \A k \in Sessions : \A d : Vouches(k, d) => Vouches(k, d)'
  BY <1>1, <1>2 DEF Vouches
<1>5. ListInv'
  BY <1>4 DEF IndInv, ListInv
<1> QED
  BY <1>3, <1>5 DEF IndInv, Aside

(* update_all_peer_dd_and_flags. *)
LEMMA UpdateAllAside ==
  ASSUME Shape, NEW t \in Threads, UpdateAll(t)
  PROVE  Aside(t) /\ UNCHANGED <<dd, peers, ses>>
<1>1. {"pc", "id"} \subseteq DOMAIN th[t]
  BY DEF Shape
<1>2. UNCHANGED <<dd, peers, ses>>
  BY DEF UpdateAll, Copy, Find, SendTx, LockTx, LookupSend, svars
<1>3. th[t].pc \in {"copy", "find", "lock", "lookup"}
  BY DEF UpdateAll, Copy, Find, SendTx, LockTx, LookupSend, At
<1>4. PICK r : /\ th' = [th EXCEPT ![t] = r] /\ {"pc", "id"} \subseteq DOMAIN r
               /\ r.id = th[t].id /\ r.pc \in {"find", "lock", "lookup", "idle", "rx"}
  <2>1. CASE Copy(t)
    <3> DEFINE r == [[[th[t] EXCEPT !.pc = "find"] EXCEPT !.devs = dd] EXCEPT !.work = Work(dd)]
    <3>1. th' = [th EXCEPT ![t] = r]
      BY Zenon, <2>1 DEF Copy, Shape
    <3>2. {"pc", "id"} \subseteq DOMAIN r /\ r.id = th[t].id /\ r.pc = "find"
      BY <1>1, ThFields
    <3> HIDE DEF r
    <3> QED
      BY Zenon, <3>1, <3>2
  <2>2. CASE Find(t) /\ th[t].work = {}
    <3> DEFINE r == [[th[t] EXCEPT !.pc = Home(t)] EXCEPT !.devs = <<>>]
    <3>1. th' = [th EXCEPT ![t] = r] /\ Home(t) \in {"idle", "rx"}
      BY Zenon, <2>2 DEF Find, Shape, Home
    <3>2. {"pc", "id"} \subseteq DOMAIN r /\ r.id = th[t].id /\ r.pc = Home(t)
      BY <1>1, ThFields
    <3> HIDE DEF r
    <3> QED
      BY Zenon, <3>1, <3>2
  <2>3. CASE Find(t) /\ th[t].work # {}
    <3> DEFINE k == LFind(Tgt(t))
               r1 == [th[t] EXCEPT !.work = @ \ {Place(t)}]
               r2 == [[th[t] EXCEPT !.pc = "lock"] EXCEPT !.tgt = k]
    <3>1. th' = [th EXCEPT ![t] = r1] \/ th' = [th EXCEPT ![t] = r2]
      BY Zenon, <2>3 DEF Find, Shape
    <3>2. {"pc", "id"} \subseteq DOMAIN r1 /\ r1.id = th[t].id /\ r1.pc = "find"
      BY <1>1, <2>3, ThFields DEF Find, At
    <3>3. {"pc", "id"} \subseteq DOMAIN r2 /\ r2.id = th[t].id /\ r2.pc = "lock"
      BY <1>1, ThFields
    <3> QED
      BY Zenon, <3>1, <3>2, <3>3
  <2>4. CASE SendTx(t) \/ LookupSend(t)
    <3> DEFINE r == [[[th[t] EXCEPT !.pc = "find"] EXCEPT !.work = @ \ {Place(t)}] EXCEPT !.tgt = NULL]
    <3>1. th' = [th EXCEPT ![t] = r]
      <4>1. th' = [th EXCEPT ![t].pc = "find", ![t].work = @ \ {Place(t)}, ![t].tgt = NULL]
        BY <2>4 DEF SendTx, LookupSend, Done
      <4> QED
        BY Zenon, <4>1 DEF Shape
    <3>2. {"pc", "id"} \subseteq DOMAIN r /\ r.id = th[t].id /\ r.pc = "find"
      BY <1>1
    <3> QED
      BY Zenon, <3>1, <3>2
  <2>5. CASE LockTx(t)
    <3> DEFINE r == [th[t] EXCEPT !.pc = "lookup"]
    <3>1. th' = [th EXCEPT ![t] = r]
      BY <2>5 DEF LockTx, Goto, Shape
    <3>2. {"pc", "id"} \subseteq DOMAIN r /\ r.id = th[t].id /\ r.pc = "lookup"
      BY <1>1, ThFields
    <3> HIDE DEF r
    <3> QED
      BY Zenon, <3>1, <3>2
  <2> QED
    BY <2>1, <2>2, <2>3, <2>4, <2>5 DEF UpdateAll
<1>5. Shape' /\ th'[t] = r /\ \A u \in Threads \ {t} : th'[u] = th[u]
  BY Zenon, <1>2, <1>4, ThSet
<1> QED
  BY <1>2, <1>3, <1>4, <1>5 DEF Aside, Marked

(* The steps of a session's thread between its hello and its end. *)
LEMMA SessionAside ==
  ASSUME Shape, NEW k \in Sessions,
         RxFset(k) \/ RxFails(k) \/ RemovalLock(k) \/ RemovalSend(k) \/ RemovalEnd(k) \/ Free(k)
  PROVE  (Aside(k) \/ UNCHANGED th) /\ UNCHANGED <<peers, ses>>
<1>1. k \in Threads /\ {"pc", "id"} \subseteq DOMAIN th[k]
  BY DEF Shape, Threads
<1>2. UNCHANGED <<peers, ses>>
  BY DEF RxFset, RxFails, RemovalLock, RemovalSend, RemovalEnd, Free, svars
<1>3. th[k].pc \in {"rx", "removal", "dels", "free"}
  BY DEF RxFset, Receive, RxFails, RemovalLock, RemovalSend, RemovalEnd, Free, At
<1>4. ASSUME th' # th
      PROVE  \E r : /\ th' = [th EXCEPT ![k] = r] /\ {"pc", "id"} \subseteq DOMAIN r
                    /\ r.id = th[k].id /\ r.pc \in {"copy", "clean", "dels", "free", "dead"}
  <2>1. CASE RxFset(k)
    <3> DEFINE r == [[th[k] EXCEPT !.pc = "copy"] EXCEPT !.add = FALSE]
    <3>1. th' = [th EXCEPT ![k] = r]
      BY Zenon, <1>1, <1>4, <2>1 DEF RxFset, Shape
    <3>2. {"pc", "id"} \subseteq DOMAIN r /\ r.id = th[k].id /\ r.pc = "copy"
      BY <1>1, ThFields
    <3> HIDE DEF r
    <3> QED
      BY Zenon, <3>1, <3>2
  <2>2. CASE RxFails(k)
    <3> DEFINE r == [th[k] EXCEPT !.pc = "clean"]
    <3>1. th' = [th EXCEPT ![k] = r]
      BY <1>1, <2>2 DEF RxFails, Goto, Shape
    <3>2. {"pc", "id"} \subseteq DOMAIN r /\ r.id = th[k].id /\ r.pc = "clean"
      BY <1>1, ThFields
    <3> HIDE DEF r
    <3> QED
      BY Zenon, <3>1, <3>2
  <2>3. CASE RemovalLock(k)
    <3> DEFINE r == [[th[k] EXCEPT !.pc = "dels"] EXCEPT !.todo = peers]
    <3>1. th' = [th EXCEPT ![k] = r]
      BY Zenon, <1>1, <2>3 DEF RemovalLock, Shape
    <3>2. {"pc", "id"} \subseteq DOMAIN r /\ r.id = th[k].id /\ r.pc = "dels"
      BY <1>1, ThFields
    <3> HIDE DEF r
    <3> QED
      BY Zenon, <3>1, <3>2
  <2>4. CASE RemovalSend(k)
    <3>1. PICK l : th' = [th EXCEPT ![k].todo = @ \ {l}]
      BY Zenon, <2>4 DEF RemovalSend
    <3> DEFINE r == [th[k] EXCEPT !.todo = @ \ {l}]
    <3>2. th' = [th EXCEPT ![k] = r]
      BY <1>1, <3>1 DEF Shape
    <3>3. {"pc", "id"} \subseteq DOMAIN r /\ r.id = th[k].id /\ r.pc = "dels"
      BY <1>1, <2>4, ThFields DEF RemovalSend, At
    <3> QED
      BY Zenon, <3>2, <3>3
  <2>5. CASE RemovalEnd(k)
    <3> DEFINE r == [th[k] EXCEPT !.pc = "free"]
    <3>1. th' = [th EXCEPT ![k] = r]
      BY <1>1, <2>5 DEF RemovalEnd, Goto, Shape
    <3>2. {"pc", "id"} \subseteq DOMAIN r /\ r.id = th[k].id /\ r.pc = "free"
      BY <1>1, ThFields
    <3> HIDE DEF r
    <3> QED
      BY Zenon, <3>1, <3>2
  <2>6. CASE Free(k)
    <3> DEFINE r == [th[k] EXCEPT !.pc = "dead"]
    <3>1. th' = [th EXCEPT ![k] = r]
      BY <1>1, <2>6 DEF Free, Goto, Shape
    <3>2. {"pc", "id"} \subseteq DOMAIN r /\ r.id = th[k].id /\ r.pc = "dead"
      BY <1>1, ThFields
    <3> HIDE DEF r
    <3> QED
      BY Zenon, <3>1, <3>2
  <2> QED
    BY <2>1, <2>2, <2>3, <2>4, <2>5, <2>6
<1>5. CASE th' # th
  <2>1. PICK r : /\ th' = [th EXCEPT ![k] = r] /\ {"pc", "id"} \subseteq DOMAIN r
                 /\ r.id = th[k].id /\ r.pc \in {"copy", "clean", "dels", "free", "dead"}
    BY <1>4, <1>5
  <2>2. Shape' /\ th'[k] = r /\ \A u \in Threads \ {k} : th'[u] = th[u]
    BY Zenon, <1>1, <1>2, <2>1, ThSet
  <2> QED
    BY <1>2, <1>3, <2>1, <2>2 DEF Aside, Marked
<1> QED
  BY <1>2, <1>5
-----------------------------------------------------------------------------
(* A step of session k's thread that changes nothing for the other sessions. *)
LEMMA OneSession ==
  ASSUME Shape, NEW k \in Sessions, \A u \in Threads \ {k} : th'[u] = th[u]
  PROVE  \A l \in Sessions \ {k} : th'[l] = th[l]
  BY DEF Threads

(* The hello of a slave is kept with the session. *)
LEMMA RxHelloInd ==
  ASSUME IndInv, NEW k \in Sessions, RxHello(k)
  PROVE  IndInv'
<1>1. k \in Threads /\ {"pc", "id"} \subseteq DOMAIN th[k] /\ Shape
  BY DEF IndInv, Shape, Threads
<1>2. th[k].pc = "rx" /\ UNCHANGED <<dd, peers, ses>>
  BY DEF RxHello, Receive, At, svars
<1>3. PICK p \in {"rx", "list", "clean"} : th' = [th EXCEPT ![k].pc = p, ![k].id = k[1]]
  BY Zenon DEF RxHello
<1> DEFINE r == [[th[k] EXCEPT !.pc = p] EXCEPT !.id = k[1]]
<1>4. th' = [th EXCEPT ![k] = r]
  BY Zenon, <1>1, <1>3 DEF Shape
<1>5. {"pc", "id"} \subseteq DOMAIN r /\ r.id = k[1] /\ r.pc = p
  BY <1>1
<1> HIDE DEF r
<1>6. Shape' /\ th'[k] = r /\ \A u \in Threads \ {k} : th'[u] = th[u]
  BY Zenon, <1>1, <1>2, <1>4, <1>5, ThSet
<1>7. \A l \in Sessions \ {k} : th'[l] = th[l]
  BY <1>1, <1>6, OneSession
<1>8. ~(k[2] > ses[k[1]])
  BY <1>2 DEF IndInv, SesInv
<1>9. SesInv'
  BY <1>2, <1>5, <1>6, <1>7, <1>8 DEF IndInv, SesInv
<1>10. \A l \in Sessions : \A d : Vouches(l, d) => Vouches(l, d)'
  BY <1>2, <1>7 DEF Vouches
<1>11. ListInv'
  BY <1>2, <1>10 DEF IndInv, ListInv
<1> QED
  BY <1>2, <1>6, <1>9, <1>11 DEF IndInv

(* The session is listed before its device is. *)
LEMMA HelloListInd ==
  ASSUME IndInv, NEW k \in Sessions, HelloList(k)
  PROVE  IndInv'
<1>1. k \in Threads /\ {"pc", "id"} \subseteq DOMAIN th[k] /\ Shape
  BY DEF IndInv, Shape, Threads
<1>2. th[k].pc = "list" /\ peers' = peers \cup {k} /\ UNCHANGED <<dd, ses>>
  BY DEF HelloList, At, svars
<1> DEFINE r == [th[k] EXCEPT !.pc = "dd"]
<1>3. th' = [th EXCEPT ![k] = r]
  BY <1>1 DEF HelloList, Goto, Shape
<1>4. {"pc", "id"} \subseteq DOMAIN r /\ r.id = th[k].id /\ r.pc = "dd"
  BY <1>1
<1> HIDE DEF r
<1>5. Shape' /\ th'[k] = r /\ \A u \in Threads \ {k} : th'[u] = th[u]
  BY Zenon, <1>1, <1>2, <1>3, <1>4, ThSet
<1>6. \A l \in Sessions \ {k} : th'[l] = th[l]
  BY <1>1, <1>5, OneSession
<1>7. ~(k[2] > ses[k[1]]) /\ th[k].id = k[1]
  BY <1>2 DEF IndInv, SesInv
<1>8. SesInv'
  BY <1>2, <1>4, <1>5, <1>6, <1>7 DEF IndInv, SesInv
<1>9. \A l \in Sessions : \A d : Vouches(l, d) => Vouches(l, d)'
  BY <1>2, <1>6 DEF Vouches
<1>10. ListInv'
  BY <1>2, <1>9 DEF IndInv, ListInv
<1> QED
  BY <1>2, <1>5, <1>8, <1>10 DEF IndInv

(* The device that is added is that of a listed session. *)
LEMMA HelloDdInd ==
  ASSUME IndInv, NEW k \in Sessions, HelloDd(k)
  PROVE  IndInv'
<1>1. k \in Threads /\ {"pc", "id"} \subseteq DOMAIN th[k] /\ Shape
  BY DEF IndInv, Shape, Threads
<1>2. th[k].pc = "dd" /\ dd' = AddDevice(dd, k[1], 0) /\ UNCHANGED <<peers, ses>>
  BY DEF HelloDd, At, svars
<1> DEFINE r == [[th[k] EXCEPT !.pc = "copy"] EXCEPT !.add = TRUE]
<1>3. th' = [th EXCEPT ![k] = r]
  BY Zenon, <1>1 DEF HelloDd, Shape
<1>4. {"pc", "id"} \subseteq DOMAIN r /\ r.id = th[k].id /\ r.pc = "copy"
  BY <1>1
<1> HIDE DEF r
<1>5. Shape' /\ th'[k] = r /\ \A u \in Threads \ {k} : th'[u] = th[u]
  BY Zenon, <1>1, <1>2, <1>3, <1>4, ThSet
<1>6. \A l \in Sessions \ {k} : th'[l] = th[l]
  BY <1>1, <1>5, OneSession
<1>7. ~(k[2] > ses[k[1]]) /\ th[k].id = k[1] /\ k \in peers
  BY <1>2 DEF IndInv, SesInv
<1>8. SesInv'
  BY <1>2, <1>4, <1>5, <1>6, <1>7 DEF IndInv, SesInv
<1>9. \A l \in Sessions : \A d : Vouches(l, d) => Vouches(l, d)'
  BY <1>2, <1>6 DEF Vouches
<1>10. Vouches(k, k[1])'
  BY <1>2, <1>7 DEF Vouches
<1>11. k[1] \in Devs
  BY DEF Sessions, Devs
<1>12. Dir(dd') /\ DevSet(dd') \subseteq DevSet(dd) \cup {k[1]}
  BY <1>2, <1>11, AddDir DEF IndInv
<1>13. ListInv'
  BY <1>9, <1>10, <1>12 DEF IndInv, ListInv
<1> QED
  BY <1>5, <1>8, <1>12, <1>13 DEF IndInv

(* Once off the list, the thread is about to delete its device. *)
LEMMA CleanListInd ==
  ASSUME IndInv, NEW k \in Sessions, CleanList(k)
  PROVE  IndInv'
<1>1. k \in Threads /\ {"pc", "id"} \subseteq DOMAIN th[k] /\ Shape
  BY DEF IndInv, Shape, Threads
<1>2. th[k].pc = "clean" /\ peers' = peers \ {k} /\ UNCHANGED <<dd, ses>>
  BY DEF CleanList, At, svars
<1> DEFINE r == [th[k] EXCEPT !.pc = "del"]
<1>3. th' = [th EXCEPT ![k] = r]
  BY <1>1 DEF CleanList, Goto, Shape
<1>4. {"pc", "id"} \subseteq DOMAIN r /\ r.id = th[k].id /\ r.pc = "del"
  BY <1>1
<1> HIDE DEF r
<1>5. Shape' /\ th'[k] = r /\ \A u \in Threads \ {k} : th'[u] = th[u]
  BY Zenon, <1>1, <1>2, <1>3, <1>4, ThSet
<1>6. \A l \in Sessions \ {k} : th'[l] = th[l]
  BY <1>1, <1>5, OneSession
<1>7. ~(k[2] > ses[k[1]]) /\ (k \in peers => th[k].id = k[1])
  BY <1>2 DEF IndInv, SesInv
<1>8. SesInv'
  BY <1>2, <1>4, <1>5, <1>6, <1>7 DEF IndInv, SesInv
<1>9. \A l \in Sessions : \A d : Vouches(l, d) => Vouches(l, d)'
  BY <1>2, <1>4, <1>5, <1>6, <1>7 DEF Vouches
<1>10. ListInv'
  BY <1>2, <1>9 DEF IndInv, ListInv
<1> QED
  BY <1>2, <1>5, <1>8, <1>10 DEF IndInv

(* The session that no longer vouches for its device has deleted it. *)
LEMMA CleanDdInd ==
  ASSUME Room, IndInv, NEW k \in Sessions, CleanDd(k)
  PROVE  IndInv'
<1>1. k \in Threads /\ {"pc", "id"} \subseteq DOMAIN th[k] /\ Shape
  BY DEF IndInv, Shape, Threads
<1>2. th[k].pc = "del" /\ dd' = DelDevice(dd, th[k].id) /\ UNCHANGED <<peers, ses>>
  BY DEF CleanDd, At, svars
<1> DEFINE p == IF DelOk(dd, th[k].id) THEN "removal" ELSE "free"
           r == [th[k] EXCEPT !.pc = p]
<1>3. th' = [th EXCEPT ![k] = r] /\ p \in {"removal", "free"}
  BY <1>1 DEF CleanDd, Goto, Shape
<1> HIDE DEF p
<1>4. {"pc", "id"} \subseteq DOMAIN r /\ r.id = th[k].id /\ r.pc = p
  BY <1>1
<1> HIDE DEF r
<1>5. Shape' /\ th'[k] = r /\ \A u \in Threads \ {k} : th'[u] = th[u]
  BY Zenon, <1>1, <1>2, <1>3, <1>4, ThSet
<1>6. \A l \in Sessions \ {k} : th'[l] = th[l]
  BY <1>1, <1>5, OneSession
<1>7. ~(k[2] > ses[k[1]])
  BY <1>2 DEF IndInv, SesInv
<1>8. SesInv'
  BY <1>2, <1>3, <1>4, <1>5, <1>6, <1>7 DEF IndInv, SesInv
<1>9. Dir(dd') /\ DevSet(dd') = DevSet(dd) \ {th[k].id}
  BY <1>2, DelDir DEF IndInv
<1>10. \A l \in Sessions : \A d : Vouches(l, d) /\ d # th[k].id => Vouches(l, d)'
  BY <1>2, <1>6 DEF Vouches
<1>11. ListInv'
  BY <1>9, <1>10 DEF IndInv, ListInv
<1> QED
  BY <1>5, <1>8, <1>9, <1>11 DEF IndInv

(* The local application changes a flag. *)
LEMMA MasterFlipInd ==
  ASSUME IndInv, MasterFlip
  PROVE  IndInv'
<1>1. AppThr \in Threads /\ {"pc", "id"} \subseteq DOMAIN th[AppThr] /\ Shape
  BY DEF IndInv, Shape, Threads
<1>2. th[AppThr].pc = "idle" /\ dd' = Toggle(dd, Master) /\ UNCHANGED <<peers, ses>>
  BY DEF MasterFlip, At, svars
<1> DEFINE r == [[th[AppThr] EXCEPT !.pc = "copy"] EXCEPT !.add = FALSE]
<1>3. th' = [th EXCEPT ![AppThr] = r]
  BY Zenon, <1>1 DEF MasterFlip, Shape
<1>4. {"pc", "id"} \subseteq DOMAIN r /\ r.id = th[AppThr].id /\ r.pc = "copy"
  BY <1>1
<1> HIDE DEF r
<1>5. Shape' /\ th'[AppThr] = r /\ \A u \in Threads \ {AppThr} : th'[u] = th[u]
  BY Zenon, <1>1, <1>2, <1>3, <1>4, ThSet
<1>6. Aside(AppThr)
  BY <1>2, <1>4, <1>5 DEF Aside, Marked
<1>7. Dir(dd') /\ DevSet(dd') = DevSet(dd)
  BY <1>2, ToggleDir DEF IndInv
<1> QED
  BY <1>1, <1>2, <1>6, <1>7, AsideInd

(* A slave starts a session that had no thread. *)
LEMMA SlaveStartInd ==
  ASSUME IndInv, NEW s \in Slaves, SlaveStart(s)
  PROVE  IndInv'
<1> DEFINE k == <<s, ses[s] + 1>>
           r == [th[k] EXCEPT !.pc = "rx"]
<1>1. /\ th' = [th EXCEPT ![k].pc = "rx"] /\ ses' = [ses EXCEPT ![s] = @ + 1]
      /\ UNCHANGED <<dd, peers>>
  BY DEF SlaveStart, StartNewPeer, Goto
<1>2. /\ ses' \in [Slaves -> Nat] /\ ses'[s] = ses[s] + 1 /\ ses[s] \in Nat
      /\ \A x \in Slaves \ {s} : ses'[x] = ses[x]
  BY <1>1 DEF IndInv, Shape
<1>3. k[1] = s /\ k[2] = ses[s] + 1 /\ k[2] > ses[s]
  BY <1>2
<1>4. DOMAIN th' = Threads /\ \A u \in Threads \ {k} : th'[u] = th[u]
  BY <1>1 DEF IndInv, Shape
<1>5. k \in Threads => /\ {"pc", "id"} \subseteq DOMAIN th'[k]
                       /\ th'[k].pc = "rx" /\ th'[k].id = th[k].id
  <2> SUFFICES ASSUME k \in Threads
               PROVE  /\ {"pc", "id"} \subseteq DOMAIN th'[k]
                      /\ th'[k].pc = "rx" /\ th'[k].id = th[k].id
    OBVIOUS
  <2>1. {"pc", "id"} \subseteq DOMAIN th[k] /\ DOMAIN th = Threads
    BY DEF IndInv, Shape
  <2> HIDE DEF k
  <2>2. th'[k] = r
    BY <1>1, <2>1
  <2> QED
    BY <2>1, <2>2
<1>6. Shape'
  BY <1>2, <1>4, <1>5 DEF IndInv, Shape
<1>7. k \in Sessions => th[k].pc = "none"
  BY <1>3 DEF IndInv, SesInv
<1> HIDE DEF k, r
<1>8. \A l \in Sessions : l \in Threads /\ l[1] \in Slaves /\ l[2] \in Nat /\ l = <<l[1], l[2]>>
  BY DEF Sessions, Threads
<1>9. \A l \in Sessions : l[2] > ses'[l[1]] => l[2] > ses[l[1]] /\ l # k
  BY <1>2, <1>3, <1>8
<1>10. SesInv'
  BY <1>1, <1>4, <1>5, <1>8, <1>9 DEF IndInv, SesInv
<1>11. \A l \in Sessions : \A d : Vouches(l, d) => Vouches(l, d)'
  BY <1>1, <1>4, <1>5, <1>7, <1>8 DEF Vouches
<1>12. ListInv'
  BY <1>1, <1>11 DEF IndInv, ListInv
<1> QED
  BY <1>1, <1>6, <1>10, <1>12 DEF IndInv

-----------------------------------------------------------------------------
LEMMA InitInd == Init => IndInv
<1> SUFFICES ASSUME Init PROVE IndInv
  OBVIOUS
<1>1. Shape
  BY DEF Init, Shape
<1>2. dd \in Seq({Dev(Master, 0)}) /\ DOMAIN dd = {1} /\ dd[1] = Dev(Master, 0)
  BY DEF Init
<1>3. dd[1].dev = Master
  BY <1>2, DevFields
<1>4. Dir(dd)
  BY <1>2, <1>3 DEF Dir, Devs
<1>5. \A k \in Sessions : th[k].pc = "none"
  BY PeerConstants DEF Init, Sessions, Threads
<1>6. SesInv
  BY Zenon, <1>5 DEF Init, SesInv
<1>7. ListInv
  BY <1>2, <1>3 DEF ListInv, DevSet
<1> QED
  BY <1>1, <1>4, <1>6, <1>7 DEF IndInv

(* Only the master's threads, and a slave that starts, concern the invariant. *)
LEMMA StillInd ==
  ASSUME IndInv, UNCHANGED <<dd, peers, th, ses>>
  PROVE  IndInv'
  BY DEF IndInv, Shape, Dir, SesInv, ListInv, Vouches, DevSet

LEMMA NextInd ==
  ASSUME Room, IndInv, [Next]_vars
  PROVE  IndInv'
<1>1. ASSUME NEW k \in Sessions, PeerRx(k) \/ Cleanup(k) PROVE IndInv'
  <2>1. CASE RxHello(k)
    BY <2>1, RxHelloInd
  <2>2. CASE HelloList(k)
    BY <2>2, HelloListInd
  <2>3. CASE HelloDd(k)
    BY <2>3, HelloDdInd
  <2>4. CASE CleanList(k)
    BY <2>4, CleanListInd
  <2>5. CASE CleanDd(k)
    BY <2>5, CleanDdInd
  <2>6. CASE RxFset(k) \/ RxFails(k) \/ RemovalLock(k) \/ RemovalSend(k) \/ RemovalEnd(k)
             \/ Free(k)
    <3>1. (Aside(k) \/ UNCHANGED th) /\ UNCHANGED <<peers, ses>>
      BY <2>6, SessionAside DEF IndInv
    <3>2. dd' = dd \/ \E d, f : dd' = SetFlag(dd, d, f)
      BY <2>6 DEF RxFset, RxFails, RemovalLock, RemovalSend, RemovalEnd, Free
    <3>3. Dir(dd') /\ DevSet(dd') = DevSet(dd)
      BY <3>2, SetDir DEF IndInv
    <3>4. CASE Aside(k)
      BY <3>1, <3>3, <3>4, AsideInd DEF Threads
    <3>5. CASE UNCHANGED th
      BY <3>1, <3>3, <3>5 DEF IndInv, Shape, SesInv, ListInv, Vouches
    <3> QED
      BY <3>1, <3>4, <3>5
  <2> QED
    BY <1>1, <2>1, <2>2, <2>3, <2>4, <2>5, <2>6 DEF PeerRx, Cleanup
<1>2. ASSUME NEW t \in Threads, UpdateAll(t) PROVE IndInv'
  <2>1. Aside(t) /\ UNCHANGED <<dd, peers, ses>>
    BY <1>2, UpdateAllAside DEF IndInv
  <2>2. Dir(dd') /\ DevSet(dd') \subseteq DevSet(dd)
    BY <2>1 DEF IndInv, DevSet, Dir
  <2> QED
    BY <2>1, <2>2, AsideInd
<1>3. ASSUME NEW s \in Slaves,
             SlaveRx(s) \/ SlaveUpdate(s, "rx") \/ SlaveUpdate(s, "app") \/ SlaveStop(s)
             \/ SlaveFlip(s)
      PROVE  IndInv'
  <2>1. UNCHANGED <<mvars, ses>>
    BY <1>3 DEF SlaveRx, SlaveHello, SlaveDenied, SlaveMod, SlaveFset, SlaveReceive, SlaveEnd,
                SlaveUpdate, SlaveRead, SlaveSend, SlaveStop, SlaveFlip
  <2> QED
    BY <2>1, StillInd DEF mvars
<1>4. CASE MasterFlip
  BY <1>4, MasterFlipInd
<1>5. ASSUME NEW s \in Slaves, SlaveStart(s) PROVE IndInv'
  BY <1>5, SlaveStartInd
<1>6. CASE UNCHANGED vars
  BY <1>6, StillInd DEF vars
<1> QED
  BY <1>1, <1>2, <1>3, <1>4, <1>5, <1>6 DEF Next, Daemons, Environment

(* The master's directory lists no device twice, and besides the master only *)
(* devices of sessions that are in fmp.peers or about to leave the           *)
(* directory, however hellos, updates and cleanups of all sessions           *)
(* interleave, as long as the directory cannot fill up.                      *)
THEOREM MasterDirectory == Room => (Spec => []DirectoryIsPeers)
<1> SUFFICES ASSUME Room PROVE Spec => []DirectoryIsPeers
  OBVIOUS
<1>1. IndInv => DirectoryIsPeers
  BY DEF IndInv, Dir, ListInv, Vouches, DirectoryIsPeers
<1>2. IndInv /\ [Next]_vars => IndInv'
  BY NextInd
<1> QED
  BY <1>1, <1>2, InitInd, PTL DEF Spec
=============================================================================
