----------------------------- MODULE Did_proofs -----------------------------
(***************************************************************************)
(* Theorems about module Did, for every size of the identifier spaces.     *)
(*                                                                         *)
(* UniqueDid is not inductive: it needs that a value somebody holds is     *)
(* marked in did_ids, and that an entry which a group may still give out   *)
(* is marked in did_ids and held by nobody.                                *)
(***************************************************************************)
EXTENDS Did, WellFoundedInduction, TLAPS

HeldInv ==
  \A v \in Values :
    /\ holders[v] \in {0, 1}
    /\ holders[v] = 1 => did_ids[v] # invld_sz /\ v \notin Reserved

GroupInv ==
  \A b \in Bases, o \in Offsets :
    /\ Allocated(b) => 0 \in l_dev16[b] /\ GRP_SZ - 1 \in l_dev16[b]
    /\ Allocated(b) /\ o \notin l_dev16[b]
         => did_ids[b + o] # invld_sz /\ holders[b + o] = 0

LazyInv ==
  /\ did_idx = 0 => /\ \A v \in Values : holders[v] = 0
                    /\ \A b \in Bases : ~Allocated(b)
  /\ did_idx # 0 => \A v \in Reserved : did_ids[v] # invld_sz

IndInv == TypeOK /\ HeldInv /\ GroupInv /\ LazyInv

-----------------------------------------------------------------------------
(* The group size is at least two. *)
LEMMA GrpSz ==
  /\ GRP_SZ \in Nat /\ GRP_SZ >= 2
  /\ RIO_LAST_DEV8 \in Nat /\ RIO_LAST_DEV16 \in Nat
  /\ RIO_LAST_DEV8 < RIO_LAST_DEV16 /\ RIO_LAST_DEV8 > 0
  /\ Reserved \subseteq Values
  BY DidConstants DEF GRP_SZ, Reserved, Values

(* Every non-empty set of values has a first element. *)
LEMMA FirstExists ==
  ASSUME NEW S, S \subseteq Nat, S # {}
  PROVE  \E v \in S : IsFirst(v, S)
<1>1. \E x \in S : \A y \in S : ~(<<y, x>> \in OpToRel(<, Nat))
  BY Zenon, NatLessThanWellFounded, WFMin
<1>2. PICK x \in S : \A y \in S : ~(<<y, x>> \in OpToRel(<, Nat))
  BY Zenon, <1>1
<1>3. ASSUME NEW y \in S PROVE x <= y
  <2>1. ~(y < x)
    BY Zenon, <1>2 DEF OpToRel
  <2> QED
    BY <2>1
<1> QED
  BY <1>3 DEF IsFirst

(* A base and an offset determine each other's sum: two groups are disjoint. *)
LEMMA GroupsDisjoint ==
  ASSUME NEW b \in Bases, NEW c \in Bases, NEW o \in Offsets, NEW p \in Offsets,
         b + o = c + p
  PROVE  b = c /\ o = p
<1>1. b \in Nat /\ c \in Nat /\ o \in Nat /\ p \in Nat
      /\ o < GRP_SZ /\ p < GRP_SZ /\ b % GRP_SZ = 0 /\ c % GRP_SZ = 0
  BY GrpSz DEF Bases, Offsets, Values
<1>2. \A x, y \in Nat : x % GRP_SZ = 0 /\ y % GRP_SZ = 0 /\ x < y => x + GRP_SZ <= y
  <2> TAKE x \in Nat, y \in Nat
  <2> HAVE x % GRP_SZ = 0 /\ y % GRP_SZ = 0 /\ x < y
  <2>1. x = GRP_SZ * (x \div GRP_SZ) /\ y = GRP_SZ * (y \div GRP_SZ)
    BY GrpSz
  <2>2. x \div GRP_SZ \in Nat /\ y \div GRP_SZ \in Nat
    BY GrpSz
  <2> DEFINE i == x \div GRP_SZ
             j == y \div GRP_SZ
  <2>3. i < j
    <3>1. CASE j <= i
      <4>1. GRP_SZ * j <= GRP_SZ * i
        BY <2>2, <3>1, GrpSz
      <4> QED
        BY <2>1, <4>1
    <3> QED
      BY <2>2, <3>1
  <2>4. GRP_SZ * (i + 1) <= GRP_SZ * j
    BY <2>2, <2>3, GrpSz
  <2>5. GRP_SZ * (i + 1) = GRP_SZ * i + GRP_SZ
    BY <2>2, GrpSz
  <2> QED
    BY <2>1, <2>4, <2>5
<1> QED
  BY <1>1, <1>2, GrpSz

(* The remainders that the code takes are offsets, and a group lies in Values. *)
LEMMA Remainder == \A n \in Nat : n % GRP_SZ \in Offsets
  BY GrpSz DEF Offsets

(* An entry of a group is one of the values of did_ids. *)
LEMMA GroupInValues ==
  ASSUME NEW b \in Bases, NEW o \in Offsets
  PROVE  b + o \in Values
<1>1. b \in Nat /\ b % GRP_SZ = 0 /\ b <= RIO_LAST_DEV16 /\ o \in Nat /\ o < GRP_SZ
  BY GrpSz DEF Bases, Offsets, Values
<1>2. (RIO_LAST_DEV16 + 1) % GRP_SZ = 0
  BY DidConstants
<1>3. b + GRP_SZ <= RIO_LAST_DEV16 + 1
  <2> DEFINE n == RIO_LAST_DEV16 + 1
             i == b \div GRP_SZ
             j == n \div GRP_SZ
  <2>1. b = GRP_SZ * i /\ n = GRP_SZ * j /\ i \in Nat /\ j \in Nat
    BY <1>1, <1>2, GrpSz
  <2>2. i < j
    <3>1. CASE j <= i
      <4>1. GRP_SZ * j <= GRP_SZ * i
        BY <2>1, <3>1, GrpSz
      <4> QED
        BY <1>1, <2>1, <4>1, GrpSz
    <3> QED
      BY <2>1, <3>1
  <2>3. GRP_SZ * (i + 1) <= GRP_SZ * j
    BY <2>1, <2>2, GrpSz
  <2>4. GRP_SZ * (i + 1) = GRP_SZ * i + GRP_SZ
    BY <2>1, GrpSz
  <2> QED
    BY <2>1, <2>3, <2>4, GrpSz
<1> QED
  BY <1>1, <1>3, GrpSz DEF Values

(* What the lazy initialisation leaves: the three reserved values are marked. *)
LEMMA IdsFacts ==
  ASSUME IndInv
  PROVE  /\ Ids \in [Values -> Sizes \cup {invld_sz}]
         /\ Idx \in 1..(RIO_LAST_DEV16 + 1)
         /\ \A v \in Reserved : Ids[v] # invld_sz
         /\ \A v \in Values : did_idx # 0 => Ids[v] = did_ids[v]
         /\ \A v \in Values : holders[v] = 1 => Ids[v] # invld_sz
         /\ \A b \in Bases, o \in Offsets :
              Allocated(b) /\ o \notin l_dev16[b] => Ids[b + o] # invld_sz
<1>1. CASE did_idx = 0
  <2>1. /\ Ids = [v \in Values |-> IF v \in {0, RIO_LAST_DEV8} THEN "dev08"
                                  ELSE IF v = RIO_LAST_DEV16 THEN "dev16" ELSE invld_sz]
        /\ Idx = 1
    BY <1>1 DEF Ids, Idx
  <2>2. Ids \in [Values -> Sizes \cup {invld_sz}]
    BY <2>1 DEF Sizes, invld_sz
  <2>3. \A v \in Reserved : Ids[v] # invld_sz
    BY <2>1, GrpSz DEF Reserved, invld_sz
  <2>4. (\A v \in Values : holders[v] = 0) /\ (\A b \in Bases : ~Allocated(b))
    BY <1>1 DEF IndInv, LazyInv
  <2>5. Idx \in 1..(RIO_LAST_DEV16 + 1)
    BY <2>1, GrpSz
  <2>6. \A v \in Values : holders[v] = 1 => Ids[v] # invld_sz
    BY <2>4, SMT
  <2> QED
    BY <1>1, <2>2, <2>3, <2>4, <2>5, <2>6
<1>2. CASE did_idx # 0
  BY <1>2, GrpSz DEF IndInv, TypeOK, LazyInv, HeldInv, GroupInv, Ids, Idx
<1> QED
  BY <1>1, <1>2

-----------------------------------------------------------------------------
(* A table that keeps every mark of Ids keeps the invariant, if nobody is *)
(* given anything and no group changes.                                   *)
LEMMA KeepInd ==
  ASSUME IndInv,
         did_ids' \in [Values -> Sizes \cup {invld_sz}],
         \A v \in Values : Ids[v] # invld_sz => did_ids'[v] # invld_sz,
         did_idx' \in 1..(RIO_LAST_DEV16 + 1),
         UNCHANGED <<l_dev16, next, holders>>
  PROVE  IndInv'
<1>1. TypeOK'
  BY GrpSz DEF IndInv, TypeOK
<1>2. HeldInv'
  BY IdsFacts DEF IndInv, HeldInv
<1>3. GroupInv'
  BY IdsFacts, GroupInValues DEF IndInv, GroupInv, Allocated
<1>4. LazyInv'
  BY IdsFacts, GrpSz DEF LazyInv
<1> QED
  BY <1>1, <1>2, <1>3, <1>4 DEF IndInv

(* Fail keeps the inductive invariant. *)
LEMMA FailInd == IndInv /\ Fail => IndInv'
  BY KeepInd, IdsFacts DEF Fail

(* Giving a value that was free in Ids keeps the invariant. *)
LEMMA GiveInd ==
  ASSUME IndInv, NEW v \in Values, NEW size \in Sizes, Free(v),
         did_ids' = [Ids EXCEPT ![v] = size],
         did_idx' \in 1..(RIO_LAST_DEV16 + 1),
         Give(v), UNCHANGED <<l_dev16, next>>
  PROVE  IndInv'
<1>0. Ids[v] = invld_sz /\ size # invld_sz
  BY DEF Free, Sizes, invld_sz
<1>1. holders[v] = 0 /\ v \notin Reserved
  BY <1>0, IdsFacts DEF IndInv, HeldInv
<1>2. /\ holders' \in [Values -> Nat] /\ holders'[v] = 1
      /\ \A w \in Values : w # v => holders'[w] = holders[w]
  BY <1>1 DEF IndInv, TypeOK, Give
<1>3. /\ did_ids' \in [Values -> Sizes \cup {invld_sz}] /\ did_ids'[v] = size
      /\ \A w \in Values : w # v => did_ids'[w] = Ids[w]
  BY IdsFacts
<1>4. TypeOK'
  BY <1>2, <1>3, GrpSz DEF IndInv, TypeOK
<1>5. HeldInv'
  BY <1>0, <1>1, <1>2, <1>3, IdsFacts DEF IndInv, HeldInv
<1>6. GroupInv'
  BY <1>0, <1>2, <1>3, IdsFacts, GroupInValues DEF IndInv, GroupInv, Allocated
<1>7. LazyInv'
  BY <1>0, <1>3, IdsFacts, GrpSz DEF LazyInv
<1> QED
  BY <1>4, <1>5, <1>6, <1>7 DEF IndInv

(* What did_create's search finds is free. *)
LEMMA FoundFree ==
  ASSUME IndInv, NEW v \in Values, NEW size \in Sizes, Found(v, size)
  PROVE  Free(v)
  BY DEF Found, IsFirst, Ahead, Behind

(* DidCreate keeps the inductive invariant. *)
LEMMA DidCreateInd ==
  ASSUME IndInv, NEW size \in AllSizes, DidCreate(size)
  PROVE  IndInv'
<1>1. CASE Fail
  BY <1>1, FailInd
<1>2. ASSUME size \in Sizes, NEW v \in Values, Found(v, size),
             did_ids' = [Ids EXCEPT ![v] = size], did_idx' = v + 1, Give(v),
             UNCHANGED <<l_dev16, next>>
      PROVE  IndInv'
  <2>1. Free(v)
    BY <1>2, FoundFree
  <2>2. did_idx' \in 1..(RIO_LAST_DEV16 + 1)
    BY <1>2, GrpSz DEF Values
  <2> QED
    BY Zenon, <1>2, <2>1, <2>2, GiveInd
<1> QED
  BY <1>1, <1>2 DEF DidCreate

(* DidCreateFromData keeps the inductive invariant. *)
LEMMA DidCreateFromDataInd ==
  ASSUME IndInv, NEW v \in Values, NEW size \in AllSizes, DidCreateFromData(v, size)
  PROVE  IndInv'
<1>1. CASE Fail
  BY <1>1, FailInd
<1>2. CASE ~Fail
  <2>1. /\ size \in Sizes /\ Free(v)
        /\ did_ids' = [Ids EXCEPT ![v] = size] /\ did_idx' = Idx
        /\ Give(v) /\ UNCHANGED <<l_dev16, next>>
    BY <1>2 DEF DidCreateFromData, Refused, InUse
  <2> QED
    BY Zenon, <2>1, GiveInd, IdsFacts
<1> QED
  BY <1>1, <1>2

(* DidFromValue keeps the inductive invariant. *)
LEMMA DidFromValueInd ==
  ASSUME IndInv, NEW v \in Values, NEW size \in AllSizes, DidFromValue(v, size)
  PROVE  IndInv'
<1>1. CASE Fail
  BY <1>1, FailInd
<1>2. CASE ~Fail
  <2>1. /\ size \in Sizes
        /\ did_ids' = IF Free(v) THEN [Ids EXCEPT ![v] = size] ELSE Ids
        /\ did_idx' = Idx /\ UNCHANGED <<l_dev16, next, holders>>
    BY <1>2 DEF DidFromValue, Refused
  <2>2. /\ did_ids' \in [Values -> Sizes \cup {invld_sz}]
        /\ \A w \in Values : Ids[w] # invld_sz => did_ids'[w] # invld_sz
    BY <2>1, IdsFacts DEF Free, Sizes, invld_sz
  <2> QED
    BY <2>1, <2>2, KeepInd, IdsFacts
<1> QED
  BY <1>1, <1>2

(* DidRelease keeps the inductive invariant. *)
LEMMA DidReleaseInd ==
  ASSUME IndInv, NEW v \in Values, NEW size \in AllSizes, DidRelease(v, size)
  PROVE  IndInv'
<1>1. CASE UNCHANGED <<did_ids, holders>>
  BY <1>1 DEF IndInv, TypeOK, HeldInv, GroupInv, LazyInv, DidRelease, Allocated
<1>2. CASE ~UNCHANGED <<did_ids, holders>>
  <2>1. /\ holders[v] > 0 /\ did_ids[v] # invld_sz
        /\ did_ids' = [did_ids EXCEPT ![v] = invld_sz] /\ Return(v)
        /\ UNCHANGED <<did_idx, l_dev16, next>>
    BY <1>2 DEF DidRelease
  <2>2. holders[v] = 1 /\ v \notin Reserved /\ did_idx # 0
    BY <2>1 DEF IndInv, HeldInv, LazyInv
  <2>3. /\ holders' \in [Values -> Nat] /\ holders'[v] = 0
        /\ \A w \in Values : w # v => holders'[w] = holders[w]
    BY <2>1, <2>2 DEF IndInv, TypeOK, Return
  <2>4. /\ did_ids' \in [Values -> Sizes \cup {invld_sz}]
        /\ \A w \in Values : w # v => did_ids'[w] = did_ids[w]
    BY <2>1 DEF IndInv, TypeOK
  <2>5. TypeOK'
    BY <2>1, <2>3, <2>4 DEF IndInv, TypeOK
  <2>6. HeldInv'
    BY <2>3, <2>4 DEF IndInv, HeldInv
  <2>7. GroupInv'
    <3>1. \A b \in Bases, o \in Offsets :
            Allocated(b) /\ o \notin l_dev16[b] => b + o # v
      BY <2>2 DEF IndInv, GroupInv
    <3> QED
      BY <2>1, <2>3, <2>4, <3>1, GroupInValues DEF IndInv, GroupInv, Allocated
  <2>8. LazyInv'
    BY <2>1, <2>2, <2>4, GrpSz DEF IndInv, LazyInv
  <2> QED
    BY <2>5, <2>6, <2>7, <2>8 DEF IndInv
<1> QED
  BY <1>1, <1>2

(* A group that the code takes as free holds nothing that was given, and     *)
(* none of its values belongs to a group that was allocated earlier.         *)
LEMMA DidAllocDev16GrpInd == IndInv /\ DidAllocDev16Grp => IndInv'
<1> SUFFICES ASSUME IndInv, DidAllocDev16Grp PROVE IndInv'
  OBVIOUS
<1>1. CASE Fail
  BY <1>1, FailInd
<1>2. CASE ~Fail
  <2>1. PICK b \in Bases :
          /\ b \in FreeGroups
          /\ did_ids' = [v \in Values |->
                           IF /\ b <= v /\ v < b + GRP_SZ
                              /\ v \notin {RIO_LAST_DEV8, RIO_LAST_DEV16}
                           THEN "dev16" ELSE Ids[v]]
          /\ l_dev16' = [l_dev16 EXCEPT ![b] = {0, GRP_SZ - 1}]
          /\ next' = [next EXCEPT ![b] = 1]
          /\ did_idx' = b + GRP_SZ
          /\ UNCHANGED holders
    BY <1>2 DEF DidAllocDev16Grp, IsFirst
  <2>2. b \in Nat /\ b + (GRP_SZ - 1) \in Values /\ GRP_SZ - 1 \in Offsets /\ 0 \in Offsets
    BY GroupInValues, GrpSz DEF Bases, Offsets, Values
  <2>3. did_idx' \in 1..(RIO_LAST_DEV16 + 1)
    BY <2>1, <2>2, GrpSz DEF Values
  <2>4. /\ did_ids' \in [Values -> Sizes \cup {invld_sz}]
        /\ \A v \in Values : Ids[v] # invld_sz => did_ids'[v] # invld_sz
        /\ \A v \in Values : b <= v /\ v < b + GRP_SZ => did_ids'[v] # invld_sz
    <3>1. \A v \in {RIO_LAST_DEV8, RIO_LAST_DEV16} : Ids[v] # invld_sz
      BY IdsFacts DEF Reserved
    <3> QED
      BY <2>1, <3>1, IdsFacts DEF Sizes, invld_sz
  <2>5. \A o \in Offsets : holders[b + o] = 0
    <3> TAKE o \in Offsets
    <3>1. b + o \in Values /\ (b + o \in Reserved \/ Free(b + o))
      BY <2>1, GroupInValues DEF FreeGroups, GroupFree
    <3> QED
      BY <3>1, IdsFacts DEF IndInv, HeldInv, Free
  <2>6. /\ l_dev16' \in [Bases -> SUBSET Offsets] /\ l_dev16'[b] = {0, GRP_SZ - 1}
        /\ \A c \in Bases : c # b => l_dev16'[c] = l_dev16[c]
    BY <2>1, <2>2 DEF IndInv, TypeOK
  <2>7. TypeOK'
    BY <2>1, <2>3, <2>4, <2>6, GrpSz DEF IndInv, TypeOK
  <2>8. HeldInv'
    BY <2>1, <2>4, IdsFacts DEF IndInv, HeldInv
  <2>9. GroupInv'
    <3> SUFFICES ASSUME NEW c \in Bases, NEW o \in Offsets
                 PROVE  /\ (Allocated(c) => 0 \in l_dev16[c] /\ GRP_SZ - 1 \in l_dev16[c])'
                        /\ (Allocated(c) /\ o \notin l_dev16[c]
                              => did_ids[c + o] # invld_sz /\ holders[c + o] = 0)'
      BY DEF GroupInv
    <3>1. CASE c = b
      <4>1. b <= b + o /\ b + o < b + GRP_SZ /\ b + o \in Values
        BY <2>2, GroupInValues, GrpSz DEF Offsets
      <4> QED
        BY <2>1, <2>4, <2>5, <2>6, <3>1, <4>1
    <3>2. CASE c # b
      BY <2>1, <2>4, <2>6, <3>2, IdsFacts, GroupInValues DEF IndInv, GroupInv, Allocated
    <3> QED
      BY <3>1, <3>2
  <2>10. LazyInv'
    BY <2>3, <2>4, IdsFacts, GrpSz DEF LazyInv
  <2> QED
    BY <2>7, <2>8, <2>9, <2>10 DEF IndInv
<1> QED
  BY <1>1, <1>2

(* DidGrpResrvDid keeps the inductive invariant. *)
LEMMA DidGrpResrvDidInd ==
  ASSUME IndInv, NEW b \in Bases, DidGrpResrvDid(b)
  PROVE  IndInv'
<1>0. next[b] \in 0..GRP_SZ /\ l_dev16[b] \subseteq Offsets /\ Allocated(b)
  BY DEF IndInv, TypeOK, DidGrpResrvDid
<1>1. CASE UNCHANGED <<l_dev16, holders>>
  <2>1. next' = [next EXCEPT ![b] = GRP_SZ] /\ UNCHANGED <<did_ids, did_idx>>
    <3>1. ASSUME NEW o \in Offsets, o \in FreeSteps(b),
                 l_dev16' = [l_dev16 EXCEPT ![b] = @ \cup {Entry(b, o)}]
          PROVE  FALSE
      BY <1>1, <3>1 DEF FreeSteps, IndInv, TypeOK
    <3> QED
      BY <3>1 DEF DidGrpResrvDid, IsFirst
  <2> QED
    BY <1>1, <2>1, GrpSz DEF IndInv, TypeOK, HeldInv, GroupInv, LazyInv, Allocated
<1>2. CASE ~UNCHANGED <<l_dev16, holders>>
  <2>1. PICK o \in Offsets :
          /\ Entry(b, o) \notin l_dev16[b]
          /\ l_dev16' = [l_dev16 EXCEPT ![b] = @ \cup {Entry(b, o)}]
          /\ next' = [next EXCEPT ![b] = (Entry(b, o) + 1) % GRP_SZ]
          /\ Give(b + Entry(b, o))
          /\ UNCHANGED <<did_ids, did_idx>>
    BY <1>2 DEF DidGrpResrvDid, IsFirst, FreeSteps
  <2> DEFINE e == Entry(b, o)
             v == b + e
  <2>2. e \in Offsets /\ e \in Nat
    <3>1. o + next[b] \in Nat
      BY <1>0, GrpSz DEF Offsets
    <3>2. e \in Offsets
      BY <3>1, Remainder DEF Entry
    <3> QED
      BY <3>2, GrpSz DEF Offsets
  <2>3. (e + 1) % GRP_SZ \in 0..GRP_SZ
    BY <2>2, Remainder, GrpSz DEF Offsets
  <2>4. v \in Values
    BY <2>2, GroupInValues
  <2>5. did_ids[v] # invld_sz /\ holders[v] = 0
    BY <1>0, <2>1, <2>2 DEF IndInv, GroupInv
  <2>6. v \notin Reserved
    <3>1. e # 0 /\ e # GRP_SZ - 1
      BY <1>0, <2>1, <2>2 DEF IndInv, GroupInv
    <3>2. 0 \in Bases /\ RIO_LAST_DEV8 \in Offsets /\ 0 \in Offsets
      BY GrpSz DEF Bases, Offsets, Values, GRP_SZ
    <3>3. v # 0
      BY <2>2, <3>1, GrpSz DEF Bases, Values
    <3>4. v # RIO_LAST_DEV8
      <4>1. 0 + RIO_LAST_DEV8 = RIO_LAST_DEV8 /\ RIO_LAST_DEV8 = GRP_SZ - 1
        BY GrpSz DEF GRP_SZ
      <4> QED
        BY <2>2, <3>1, <3>2, <4>1, GroupsDisjoint
    <3>5. v # RIO_LAST_DEV16
      <4>1. b + (GRP_SZ - 1) <= RIO_LAST_DEV16
        BY GroupInValues, GrpSz DEF Offsets, Values
      <4>2. e < GRP_SZ - 1
        BY <2>2, <3>1, GrpSz DEF Offsets
      <4> QED
        BY <2>2, <4>1, <4>2, GrpSz DEF Bases, Values
    <3> QED
      BY <3>3, <3>4, <3>5 DEF Reserved
  <2>7. /\ holders' \in [Values -> Nat] /\ holders'[v] = 1
        /\ \A w \in Values : w # v => holders'[w] = holders[w]
    BY <2>1, <2>4, <2>5 DEF IndInv, TypeOK, Give
  <2>8. /\ l_dev16' \in [Bases -> SUBSET Offsets] /\ l_dev16'[b] = l_dev16[b] \cup {e}
        /\ \A c \in Bases : c # b => l_dev16'[c] = l_dev16[c]
    BY <2>1, <2>2 DEF IndInv, TypeOK
  <2> HIDE DEF e, v
  <2>9. TypeOK'
    <3>1. next' \in [Bases -> 0..GRP_SZ]
      BY <2>1, <2>3 DEF IndInv, TypeOK, e
    <3> QED
      BY <2>1, <2>7, <2>8, <3>1 DEF IndInv, TypeOK
  <2>10. HeldInv'
    BY <2>1, <2>5, <2>6, <2>7 DEF IndInv, HeldInv
  <2>11. GroupInv'
    <3> SUFFICES ASSUME NEW c \in Bases, NEW p \in Offsets
                 PROVE  /\ (Allocated(c) => 0 \in l_dev16[c] /\ GRP_SZ - 1 \in l_dev16[c])'
                        /\ (Allocated(c) /\ p \notin l_dev16[c]
                              => did_ids[c + p] # invld_sz /\ holders[c + p] = 0)'
      BY DEF GroupInv
    <3>1. Allocated(c)' => Allocated(c)
      BY <1>0, <2>8 DEF Allocated
    <3>2. l_dev16[c] \subseteq l_dev16'[c]
      BY <2>8
    <3>3. c + p = v => c = b /\ p = e
      BY <2>2, GroupsDisjoint DEF v
    <3>4. c + p \in Values
      BY GroupInValues
    <3>5. did_ids' = did_ids
      BY <2>1
    <3> QED
      BY <2>7, <2>8, <3>1, <3>2, <3>3, <3>4, <3>5 DEF IndInv, GroupInv
  <2>12. LazyInv'
    BY <1>0, <2>1 DEF IndInv, LazyInv
  <2> QED
    BY <2>9, <2>10, <2>11, <2>12 DEF IndInv
<1> QED
  BY <1>1, <1>2

(* DidGrpUnresrvDid keeps the inductive invariant. *)
LEMMA DidGrpUnresrvDidInd ==
  ASSUME IndInv, NEW b \in Bases, NEW v \in Values, DidGrpUnresrvDid(b, v)
  PROVE  IndInv'
<1> DEFINE o == v % GRP_SZ
<1>0. holders[v] = 1 /\ did_ids[v] # invld_sz /\ Allocated(b) /\ did_idx # 0
      /\ UNCHANGED <<did_ids, did_idx>>
  BY DEF IndInv, HeldInv, LazyInv, DidGrpUnresrvDid
<1>1. CASE UNCHANGED <<l_dev16, next, holders>>
  BY <1>0, <1>1 DEF IndInv, TypeOK, HeldInv, GroupInv, LazyInv, Allocated
<1>2. CASE ~UNCHANGED <<l_dev16, next, holders>>
  <2>1. /\ v - o = b /\ o # 0 /\ o # GRP_SZ - 1
        /\ l_dev16' = [l_dev16 EXCEPT ![b] = @ \ {o}]
        /\ next' = [next EXCEPT ![b] = IF @ >= GRP_SZ THEN o ELSE @]
        /\ Return(v)
    BY <1>2 DEF DidGrpUnresrvDid
  <2>2. o \in Offsets /\ o \in 0..GRP_SZ /\ v = b + o
    <3>1. v \in Nat
      BY GrpSz DEF Values
    <3>2. o \in Offsets
      BY <3>1, Remainder
    <3> QED
      BY <2>1, <3>1, <3>2, GrpSz DEF Offsets, Bases, Values
  <2> HIDE DEF o
  <2>3. /\ holders' \in [Values -> Nat] /\ holders'[v] = 0
        /\ \A w \in Values : w # v => holders'[w] = holders[w]
    BY <1>0, <2>1 DEF IndInv, TypeOK, Return
  <2>4. /\ l_dev16' \in [Bases -> SUBSET Offsets] /\ l_dev16'[b] = l_dev16[b] \ {o}
        /\ \A c \in Bases : c # b => l_dev16'[c] = l_dev16[c]
    BY <2>1 DEF IndInv, TypeOK
  <2>5. TypeOK'
    <3>1. next' \in [Bases -> 0..GRP_SZ]
      BY <2>1, <2>2 DEF IndInv, TypeOK
    <3> QED
      BY <1>0, <2>3, <2>4, <3>1 DEF IndInv, TypeOK
  <2>6. HeldInv'
    BY <1>0, <2>3 DEF IndInv, HeldInv
  <2>7. GroupInv'
    <3> SUFFICES ASSUME NEW c \in Bases, NEW p \in Offsets
                 PROVE  /\ (Allocated(c) => 0 \in l_dev16[c] /\ GRP_SZ - 1 \in l_dev16[c])'
                        /\ (Allocated(c) /\ p \notin l_dev16[c]
                              => did_ids[c + p] # invld_sz /\ holders[c + p] = 0)'
      BY DEF GroupInv
    <3>1. c + p \in Values
      BY GroupInValues
    <3>2. CASE c = b
      BY <1>0, <2>1, <2>2, <2>3, <2>4, <3>1, <3>2 DEF IndInv, GroupInv
    <3>3. CASE c # b
      BY <1>0, <2>3, <2>4, <3>1, <3>3 DEF IndInv, GroupInv, Allocated
    <3> QED
      BY <3>2, <3>3
  <2>8. LazyInv'
    BY <1>0 DEF IndInv, LazyInv
  <2> QED
    BY <2>5, <2>6, <2>7, <2>8 DEF IndInv
<1> QED
  BY <1>1, <1>2

-----------------------------------------------------------------------------
(* The initial state satisfies the inductive invariant. *)
LEMMA InitInd == Init => IndInv
  BY GrpSz DEF Init, IndInv, TypeOK, HeldInv, GroupInv, LazyInv, Allocated, NoGroup,
     Sizes, invld_sz

(* Next keeps the inductive invariant. *)
LEMMA NextInd == IndInv /\ [Next]_vars => IndInv'
<1> SUFFICES ASSUME IndInv, [Next]_vars PROVE IndInv'
  OBVIOUS
<1>1. CASE UNCHANGED vars
  BY <1>1 DEF IndInv, TypeOK, HeldInv, GroupInv, LazyInv, Allocated, vars
<1>2. CASE Next
  BY <1>2, DidCreateInd, DidCreateFromDataInd, DidFromValueInd, DidReleaseInd,
     DidAllocDev16GrpInd, DidGrpResrvDidInd, DidGrpUnresrvDidInd, FailInd DEF Next, DidGet
<1> QED
  BY <1>1, <1>2

(* The table, the cursor and the groups stay in range: did_create's cursor   *)
(* never passes RIO_LAST_DEV16 + 1 and a group's cursor never its size.      *)
THEOREM TypeCorrect == Spec => []TypeOK
<1>1. IndInv => TypeOK
  BY DEF IndInv
<1> QED
  BY InitInd, NextInd, <1>1, PTL DEF Spec

(* No identifier is ever given to two callers, through whichever of          *)
(* did_create, did_create_from_data and did_grp_resrv_did it was given.      *)
THEOREM Uniqueness == Spec => []UniqueDid
<1>1. IndInv => UniqueDid
  BY DEF IndInv, HeldInv, UniqueDid
<1> QED
  BY InitInd, NextInd, <1>1, PTL DEF Spec

(* 0, RIO_LAST_DEV8 and RIO_LAST_DEV16 are never given to a caller. *)
THEOREM ReservedKept == Spec => []ReservedNeverGiven
<1>1. IndInv => ReservedNeverGiven
  BY GrpSz DEF IndInv, HeldInv, ReservedNeverGiven
<1> QED
  BY InitInd, NextInd, <1>1, PTL DEF Spec

(* When did_create reports ENOBUFS every value of the size is in use: its    *)
(* two searches, from the cursor and from 1, leave none out.                 *)
THEOREM SearchComplete == Spec => []NobufsMeansFull
<1>1. IndInv => NobufsMeansFull
  <2> SUFFICES ASSUME IndInv, NEW size \in Sizes, \A w \in Values : ~Found(w, size),
                      NEW v \in Values, 1 <= v, v < Upb(size), Free(v)
               PROVE  FALSE
    BY DEF NobufsMeansFull
  <2>1. Ahead(size) = {}
    <3> SUFFICES ASSUME Ahead(size) # {} PROVE FALSE
      OBVIOUS
    <3>1. Ahead(size) \subseteq Values /\ Ahead(size) \subseteq Nat
      BY GrpSz DEF Ahead, Values
    <3>2. PICK w \in Ahead(size) : IsFirst(w, Ahead(size))
      BY <3>1, FirstExists
    <3> QED
      BY <3>1, <3>2 DEF Found
  <2>2. v \in Nat /\ Idx \in Nat
    BY IdsFacts, GrpSz DEF Values
  <2>3. v \in Behind
    BY <2>1, <2>2 DEF Ahead, Behind
  <2>4. Behind \subseteq Values /\ Behind \subseteq Nat
    BY GrpSz DEF Behind, Values
  <2>5. PICK w \in Behind : IsFirst(w, Behind)
    BY Zenon, <2>3, <2>4, FirstExists
  <2> QED
    BY <2>1, <2>4, <2>5 DEF Found
<1> QED
  BY InitInd, NextInd, <1>1, PTL DEF Spec
=============================================================================
