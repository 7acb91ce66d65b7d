------------------------------ MODULE Ct_proofs -----------------------------
(***************************************************************************)
(* Theorems about module Ct, for every size of the identifier spaces, any  *)
(* number of component tags and any bound on the tags of one number.       *)
(*                                                                         *)
(* Ct implements Did: its callers do to libdid only what Did allows, so    *)
(* what Did_proofs establishes carries over.  RefCount needs that a number *)
(* which is not used has no tag.  NoOrphanDid needs that an identifier has *)
(* one owner: a caller of libdid, or one single tag.                       *)
(***************************************************************************)
EXTENDS Ct, Did_proofs, FiniteSetTheorems

(* The table counts the tags, of which there are finitely many. *)
TableInv ==
  /\ CtTypeOK /\ RefCount
  /\ \A nr \in Nrs : /\ IsFiniteSet(Each(tags[nr]))
                     /\ nr \notin used => \A v \in Values : tags[nr][v] = 0

(* An identifier has one tag at most, and none while a caller has it bare. *)
OneTag ==
  \A v \in Values, nr \in Nrs :
    tags[nr][v] > 0 => /\ tags[nr][v] = 1 /\ v \notin bare
                       /\ \A k \in Nrs : tags[k][v] > 0 => k = nr

OwnerInv == NoOrphanDid /\ OneTag

-----------------------------------------------------------------------------
(* One more tag is one more element of Each. *)
LEMMA EachMore ==
  ASSUME NEW f \in [Values -> Nat], NEW v \in Values
  PROVE  /\ Each([f EXCEPT ![v] = @ + 1]) = Each(f) \cup {<<v, f[v] + 1>>}
         /\ <<v, f[v] + 1>> \notin Each(f)
<1> DEFINE g == [f EXCEPT ![v] = @ + 1]
<1>1. \A w \in Values : g[w] = IF w = v THEN f[v] + 1 ELSE f[w]
  OBVIOUS
<1>2. \A p : p \in Each(f) <=> \E w \in Values : \E i \in 1..f[w] : p = <<w, i>>
  BY DEF Each
<1>3. \A p : p \in Each(g) <=> \E w \in Values : \E i \in 1..g[w] : p = <<w, i>>
  BY DEF Each
<1>4. ASSUME NEW p \in Each(g) PROVE p \in Each(f) \cup {<<v, f[v] + 1>>}
  <2>0. PICK w \in Values : \E i \in 1..g[w] : p = <<w, i>>
    BY Zenon, <1>3, <1>4
  <2>1. PICK i \in 1..g[w] : p = <<w, i>>
    BY <2>0
  <2>2. i \in 1..f[w] \/ (w = v /\ i = f[v] + 1)
    BY <1>1
  <2> QED
    BY <1>2, <2>1, <2>2
<1>5. ASSUME NEW p \in Each(f) PROVE p \in Each(g)
  <2>0. PICK w \in Values : \E i \in 1..f[w] : p = <<w, i>>
    BY <1>2, <1>5
  <2>1. PICK i \in 1..f[w] : p = <<w, i>>
    BY <2>0
  <2>2. i \in 1..g[w]
    BY <1>1
  <2> QED
    BY Zenon, <1>3, <2>1, <2>2
<1>6. <<v, f[v] + 1>> \in Each(g)
  <2>1. f[v] + 1 \in 1..g[v]
    BY <1>1
  <2> QED
    BY Zenon, <1>3, <2>1
<1>7. <<v, f[v] + 1>> \notin Each(f)
  <2> SUFFICES ASSUME NEW w \in Values, NEW i \in 1..f[w], <<v, f[v] + 1>> = <<w, i>>
               PROVE  FALSE
    BY <1>2
  <2> QED
    OBVIOUS
<1> QED
  BY Zenon, <1>4, <1>5, <1>6, <1>7

(* The count after a tag is made, and after one is released. *)
LEMMA CountMore ==
  ASSUME NEW f \in [Values -> Nat], NEW v \in Values, IsFiniteSet(Each(f))
  PROVE  /\ IsFiniteSet(Each([f EXCEPT ![v] = @ + 1]))
         /\ Cardinality(Each([f EXCEPT ![v] = @ + 1])) = Cardinality(Each(f)) + 1
<1>1. /\ IsFiniteSet(Each(f) \cup {<<v, f[v] + 1>>})
      /\ Cardinality(Each(f) \cup {<<v, f[v] + 1>>})
           = IF <<v, f[v] + 1>> \in Each(f) THEN Cardinality(Each(f))
             ELSE Cardinality(Each(f)) + 1
  BY Zenon, FS_AddElement
<1> QED
  BY Zenon, <1>1, EachMore

LEMMA CountLess ==
  ASSUME NEW f \in [Values -> Nat], NEW v \in Values, f[v] > 0, IsFiniteSet(Each(f))
  PROVE  /\ IsFiniteSet(Each([f EXCEPT ![v] = @ - 1]))
         /\ Cardinality(Each([f EXCEPT ![v] = @ - 1])) = Cardinality(Each(f)) - 1
<1> DEFINE g == [f EXCEPT ![v] = @ - 1]
<1>0. g \in [Values -> Nat] /\ g[v] + 1 = f[v] /\ \A w \in Values \ {v} : g[w] = f[w]
  OBVIOUS
<1>1. g \in [Values -> Nat] /\ f = [g EXCEPT ![v] = g[v] + 1]
  BY Zenon, <1>0
<1> HIDE DEF g
<1>2. Each(f) = Each(g) \cup {<<v, g[v] + 1>>} /\ <<v, g[v] + 1>> \notin Each(g)
  BY Zenon, <1>1, EachMore
<1>3. Each(g) = Each(f) \ {<<v, g[v] + 1>>} /\ <<v, g[v] + 1>> \in Each(f)
  BY <1>2
<1>4. IsFiniteSet(Each(g)) /\ Cardinality(Each(g)) = Cardinality(Each(f)) - 1
  <2>1. /\ IsFiniteSet(Each(f) \ {<<v, g[v] + 1>>})
        /\ Cardinality(Each(f) \ {<<v, g[v] + 1>>})
             = IF <<v, g[v] + 1>> \in Each(f) THEN Cardinality(Each(f)) - 1
               ELSE Cardinality(Each(f))
    BY FS_RemoveElement
  <2> QED
    BY <1>3, <2>1
<1> QED
  BY <1>4 DEF g

(* A number without tags has nothing to count. *)
LEMMA CountNone ==
  ASSUME NEW f, \A v \in Values : f[v] = 0
  PROVE  IsFiniteSet(Each(f)) /\ Cardinality(Each(f)) = 0
<1>1. Each(f) = {}
  BY DEF Each
<1> QED
  BY <1>1, FS_EmptySet

-----------------------------------------------------------------------------
(* What the lazy initialisation leaves of the table. *)
LEMMA CtIdsFacts ==
  ASSUME CtTypeOK
  PROVE  /\ CtIds \in [Nrs -> -1..MaxRef] /\ CtIdx \in Nrs /\ CtIdx >= 1
         /\ \A nr \in Nrs \ {0} : CtIds[nr] = ct_ids[nr]
         /\ \A nr \in Nrs : Succ(nr) \in Nrs
<1>1. 0 \in Nrs /\ 1 \in Nrs /\ NUMBER_OF_CTS \in Nat /\ NUMBER_OF_CTS > 1
      /\ MaxRef \in Nat /\ -1 \in -1..MaxRef
  BY CtConstants DEF Nrs
<1>2. \A nr \in Nrs : Succ(nr) \in Nrs
  BY <1>1 DEF Succ, Nrs
<1>3. CtIdx \in Nrs /\ CtIdx >= 1
  BY <1>1 DEF CtIdx, CtTypeOK, Nrs
<1>4. CtIds \in [Nrs -> -1..MaxRef] /\ \A nr \in Nrs \ {0} : CtIds[nr] = ct_ids[nr]
  BY <1>1 DEF CtIds, CtTypeOK
<1> QED
  BY <1>2, <1>3, <1>4

(* A call that fails leaves the counts. *)
LEMMA CtFailTable == TableInv /\ CtFail => TableInv'
<1> SUFFICES ASSUME TableInv, CtFail PROVE TableInv'
  OBVIOUS
<1>1. CtTypeOK'
  BY CtIdsFacts DEF TableInv, CtFail, CtTypeOK
<1>2. RefCount'
  BY CtIdsFacts DEF TableInv, CtFail, RefCount, TagsOf
<1> QED
  BY <1>1, <1>2 DEF TableInv, CtFail

(* So does a call of libdid. *)
LEMMA SameTable == TableInv /\ UNCHANGED <<ct_ids, ct_idx, tags, used>> /\ bare' \subseteq Values
                     => TableInv'
  BY DEF TableInv, CtTypeOK, RefCount, TagsOf

(* The number that ct_next_nr finds is neither 0 nor used up. *)
LEMMA NextNrFresh ==
  ASSUME CtTypeOK, NEW nr \in Nrs, NextNr(nr)
  PROVE  nr # 0 /\ CtIds[nr] # -1
<1>1. nr >= 1 /\ CtIds[nr] = 0
  BY CtIdsFacts DEF NextNr, IsFirst, NrAhead, NrBehind, Nrs
<1> QED
  BY <1>1

(* A tag of a number that is not used up is counted. *)
LEMMA MakeTagTable ==
  ASSUME TableInv, NEW nr \in Nrs, NEW v \in Values, NEW idx \in Nrs,
         CtIds[nr] # -1, MakeTag(nr, v, idx)
  PROVE  TableInv'
<1> DEFINE more == [tags[nr] EXCEPT ![v] = @ + 1]
<1>1. /\ CtIds \in [Nrs -> -1..MaxRef] /\ CtIds[nr] \in 0..(MaxRef - 1)
      /\ \A k \in Nrs \ {0} : CtIds[k] = ct_ids[k]
      /\ MaxRef \in Nat
  BY CtIdsFacts, CtConstants DEF TableInv, MakeTag
<1>2. /\ ct_ids' = [CtIds EXCEPT ![nr] = CtIds[nr] + 1] /\ ct_idx' = idx
      /\ tags' = [tags EXCEPT ![nr] = more]
      /\ used' = used \cup {nr} /\ bare' = bare \ {v}
  BY DEF MakeTag
<1>3. /\ tags \in [Nrs -> [Values -> Nat]] /\ tags[nr] \in [Values -> Nat]
      /\ more \in [Values -> Nat] /\ used \subseteq Nrs /\ bare \subseteq Values
  BY DEF TableInv, CtTypeOK
<1>4. /\ tags' \in [Nrs -> [Values -> Nat]] /\ tags'[nr] = more
      /\ \A k \in Nrs \ {nr} : tags'[k] = tags[k]
  BY <1>2, <1>3
<1>5. IsFiniteSet(Each(more)) /\ Cardinality(Each(more)) = Cardinality(Each(tags[nr])) + 1
  BY Zenon, <1>3, CountMore DEF TableInv
<1> HIDE DEF more
<1>6. CtTypeOK'
  BY <1>1, <1>2, <1>3, <1>4 DEF CtTypeOK
<1>7. \A k \in Nrs : /\ IsFiniteSet(Each(tags'[k]))
                     /\ k \notin used' => \A w \in Values : tags'[k][w] = 0
  BY <1>2, <1>4, <1>5 DEF TableInv
<1>8. ASSUME NEW k \in Nrs \ {0}
      PROVE  ct_ids'[k] = IF k \notin used' THEN 0
                          ELSE IF Cardinality(Each(tags'[k])) = 0 THEN -1
                          ELSE Cardinality(Each(tags'[k]))
  <2>1. ct_ids[k] = IF k \notin used THEN 0
                    ELSE IF Cardinality(Each(tags[k])) = 0 THEN -1
                    ELSE Cardinality(Each(tags[k]))
    BY DEF TableInv, RefCount, TagsOf
  <2>2. CASE k # nr
    BY <1>1, <1>2, <1>4, <2>1, <2>2
  <2>3. CASE k = nr
    <3>1. Cardinality(Each(tags[nr])) \in Nat
      BY FS_CardinalityType DEF TableInv
    <3>2. nr \notin used => Cardinality(Each(tags[nr])) = 0
      BY CountNone DEF TableInv
    <3>3. CtIds[nr] = Cardinality(Each(tags[nr]))
      BY <1>1, <2>1, <2>3, <3>1, <3>2
    <3>4. ct_ids'[nr] = CtIds[nr] + 1 /\ nr \in used'
      BY <1>1, <1>2
    <3> QED
      BY <1>4, <1>5, <2>3, <3>1, <3>3, <3>4
  <2> QED
    BY <2>2, <2>3
<1>9. RefCount'
  BY <1>8 DEF RefCount, TagsOf
<1> QED
  BY <1>6, <1>7, <1>9 DEF TableInv

(* A tag that is released is no longer counted, and a number whose last tag  *)
(* it was is used up.                                                        *)
LEMMA ReleaseTable ==
  ASSUME TableInv, NEW nr \in Nrs, NEW v \in Values, nr # 0, ct_ids[nr] >= 1,
         tags[nr][v] > 0,
         ct_ids' = [ct_ids EXCEPT ![nr] = AfterRelease(@)],
         tags' = [tags EXCEPT ![nr][v] = @ - 1],
         UNCHANGED <<ct_idx, used, bare>>
  PROVE  TableInv'
<1> DEFINE less == [tags[nr] EXCEPT ![v] = @ - 1]
<1>1. /\ ct_ids \in [Nrs -> -1..MaxRef] /\ MaxRef \in Nat
      /\ tags \in [Nrs -> [Values -> Nat]] /\ tags[nr] \in [Values -> Nat]
  BY CtConstants DEF TableInv, CtTypeOK
<1>2. less \in [Values -> Nat]
  BY <1>1
<1>3. /\ tags' \in [Nrs -> [Values -> Nat]] /\ tags'[nr] = less
      /\ \A k \in Nrs \ {nr} : tags'[k] = tags[k]
  BY <1>1, <1>2
<1>4. IsFiniteSet(Each(less)) /\ Cardinality(Each(less)) = Cardinality(Each(tags[nr])) - 1
  BY Zenon, <1>1, CountLess DEF TableInv
<1> HIDE DEF less
<1>5. CtTypeOK'
  BY <1>1, <1>3 DEF TableInv, CtTypeOK, AfterRelease
<1>6. nr \in used
  BY DEF TableInv
<1>7. \A k \in Nrs : /\ IsFiniteSet(Each(tags'[k]))
                     /\ k \notin used' => \A w \in Values : tags'[k][w] = 0
  BY Zenon, <1>3, <1>4, <1>6 DEF TableInv
<1>8. ASSUME NEW k \in Nrs \ {0}
      PROVE  ct_ids'[k] = IF k \notin used' THEN 0
                          ELSE IF Cardinality(Each(tags'[k])) = 0 THEN -1
                          ELSE Cardinality(Each(tags'[k]))
  <2>1. ct_ids[k] = IF k \notin used THEN 0
                    ELSE IF Cardinality(Each(tags[k])) = 0 THEN -1
                    ELSE Cardinality(Each(tags[k]))
    BY DEF TableInv, RefCount, TagsOf
  <2>2. CASE k # nr
    BY <1>1, <1>3, <2>1, <2>2
  <2>3. CASE k = nr
    <3>1. Cardinality(Each(tags[nr])) \in Nat
      BY FS_CardinalityType DEF TableInv
    <3>2. ct_ids[nr] = Cardinality(Each(tags[nr]))
      BY <1>6, <2>1, <2>3, <3>1
    <3>3. ct_ids'[nr] = IF ct_ids[nr] = 1 THEN -1 ELSE ct_ids[nr] - 1
      BY <1>1 DEF AfterRelease
    <3>4. Cardinality(Each(tags'[nr])) = ct_ids[nr] - 1 /\ nr \in used'
      BY Zenon, <1>3, <1>4, <1>6, <3>2
    <3>5. CASE ct_ids[nr] = 1
      BY <2>3, <3>3, <3>4, <3>5
    <3>6. CASE ct_ids[nr] # 1
      BY <1>1, <2>3, <3>3, <3>4, <3>6
    <3> QED
      BY <3>5, <3>6
  <2> QED
    BY <2>2, <2>3
<1>9. RefCount'
  BY <1>8 DEF RefCount, TagsOf
<1> QED
  BY <1>5, <1>7, <1>9 DEF TableInv

-----------------------------------------------------------------------------
(* What the calls of libdid do to the holders: only a release and an         *)
(* unreserve take an identifier away, and only the one that they name.       *)
LEMMA GivesOnly ==
  ASSUME IndInv, NEW v \in Values, Give(v)
  PROVE  /\ holders' \in [Values -> Nat]
         /\ holders'[v] = holders[v] + 1
         /\ \A w \in Values \ {v} : holders'[w] = holders[w]
  BY DEF IndInv, TypeOK, Give

LEMMA CreateGives ==
  ASSUME IndInv, NEW size \in AllSizes, DidCreate(size)
  PROVE  \/ holders' = holders
         \/ \E v \in Values : Give(v)
  BY DEF DidCreate, Fail

LEMMA ReleaseTakes ==
  ASSUME IndInv, NEW v \in Values, NEW size \in AllSizes, DidRelease(v, size)
  PROVE  /\ holders' # holders => holders[v] = 1 /\ holders'[v] = 0
         /\ \A w \in Values \ {v} : holders'[w] = holders[w]
<1>1. CASE holders' = holders
  BY <1>1
<1>2. CASE holders' # holders
  <2>1. Return(v) /\ holders[v] > 0
    BY <1>2 DEF DidRelease
  <2>2. holders[v] = 1
    BY <2>1 DEF IndInv, HeldInv
  <2> QED
    BY <2>1, <2>2 DEF Return, IndInv, TypeOK
<1> QED
  BY <1>1, <1>2

LEMMA ResrvGives ==
  ASSUME IndInv, NEW b \in Bases, DidGrpResrvDid(b)
  PROVE  \/ holders' = holders
         \/ \E v \in Values : Give(v)
<1>1. CASE holders' = holders
  BY <1>1
<1>2. CASE holders' # holders
  <2>1. PICK o \in Offsets : Give(b + Entry(b, o))
    BY <1>2 DEF DidGrpResrvDid
  <2>2. Entry(b, o) \in Offsets
    <3>1. o + next[b] \in Nat
      BY GrpSz DEF IndInv, TypeOK, Offsets
    <3> QED
      BY <3>1, Remainder DEF Entry
  <2> QED
    BY <2>1, <2>2, GroupInValues
<1> QED
  BY <1>1, <1>2

LEMMA UnresrvTakes ==
  ASSUME IndInv, NEW b \in Bases, NEW v \in Values, DidGrpUnresrvDid(b, v)
  PROVE  \A w \in Values \ {v} : holders'[w] = holders[w]
  BY DEF DidGrpUnresrvDid, Return, IndInv, TypeOK

(* A call of libdid takes no identifier away that has a tag, when callers    *)
(* keep their bare identifiers apart from the tags'.                         *)
LEMMA TaggedKept ==
  ASSUME IndInv, OneTag, bare \subseteq Values, DidCall, NEW v \in Values, Tagged(v)
  PROVE  holders'[v] >= holders[v]
<1>0. holders[v] \in Nat
  BY DEF IndInv, TypeOK
<1>1. CASE holders' = holders
  BY <1>0, <1>1
<1>2. ASSUME NEW w \in Values, Give(w) PROVE holders'[v] >= holders[v]
  BY <1>0, <1>2, GivesOnly
<1>3. ASSUME NEW w \in Values, NEW size \in Sizes, ~Tagged(w), DidRelease(w, size)
      PROVE  holders'[v] >= holders[v]
  <2>1. size \in AllSizes /\ v # w
    BY <1>3 DEF AllSizes
  <2> QED
    BY <1>0, <1>3, <2>1, ReleaseTakes
<1>4. ASSUME NEW b \in Bases, NEW w \in bare, DidGrpUnresrvDid(b, w)
      PROVE  holders'[v] >= holders[v]
  <2>1. v # w
    BY <1>4 DEF OneTag, Tagged
  <2> QED
    BY <1>0, <1>4, <2>1, UnresrvTakes
<1>5. ASSUME NEW size \in AllSizes, DidCreate(size) PROVE holders'[v] >= holders[v]
  BY <1>1, <1>2, <1>5, CreateGives
<1>6. ASSUME NEW w \in Values, NEW size \in Sizes, DidCreateFromData(w, size)
      PROVE  holders'[v] >= holders[v]
  BY <1>1, <1>2, <1>6 DEF DidCreateFromData, Fail
<1>7. ASSUME NEW b \in Bases, DidGrpResrvDid(b) PROVE holders'[v] >= holders[v]
  BY <1>1, <1>2, <1>7, ResrvGives
<1>8. DidGet \/ DidAllocDev16Grp \/ (\E w \in Values, size \in Sizes : DidFromValue(w, size))
        => holders' = holders
  BY DEF DidGet, DidAllocDev16Grp, DidFromValue, Fail
<1> QED
  BY <1>1, <1>3, <1>4, <1>5, <1>6, <1>7, <1>8 DEF DidCall

-----------------------------------------------------------------------------
(* The owners stay when no identifier is given, tagged or taken away. *)
LEMMA SameOwners ==
  OwnerInv /\ UNCHANGED <<holders, tags, bare>> => OwnerInv'
  BY DEF OwnerInv, NoOrphanDid, OneTag, Tagged

(* An identifier that was just given, or that was bare, gets its one tag. *)
LEMMA MakeTagOwner ==
  ASSUME CtTypeOK, OwnerInv, NEW nr \in Nrs, NEW v \in Values, NEW idx,
         MakeTag(nr, v, idx), holders[v] = 0 \/ v \in bare, holders'[v] = 1,
         \A w \in Values \ {v} : holders'[w] = holders[w]
  PROVE  OwnerInv'
<1>1. \A k \in Nrs : tags[k] \in [Values -> Nat]
  BY DEF CtTypeOK
<1>2. \A k \in Nrs : tags[k][v] = 0
  BY <1>1 DEF OwnerInv, NoOrphanDid, OneTag, Tagged
<1>3. /\ tags'[nr][v] = 1
      /\ \A k \in Nrs, w \in Values : k # nr \/ w # v => tags'[k][w] = tags[k][w]
      /\ bare' = bare \ {v}
  BY <1>1, <1>2 DEF MakeTag, CtTypeOK
<1>4. NoOrphanDid'
  BY <1>2, <1>3 DEF OwnerInv, NoOrphanDid, Tagged
<1>5. OneTag'
  BY <1>2, <1>3 DEF OwnerInv, OneTag
<1> QED
  BY <1>4, <1>5 DEF OwnerInv

(* The one tag of an identifier is released together with it. *)
LEMMA ReleaseOwner ==
  ASSUME CtTypeOK, OwnerInv, NEW nr \in Nrs, NEW v \in Values, tags[nr][v] > 0,
         tags' = [tags EXCEPT ![nr][v] = @ - 1], bare' = bare, holders'[v] = 0,
         \A w \in Values \ {v} : holders'[w] = holders[w]
  PROVE  OwnerInv'
<1>1. \A k \in Nrs : tags[k] \in [Values -> Nat]
  BY DEF CtTypeOK
<1>2. tags[nr][v] = 1 /\ v \notin bare /\ \A k \in Nrs \ {nr} : tags[k][v] = 0
  BY <1>1 DEF OwnerInv, OneTag
<1>3. /\ \A k \in Nrs : tags'[k][v] = 0
      /\ \A k \in Nrs, w \in Values \ {v} : tags'[k][w] = tags[k][w]
  BY <1>1, <1>2 DEF CtTypeOK
<1>4. NoOrphanDid'
  BY <1>2, <1>3 DEF OwnerInv, NoOrphanDid, Tagged
<1>5. OneTag'
  BY <1>3 DEF OwnerInv, OneTag
<1> QED
  BY <1>4, <1>5 DEF OwnerInv

(* What a caller of libdid is given is bare until it is released. *)
LEMMA DirectOwner ==
  ASSUME IndInv, IndInv', CtTypeOK, OwnerInv, DirectDid
  PROVE  OwnerInv'
<1>1. /\ \A v \in Values : holders[v] \in {0, 1} /\ holders'[v] \in {0, 1}
      /\ \A v \in Values : Tagged(v) => holders'[v] >= holders[v]
  BY TaggedKept DEF IndInv, HeldInv, CtTypeOK, OwnerInv, DirectDid
<1>2. /\ bare' = {v \in Values : holders'[v] > holders[v]}
                   \cup {v \in bare : holders'[v] = holders[v]}
      /\ tags' = tags /\ bare \subseteq Values
  BY DEF DirectDid, CtTypeOK
<1>3. NoOrphanDid'
  BY <1>1, <1>2 DEF OwnerInv, NoOrphanDid, Tagged
<1>4. OneTag'
  <2> SUFFICES ASSUME NEW v \in Values, NEW nr \in Nrs, tags[nr][v] > 0
               PROVE  /\ tags[nr][v] = 1 /\ v \notin bare'
                      /\ \A k \in Nrs : tags[k][v] > 0 => k = nr
    BY <1>2 DEF OneTag
  <2>1. holders[v] = 1 /\ v \notin bare
    BY <1>1 DEF OwnerInv, NoOrphanDid, OneTag, Tagged
  <2>2. v \notin bare'
    BY <1>1, <1>2, <2>1
  <2> QED
    BY <2>2 DEF OwnerInv, OneTag
<1> QED
  BY <1>3, <1>4 DEF OwnerInv

-----------------------------------------------------------------------------
(* Every step of Ct is one of libdid, or leaves it as it is. *)
LEMMA CtStepsDid == CtTypeOK /\ [CtNext]_ctvars => [Next]_vars
<1> SUFFICES ASSUME CtTypeOK, CtNext, ~UNCHANGED vars PROVE Next
  BY DEF ctvars
<1>1. Sizes \subseteq AllSizes /\ bare \subseteq Values
  BY DEF AllSizes, CtTypeOK
<1>2. ASSUME NEW size \in AllSizes, CtCreateAll(size) PROVE Next
  BY <1>2 DEF CtCreateAll, Next, dvars
<1>3. ASSUME NEW nr \in Nrs, NEW v \in Values, NEW size \in AllSizes,
             CtCreateFromData(nr, v, size)
      PROVE  Next
  BY <1>3 DEF CtCreateFromData, Next, DidGet
<1>4. ASSUME NEW nr \in Nrs, NEW v \in Values, CtCreateFromNrAndDid(nr, v) PROVE Next
  BY <1>4 DEF CtCreateFromNrAndDid, Next, dvars
<1>5. ASSUME NEW nr \in Nrs, NEW v \in Values, CtRelease(nr, v) PROVE Next
  BY <1>1, <1>5 DEF CtRelease, Next, ctvars
<1>6. ASSUME NEW v \in Values, CtCreateFromDid(v) PROVE Next
  BY <1>6 DEF CtCreateFromDid, Next, dvars
<1>7. ASSUME NEW v \in Values, CtFromValue(v) PROVE Next
  <2> DEFINE size == IF v > RIO_LAST_DEV8 THEN "dev16" ELSE "dev08"
  <2>1. size \in AllSizes
    BY DEF AllSizes, Sizes
  <2>2. DidFromValue(v, size)
    BY <1>7 DEF CtFromValue, dvars
  <2> QED
    BY <2>1, <2>2 DEF Next
<1>8. CASE DirectDid
  BY <1>1, <1>8 DEF DirectDid, DidCall, Next
<1> QED
  BY <1>2, <1>3, <1>4, <1>5, <1>6, <1>7, <1>8 DEF CtNext

(* The first values satisfy all of the invariants. *)
LEMMA CtInitInv == CtInit => IndInv /\ TableInv /\ OwnerInv
<1> SUFFICES ASSUME CtInit PROVE IndInv /\ TableInv /\ OwnerInv
  OBVIOUS
<1>1. IndInv
  BY InitInd DEF CtInit
<1>2. \A nr \in Nrs, v \in Values : tags[nr][v] = 0
  BY DEF CtInit
<1>3. CtTypeOK
  BY CtConstants DEF CtInit, CtTypeOK, Nrs
<1>4. \A nr \in Nrs : IsFiniteSet(Each(tags[nr]))
  BY <1>2, CountNone
<1>5. RefCount
  BY DEF CtInit, RefCount
<1>6. OwnerInv
  BY <1>2 DEF CtInit, Init, OwnerInv, NoOrphanDid, OneTag, Tagged
<1> QED
  BY <1>1, <1>2, <1>3, <1>4, <1>5, <1>6 DEF TableInv

(* Every step keeps the counts of the table. *)
LEMMA CtNextTable == TableInv /\ [CtNext]_ctvars => TableInv'
<1> SUFFICES ASSUME TableInv, [CtNext]_ctvars PROVE TableInv'
  OBVIOUS
<1>0. CtTypeOK /\ bare \subseteq Values /\ Values # {}
  BY GrpSz DEF TableInv, CtTypeOK, Reserved
<1>1. CASE UNCHANGED cvars
  BY <1>0, <1>1, SameTable DEF cvars
<1>2. CASE CtFail
  BY <1>2, CtFailTable
<1>3. ASSUME NEW nr \in Nrs, NEW v \in Values, NextNr(nr), MakeTag(nr, v, Succ(nr))
      PROVE  TableInv'
  BY <1>0, <1>3, CtIdsFacts, NextNrFresh, MakeTagTable
<1>4. ASSUME NEW nr \in Nrs, NEW v \in Values, CtIds[nr] # -1, MakeTag(nr, v, CtIdx)
      PROVE  TableInv'
  BY <1>0, <1>4, CtIdsFacts, MakeTagTable
<1>5. ASSUME NEW size \in AllSizes, CtCreateAll(size) PROVE TableInv'
  BY <1>2, <1>3, <1>5 DEF CtCreateAll
<1>6. ASSUME NEW nr \in Nrs, NEW v \in Values, NEW size \in AllSizes,
             CtCreateFromData(nr, v, size)
      PROVE  TableInv'
  BY <1>2, <1>4, <1>6 DEF CtCreateFromData
<1>7. ASSUME NEW nr \in Nrs, NEW v \in Values, CtCreateFromNrAndDid(nr, v)
      PROVE  TableInv'
  BY <1>2, <1>4, <1>7 DEF CtCreateFromNrAndDid
<1>8. ASSUME NEW nr \in Nrs, NEW v \in Values, CtRelease(nr, v) PROVE TableInv'
  BY <1>1, <1>8, ReleaseTable DEF CtRelease, ctvars, cvars
<1>9. ASSUME NEW v \in Values, CtCreateFromDid(v) PROVE TableInv'
  BY <1>2, <1>3, <1>9 DEF CtCreateFromDid
<1>10. ASSUME NEW v \in Values, CtFromValue(v) PROVE TableInv'
  <2>1. CASE /\ CtIds[0] < MaxRef
             /\ ct_ids' = [CtIds EXCEPT ![0] = @ + 1] /\ ct_idx' = CtIdx
             /\ UNCHANGED <<tags, used, bare>>
    <3>1. /\ CtIds \in [Nrs -> -1..MaxRef] /\ 0 \in Nrs /\ CtIdx \in Nrs /\ MaxRef \in Nat
          /\ \A k \in Nrs \ {0} : CtIds[k] = ct_ids[k]
      BY SMTT(60), <1>0, CtIdsFacts, CtConstants DEF Nrs
    <3>2. /\ ct_ids' \in [Nrs -> -1..MaxRef]
          /\ \A k \in Nrs \ {0} : ct_ids'[k] = ct_ids[k]
      BY <2>1, <3>1
    <3>3. CtTypeOK'
      BY <1>0, <2>1, <3>1, <3>2 DEF CtTypeOK
    <3>4. RefCount'
      BY <2>1, <3>2 DEF TableInv, RefCount, TagsOf
    <3> QED
      BY <2>1, <3>3, <3>4 DEF TableInv
  <2> QED
    BY <1>2, <1>10, <2>1 DEF CtFromValue
<1>11. CASE DirectDid
  <2>1. bare' \subseteq Values
    BY <1>0, <1>11 DEF DirectDid
  <2> QED
    BY <1>11, <2>1, SameTable DEF DirectDid
<1> QED
  BY <1>1, <1>5, <1>6, <1>7, <1>8, <1>9, <1>10, <1>11 DEF CtNext, ctvars, cvars

(* Every step keeps the owners, when callers share no identifier. *)
LEMMA CtNextOwner ==
  ASSUME ~Share, IndInv, IndInv', TableInv, OwnerInv, [CtNext]_ctvars
  PROVE  OwnerInv'
<1>0. /\ CtTypeOK /\ holders \in [Values -> Nat]
      /\ \A v \in Values : holders[v] \in {0, 1} /\ holders'[v] \in {0, 1}
  BY DEF TableInv, IndInv, TypeOK, HeldInv
<1>1. CASE UNCHANGED <<holders, tags, bare>>
  BY <1>1, SameOwners
<1>2. CASE CtFail /\ holders' = holders
  BY <1>1, <1>2 DEF CtFail
<1>3. ASSUME NEW nr \in Nrs, NEW v \in Values, NEW idx, Give(v), MakeTag(nr, v, idx)
      PROVE  OwnerInv'
  <2>1. /\ holders'[v] = holders[v] + 1
        /\ \A w \in Values \ {v} : holders'[w] = holders[w]
    BY <1>3, GivesOnly
  <2>2. holders[v] = 0 /\ holders'[v] = 1
    BY <1>0, <2>1
  <2> QED
    BY <1>0, <1>3, <2>1, <2>2, MakeTagOwner
<1>4. ASSUME NEW nr \in Nrs, NEW v \in Values, NEW idx, MayTag(v), InUseDid(v),
             holders' = holders, MakeTag(nr, v, idx)
      PROVE  OwnerInv'
  <2>1. v \in bare
    BY <1>4 DEF MayTag, InUseDid
  <2>2. holders[v] = 1
    BY <1>0, <2>1 DEF OwnerInv, NoOrphanDid
  <2> QED
    BY <1>0, <1>4, <2>1, <2>2, MakeTagOwner
<1>5. ASSUME NEW size \in AllSizes, CtCreateAll(size) PROVE OwnerInv'
  <2>1. ASSUME NEW nr \in Nrs, NEW v \in Values, DidCreate(size),
               holders'[v] > holders[v], MakeTag(nr, v, Succ(nr))
        PROVE  OwnerInv'
    <3>1. PICK w \in Values : Give(w)
      BY <1>0, <2>1, CreateGives
    <3>2. v = w
      BY <1>0, <2>1, <3>1, GivesOnly
    <3> QED
      BY <1>3, <2>1, <3>1, <3>2
  <2>2. CASE \A nr \in Nrs : ~NextNr(nr)
    BY <1>2, <1>5, <2>2 DEF CtCreateAll, dvars, vars
  <2> QED
    BY <1>2, <1>5, <2>1, <2>2 DEF CtCreateAll
<1>6. ASSUME NEW nr \in Nrs, NEW v \in Values, NEW size \in AllSizes,
             CtCreateFromData(nr, v, size)
      PROVE  OwnerInv'
  BY <1>2, <1>3, <1>6 DEF CtCreateFromData, DidCreateFromData, Fail
<1>7. ASSUME NEW nr \in Nrs, NEW v \in Values, CtCreateFromNrAndDid(nr, v)
      PROVE  OwnerInv'
  BY <1>2, <1>4, <1>7 DEF CtCreateFromNrAndDid, DidGet, Fail, dvars, vars
<1>8. ASSUME NEW nr \in Nrs, NEW v \in Values, CtRelease(nr, v) PROVE OwnerInv'
  <2>1. CASE UNCHANGED ctvars
    BY <1>1, <2>1 DEF ctvars, cvars, vars
  <2>2. CASE ~UNCHANGED ctvars
    <3>1. PICK size \in Sizes : DidRelease(v, size)
      BY <1>8, <2>2 DEF CtRelease
    <3>2. size \in AllSizes
      BY DEF AllSizes
    <3>3. /\ holders' # holders => holders'[v] = 0
          /\ \A w \in Values \ {v} : holders'[w] = holders[w]
      BY <3>1, <3>2, ReleaseTakes
    <3> QED
      BY <1>0, <1>1, <1>8, <2>2, <3>3, ReleaseOwner DEF CtRelease
  <2> QED
    BY <2>1, <2>2
<1>9. ASSUME NEW v \in Values, CtCreateFromDid(v) PROVE OwnerInv'
  BY <1>2, <1>4, <1>9 DEF CtCreateFromDid, DidGet, Fail, dvars, vars
<1>10. ASSUME NEW v \in Values, CtFromValue(v) PROVE OwnerInv'
  BY <1>1, <1>10 DEF CtFromValue, DidFromValue, Fail, CtFail, dvars, vars
<1>11. CASE DirectDid
  BY <1>0, <1>11, DirectOwner
<1> QED
  BY <1>1, <1>5, <1>6, <1>7, <1>8, <1>9, <1>10, <1>11 DEF CtNext, ctvars, cvars, vars

-----------------------------------------------------------------------------
(* The table stays in range and counts its tags, whatever callers share:     *)
(* through create, wrap around and release, a number's count is that of its  *)
(* tags, 0 before the first and -1 after the last.                           *)
THEOREM RefCountExact == CtSpec => [](CtTypeOK /\ RefCount)
<1>1. TableInv => CtTypeOK /\ RefCount
  BY DEF TableInv
<1> QED
  BY CtInitInv, CtNextTable, <1>1, PTL DEF CtSpec

(* libct implements libdid's specification: creating and releasing tags does *)
(* to the identifiers only what direct callers of libdid may do.             *)
THEOREM CtImplementsDid == CtSpec => Spec
<1>1. CtInit => Init
  BY DEF CtInit
<1>2. TableInv => CtTypeOK
  BY DEF TableInv
<1> QED
  BY CtInitInv, CtNextTable, CtStepsDid, <1>1, <1>2, PTL DEF CtSpec, Spec

(* So no identifier is given to two callers, with or without a tag. *)
THEOREM CtUniqueDid == CtSpec => []UniqueDid
  BY CtImplementsDid, Uniqueness, PTL

(* The invariants of libdid, of the table and of the owners hold together,   *)
(* when callers make one tag for an identifier.                              *)
LEMMA CtOwned == ~Share => (CtSpec => [](IndInv /\ TableInv /\ OwnerInv))
<1> SUFFICES ASSUME ~Share PROVE CtSpec => [](IndInv /\ TableInv /\ OwnerInv)
  OBVIOUS
<1> DEFINE Inv == IndInv /\ TableInv /\ OwnerInv
<1>1. CtInit => Inv
  BY CtInitInv
<1>2. Inv /\ [CtNext]_ctvars => Inv'
  <2> SUFFICES ASSUME Inv, [CtNext]_ctvars PROVE Inv'
    OBVIOUS
  <2>1. IndInv'
    BY CtStepsDid, NextInd DEF TableInv
  <2>2. TableInv'
    BY CtNextTable
  <2>3. OwnerInv'
    BY <2>1, CtNextOwner
  <2> QED
    BY <2>1, <2>2, <2>3
<1> QED
  BY <1>1, <1>2, PTL DEF CtSpec

(* When callers make one tag for an identifier, every identifier that was    *)
(* given belongs to a caller or to a tag: ct_create_all and                  *)
(* ct_create_from_data leave none behind on an error, and ct_release frees   *)
(* the identifier with the tag.                                              *)
THEOREM NoDidOrphaned == ~Share => (CtSpec => []NoOrphanDid)
<1>1. OwnerInv => NoOrphanDid
  BY DEF OwnerInv
<1> QED
  BY CtOwned, <1>1, PTL

(* And a tag's identifier stays in use, so that libdid gives it to nobody    *)
(* else, as long as the tag is not released.                                 *)
THEOREM TagsKeepDids == ~Share => (CtSpec => []TagHasDid)
<1>1. IndInv /\ OwnerInv => TagHasDid
  BY DEF OwnerInv, NoOrphanDid, TagHasDid, Tagged, IndInv, HeldInv
<1> QED
  BY CtOwned, <1>1, PTL
=============================================================================
