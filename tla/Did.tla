-------------------------------- MODULE Did --------------------------------
(***************************************************************************)
(* The allocator of RapidIO device identifiers (libdid/src/did.c).         *)
(*                                                                         *)
(* did_ids[v] is the size under which value v is in use, or invld.  An     *)
(* 8-bit and a 16-bit identifier of one value are the same identifier.     *)
(* Switches take whole groups of identifiers and hand them out themselves. *)
(*                                                                         *)
(* holders[v] counts the callers that were given v and have not released   *)
(* it; a caller releases only what it holds.                               *)
(***************************************************************************)
EXTENDS Naturals

CONSTANTS RIO_LAST_DEV8, RIO_LAST_DEV16

GRP_SZ == RIO_LAST_DEV8 + 1   \* RIO_RT_GRP_SZ

ASSUME DidConstants ==
  /\ RIO_LAST_DEV8 \in Nat \ {0} /\ RIO_LAST_DEV16 \in Nat
  /\ RIO_LAST_DEV16 > RIO_LAST_DEV8
  /\ (RIO_LAST_DEV16 + 1) % GRP_SZ = 0

VARIABLES did_ids, did_idx,   \* the allocator
          l_dev16, next,      \* by base: a group's entries in use, its cursor
          holders             \* how many callers hold each value

vars == <<did_ids, did_idx, l_dev16, next, holders>>

invld_sz == "invld"
Sizes == {"dev08", "dev16"}
AllSizes == Sizes \cup {invld_sz}   \* dev32 and all others are refused alike
Values == 0..RIO_LAST_DEV16
Bases == {b \in Values : b % GRP_SZ = 0}
Offsets == 0..(GRP_SZ - 1)

(* A group that was never allocated has no entries. *)
NoGroup == {}
Allocated(b) == l_dev16[b] # NoGroup

Init ==
  /\ did_ids = [v \in Values |-> invld_sz] /\ did_idx = 0
  /\ l_dev16 = [b \in Bases |-> NoGroup] /\ next = [b \in Bases |-> 0]
  /\ holders = [v \in Values |-> 0]

-----------------------------------------------------------------------------
(* The table and the cursor after the lazy initialisation each call begins with. *)
Ids == IF did_idx # 0 THEN did_ids
       ELSE [v \in Values |-> IF v \in {0, RIO_LAST_DEV8} THEN "dev08"
                              ELSE IF v = RIO_LAST_DEV16 THEN "dev16" ELSE invld_sz]
Idx == IF did_idx # 0 THEN did_idx ELSE 1

Free(v) == Ids[v] = invld_sz

(* A value that is refused for a size, with EINVAL or EPERM. *)
Refused(v, size) == \/ v \in {0, RIO_LAST_DEV8} \/ size \notin Sizes
                    \/ size = "dev08" /\ v > RIO_LAST_DEV8
                    \/ size = "dev16" /\ v >= RIO_LAST_DEV16

Give(v) == holders' = [holders EXCEPT ![v] = @ + 1]
Return(v) == holders' = [holders EXCEPT ![v] = @ - 1]

(* A call that reports an error has only initialised the table. *)
Fail ==
  /\ did_ids' = Ids /\ did_idx' = Idx
  /\ UNCHANGED <<l_dev16, next, holders>>

-----------------------------------------------------------------------------
(* did_create: the first free value from the cursor on, else from 1 on. *)
Upb(size) == IF size = "dev08" THEN RIO_LAST_DEV8 ELSE RIO_LAST_DEV16
Ahead(size) == {v \in Values : Idx <= v /\ v < Upb(size) /\ Free(v)}
Behind == {v \in Values : 1 <= v /\ v < Idx /\ Free(v)}
IsFirst(v, S) == v \in S /\ \A w \in S : v <= w

Found(v, size) == \/ IsFirst(v, Ahead(size))
                  \/ Ahead(size) = {} /\ IsFirst(v, Behind)

DidCreate(size) ==
  \/ /\ size \in Sizes
     /\ \E v \in Values :
          /\ Found(v, size)
          /\ did_ids' = [Ids EXCEPT ![v] = size] /\ did_idx' = v + 1
          /\ Give(v)
     /\ UNCHANGED <<l_dev16, next>>
  \/ size \in Sizes /\ (\A v \in Values : ~Found(v, size)) /\ Fail
  \/ size \notin Sizes /\ Fail

(* Faulty variant: a value in use under another size is given again. *)
NotUnique(v, size) == Ids[v] = size

(* did_create_from_data: a value that is in use, under any size, is refused. *)
InUse(v, size) == ~Free(v)

DidCreateFromData(v, size) ==
  IF Refused(v, size) \/ InUse(v, size)
    THEN Fail
    ELSE /\ did_ids' = [Ids EXCEPT ![v] = size] /\ did_idx' = Idx
         /\ Give(v)
         /\ UNCHANGED <<l_dev16, next>>

(* did_from_value: as carried by a message; the value is known, not given. *)
DidFromValue(v, size) ==
  IF Refused(v, size)
    THEN Fail
    ELSE /\ did_ids' = IF Free(v) THEN [Ids EXCEPT ![v] = size] ELSE Ids
         /\ did_idx' = Idx
         /\ UNCHANGED <<l_dev16, next, holders>>

(* did_get: tells whether a value is in use; it changes nothing else. *)
DidGet == Fail

(* did_release: by the caller that holds v, with the size it was given, or  *)
(* of a value that is not in use any more.  There is no lazy initialisation *)
(* here.                                                                    *)
DidRelease(v, size) ==
  /\ did_ids[v] = invld_sz \/ (holders[v] > 0 /\ size = did_ids[v])
  /\ IF Refused(v, size) \/ did_ids[v] = invld_sz
       THEN UNCHANGED <<did_ids, holders>>
       ELSE did_ids' = [did_ids EXCEPT ![v] = invld_sz] /\ Return(v)
  /\ UNCHANGED <<did_idx, l_dev16, next>>

-----------------------------------------------------------------------------
(* did_alloc_dev16_grp: the first group from the cursor on that is free,    *)
(* apart from the three values that are never given.  Group 0 can be free   *)
(* again once all that it gave was released with did_release; the group     *)
(* allocated then replaces the earlier one.                                 *)
Reserved == {0, RIO_LAST_DEV8, RIO_LAST_DEV16}
GroupStart == ((Idx - 1 + GRP_SZ - 1) \div GRP_SZ) * GRP_SZ

(* Faulty variant: only the first entry of the group is looked at. *)
GroupHeadFree(b) == b \in Reserved \/ Free(b)

GroupFree(b) == \A o \in Offsets : b + o \in Reserved \/ Free(b + o)

FreeGroups == {b \in Bases : GroupStart <= b /\ GroupFree(b)}

DidAllocDev16Grp ==
  \/ FreeGroups = {} /\ Fail
  \/ /\ \E b \in Bases :
          /\ IsFirst(b, FreeGroups)
          /\ did_ids' = [v \in Values |->
                           IF /\ b <= v /\ v < b + GRP_SZ
                              /\ v \notin {RIO_LAST_DEV8, RIO_LAST_DEV16}
                           THEN "dev16" ELSE Ids[v]]
          /\ l_dev16' = [l_dev16 EXCEPT ![b] = {0, GRP_SZ - 1}]
          /\ next' = [next EXCEPT ![b] = 1]
          /\ did_idx' = b + GRP_SZ
     /\ UNCHANGED holders

(* did_grp_resrv_did: the first free entry from the group's cursor on, in *)
(* cyclic order.                                                          *)
Entry(b, o) == (o + next[b]) % GRP_SZ
FreeSteps(b) == {o \in Offsets : Entry(b, o) \notin l_dev16[b]}

DidGrpResrvDid(b) ==
  /\ Allocated(b)
  /\ \/ /\ next[b] < GRP_SZ
        /\ \E o \in Offsets :
             /\ IsFirst(o, FreeSteps(b))
             /\ l_dev16' = [l_dev16 EXCEPT ![b] = @ \cup {Entry(b, o)}]
             /\ next' = [next EXCEPT ![b] = (Entry(b, o) + 1) % GRP_SZ]
             /\ Give(b + Entry(b, o))
     \/ /\ next[b] >= GRP_SZ \/ FreeSteps(b) = {}
        /\ next' = [next EXCEPT ![b] = GRP_SZ]
        /\ UNCHANGED <<l_dev16, holders>>
  /\ UNCHANGED <<did_ids, did_idx>>

(* did_grp_unresrv_did of an identifier that the caller holds. *)
DidGrpUnresrvDid(b, v) ==
  /\ Allocated(b) /\ holders[v] > 0
  /\ LET o == v % GRP_SZ
         refused == did_ids[v] # "dev16" \/ v - o # b \/ o \in {0, GRP_SZ - 1}
     IN \/ /\ refused /\ UNCHANGED <<l_dev16, next, holders>>
        \/ /\ ~refused
           /\ l_dev16' = [l_dev16 EXCEPT ![b] = @ \ {o}]
           /\ next' = [next EXCEPT ![b] = IF @ >= GRP_SZ THEN o ELSE @]
           /\ Return(v)
  /\ UNCHANGED <<did_ids, did_idx>>

Next ==
  \/ \E size \in AllSizes : DidCreate(size)
  \/ \E v \in Values, size \in AllSizes :
       DidCreateFromData(v, size) \/ DidFromValue(v, size) \/ DidRelease(v, size)
  \/ DidGet \/ DidAllocDev16Grp
  \/ \E b \in Bases : DidGrpResrvDid(b)
  \/ \E b \in Bases, v \in Values : DidGrpUnresrvDid(b, v)

Spec == Init /\ [][Next]_vars

-----------------------------------------------------------------------------
(* Type correctness of the table, the cursor, the groups and the results. *)
TypeOK ==
  /\ did_ids \in [Values -> Sizes \cup {invld_sz}]
  /\ did_idx \in 0..(RIO_LAST_DEV16 + 1)
  /\ l_dev16 \in [Bases -> SUBSET Offsets] /\ next \in [Bases -> 0..GRP_SZ]
  /\ holders \in [Values -> Nat]

(* No identifier is given to two callers, whether it comes from did_create,  *)
(* did_create_from_data or a switch's group, and whatever its size: "a       *)
(* device Id with a size of dev08 and value XX is equivalent to a device Id  *)
(* of dev16 of 00XX".                                                        *)
UniqueDid == \A v \in Values : holders[v] <= 1

(* The values 0, 0xff and 0xffff are never given to anybody. *)
ReservedNeverGiven == \A v \in Reserved : holders[v] = 0

(* did_create reports ENOBUFS only when every value of the size is in use. *)
NobufsMeansFull ==
  \A size \in Sizes :
    (\A v \in Values : ~Found(v, size))
      => \A v \in Values : (1 <= v /\ v < Upb(size)) => ~Free(v)

-----------------------------------------------------------------------------
(* What the documentation says and the code does not do. *)

(* did.c:241: "Release a device Id": what a caller was given can be released; *)
(* did_release does not refuse it as out of range.                            *)
ReleaseWorks ==
  \A v \in Values : holders[v] > 0 => ~Refused(v, did_ids[v])

(* did.c:520: "no free group is available" is what ENOBUFS of                *)
(* did_alloc_dev16_grp says.                                                 *)
GroupNobufsMeansFull ==
  FreeGroups = {} => \A b \in Bases : ~GroupFree(b)
=============================================================================
