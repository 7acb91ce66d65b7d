-------------------------------- MODULE Ct ---------------------------------
(***************************************************************************)
(* Component tags (libct/src/ct.c) on top of the device identifiers.       *)
(*                                                                         *)
(* A tag is a number nr with a device identifier.  ct_ids[nr] counts the   *)
(* tags of nr: 0 if nr was never used, -1 once its last tag was released.  *)
(*                                                                         *)
(* tags[nr][v] counts the tags <<nr, v>> that callers have and did not     *)
(* release, used the numbers that some tag had, bare the identifiers that  *)
(* callers of libdid have and that have no tag.                            *)
(***************************************************************************)
EXTENDS Did, Integers, FiniteSets

CONSTANTS NUMBER_OF_CTS,
          MaxRef,       \* bound on the tags of one number
          Share         \* whether callers make several tags for one identifier

ASSUME CtConstants ==
  /\ NUMBER_OF_CTS \in Nat /\ NUMBER_OF_CTS > 1 /\ MaxRef \in Nat \ {0}
  /\ Share \in BOOLEAN

VARIABLES ct_ids, ct_idx, tags, used, bare

dvars == vars
cvars == <<ct_ids, ct_idx, tags, used, bare>>
ctvars == <<vars, cvars>>

Nrs == 0..(NUMBER_OF_CTS - 1)

CtInit ==
  /\ Init
  /\ ct_ids = [nr \in Nrs |-> 0] /\ ct_idx = 0
  /\ tags = [nr \in Nrs |-> [v \in Values |-> 0]] /\ used = {} /\ bare = {}

-----------------------------------------------------------------------------
(* The table and the cursor after initialize(), which runs whenever the *)
(* cursor is 0: at the first call and when the cursor wrapped around.   *)
CtIds == IF ct_idx = 0 THEN [ct_ids EXCEPT ![0] = -1] ELSE ct_ids
CtIdx == IF ct_idx = 0 THEN 1 ELSE ct_idx

(* ct_next_nr: the first free number from the cursor on, else from 1 on. *)
NrAhead == {nr \in Nrs : CtIdx <= nr /\ CtIds[nr] = 0}
NrBehind == {nr \in Nrs : 1 <= nr /\ nr < CtIdx /\ CtIds[nr] = 0}
NextNr(nr) == IsFirst(nr, NrAhead) \/ (NrAhead = {} /\ IsFirst(nr, NrBehind))

Tagged(v) == \E nr \in Nrs : tags[nr][v] > 0

(* The tag <<nr, v>> is made, and the cursor moved to idx. *)
MakeTag(nr, v, idx) ==
  /\ CtIds[nr] < MaxRef
  /\ ct_ids' = [CtIds EXCEPT ![nr] = @ + 1] /\ ct_idx' = idx
  /\ tags' = [tags EXCEPT ![nr][v] = @ + 1] /\ used' = used \cup {nr}
  /\ bare' = bare \ {v}

(* A call that reports an error has only initialised the table. *)
CtFail == ct_ids' = CtIds /\ ct_idx' = CtIdx /\ UNCHANGED <<tags, used, bare>>

(* The cursor after nr is a 16-bit number. *)
Succ(nr) == (nr + 1) % NUMBER_OF_CTS

-----------------------------------------------------------------------------
CtCreateAll(size) ==
  \/ (\A nr \in Nrs : ~NextNr(nr)) /\ CtFail /\ UNCHANGED dvars
  \/ \E nr \in Nrs :
       /\ NextNr(nr) /\ DidCreate(size)
       /\ \/ holders' = holders /\ CtFail
          \/ \E v \in Values : holders'[v] > holders[v] /\ MakeTag(nr, v, Succ(nr))

(* Faulty variant: the identifier is not looked up. *)
InUseDidUnchecked(v) == v \notin Reserved

(* What did_get accepts. *)
InUseDid(v) == v \notin Reserved /\ v < RIO_LAST_DEV16 /\ ~Free(v)

(* A caller makes a tag for an identifier of its own; one that it does not *)
(* share has no tag yet.                                                   *)
MayTag(v) == v \notin bare /\ v \notin Reserved /\ ~Free(v) => Share /\ Tagged(v)

CtCreateFromNrAndDid(nr, v) ==
  /\ MayTag(v)
  /\ \/ CtIds[nr] = -1 /\ CtFail /\ UNCHANGED dvars
     \/ CtIds[nr] # -1 /\ ~InUseDid(v) /\ CtFail /\ DidGet
     \/ CtIds[nr] # -1 /\ InUseDid(v) /\ MakeTag(nr, v, CtIdx) /\ DidGet

(* Faulty variant: the identifier stays when the tag cannot be made. *)
CtCreateFromDataLeak(nr, v, size) ==
  \/ DidCreateFromData(v, size) /\ (holders' = holders \/ CtIds[nr] = -1) /\ CtFail
  \/ DidCreateFromData(v, size) /\ holders' # holders /\ CtIds[nr] # -1
     /\ MakeTag(nr, v, CtIdx)

(* The identifier is created, then the tag; if that fails because the *)
(* number is used up the identifier is released again.                *)
CtCreateFromData(nr, v, size) ==
  IF Refused(v, size) \/ InUse(v, size) \/ CtIds[nr] = -1
    THEN Fail /\ CtFail
    ELSE DidCreateFromData(v, size) /\ MakeTag(nr, v, CtIdx)

CtCreateFromDid(v) ==
  /\ MayTag(v)
  /\ \/ (\A nr \in Nrs : ~NextNr(nr)) /\ CtFail /\ UNCHANGED dvars
     \/ \E nr \in Nrs :
          /\ NextNr(nr) /\ DidGet
          /\ IF InUseDid(v) THEN MakeTag(nr, v, Succ(nr)) ELSE CtFail

(* did_not_inuse reports a refused value with an error, which is not 0.      *)
(* The number is masked without being shifted: it is truncated to 0.         *)
CtFromValue(v) ==
  LET size == IF v > RIO_LAST_DEV8 THEN "dev16" ELSE "dev08" IN
  IF Refused(v, size) \/ did_ids[v] # invld_sz
    THEN /\ CtIds[0] < MaxRef
         /\ ct_ids' = [CtIds EXCEPT ![0] = @ + 1] /\ ct_idx' = CtIdx
         /\ UNCHANGED <<dvars, tags, used, bare>>
    ELSE DidFromValue(v, size) /\ CtFail

(* Faulty variant: a number whose last tag was released is free again. *)
AfterReleaseRecycled(n) == n - 1

AfterRelease(n) == IF n = 1 THEN -1 ELSE n - 1

(* ct_release of a tag the caller has, with the tag's identifier. *)
CtRelease(nr, v) ==
  /\ tags[nr][v] > 0
  /\ \/ (nr = 0 \/ ct_ids[nr] < 1) /\ UNCHANGED ctvars
     \/ /\ nr # 0 /\ ct_ids[nr] >= 1
        /\ \E size \in Sizes : DidRelease(v, size)
        /\ \/ /\ holders' # holders
              /\ ct_ids' = [ct_ids EXCEPT ![nr] = AfterRelease(@)]
              /\ tags' = [tags EXCEPT ![nr][v] = @ - 1]
           \/ holders' = holders /\ UNCHANGED <<ct_ids, tags>>
        /\ UNCHANGED <<ct_idx, used, bare>>

(* The functions of libdid as called directly, by callers that release and *)
(* unreserve only what is their own.                                       *)
DidCall ==
  \/ DidGet \/ DidAllocDev16Grp
  \/ \E size \in AllSizes : DidCreate(size)
  \/ \E v \in Values, size \in Sizes :
       \/ DidCreateFromData(v, size) \/ DidFromValue(v, size)
       \/ ~Tagged(v) /\ DidRelease(v, size)
  \/ \E b \in Bases : DidGrpResrvDid(b)
  \/ \E b \in Bases, v \in bare : DidGrpUnresrvDid(b, v)

DirectDid ==
  /\ DidCall
  /\ bare' = {v \in Values : holders'[v] > holders[v]}
                \cup {v \in bare : holders'[v] = holders[v]}
  /\ UNCHANGED <<ct_ids, ct_idx, tags, used>>

CtNext ==
  \/ \E size \in AllSizes : CtCreateAll(size)
  \/ \E nr \in Nrs, v \in Values, size \in AllSizes : CtCreateFromData(nr, v, size)
  \/ \E nr \in Nrs, v \in Values : CtCreateFromNrAndDid(nr, v) \/ CtRelease(nr, v)
  \/ \E v \in Values : CtCreateFromDid(v) \/ CtFromValue(v)
  \/ DirectDid

CtSpec == CtInit /\ [][CtNext]_ctvars

-----------------------------------------------------------------------------
(* The tags of nr, counted one by one: the i-th tag <<nr, v>> is <<v, i>>. *)
Each(count) == UNION {{v} \X (1..count[v]) : v \in Values}
TagsOf(nr) == Cardinality(Each(tags[nr]))

(* Type correctness of the table, its cursor and the histories. *)
CtTypeOK ==
  /\ ct_ids \in [Nrs -> -1..MaxRef] /\ ct_idx \in Nrs
  /\ tags \in [Nrs -> [Values -> Nat]]
  /\ used \subseteq Nrs /\ bare \subseteq Values

(* ct_ids counts the tags of each number exactly, through every create, wrap  *)
(* around and release, and tells a number that was never used (0) from one    *)
(* that is used up (-1): "when the last did is released, do not recycle the   *)
(* nr".                                                                       *)
RefCount ==
  \A nr \in Nrs \ {0} :
    ct_ids[nr] = IF nr \notin used THEN 0
                 ELSE IF TagsOf(nr) = 0 THEN -1 ELSE TagsOf(nr)

(* An identifier that was given belongs to a tag, or to the caller that made *)
(* it directly: no call that fails, and no release, leaves one behind.       *)
NoOrphanDid ==
  \A v \in Values : holders[v] > 0 <=> (v \in bare \/ Tagged(v))

(* A tag's identifier is in use as long as the tag is: no other caller can   *)
(* be given it.                                                              *)
TagHasDid == \A nr \in Nrs, v \in Values : tags[nr][v] > 0 => did_ids[v] # invld_sz

-----------------------------------------------------------------------------
(* What the documentation says and the code does not do. *)

(* ct.c:222: "-ENOTUNIQ the specified component tag was already in use": no  *)
(* tag is made twice.                                                        *)
TagUnique == \A nr \in Nrs, v \in Values : tags[nr][v] <= 1

(* ct.c:53: "1 - UINT16_MAX are available for use": number 0 is not.         *)
NrZeroUnavailable == ct_idx # 0 => ct_ids[0] = -1
=============================================================================
