------------------------------ MODULE CouponSync ------------------------------
(***************************************************************************)
(* A coupon code of the CRM and its copies in the two WooCommerce stores.  *)
(*                                                                         *)
(*   apps/api/src/coupons/coupons.service.ts                               *)
(*   apps/api/src/coupons/coupon-sync.service.ts                           *)
(*   apps/api/src/coupons/coupons.repository.ts                            *)
(*                                                                         *)
(* Creating and editing touch the local row only.  Publishing and deleting *)
(* call both stores at once, each call with an outcome of its own.  The    *)
(* rows of the model are those that one code has in turn: the code is      *)
(* unique, in the CRM and in each store.                                   *)
(***************************************************************************)
EXTENDS Naturals, FiniteSets

CONSTANTS
    Store,      \* SERATUS and PALI
    CouponRequest,    \* HTTP requests that may be in progress together
    MaxCoupons,    \* bound: how often the code is created
    MaxIds,     \* bound: identifiers a store gives
    MaxLate,    \* bound: late calls at a time
    Faulty      \* may the process restart, or a write fail?

CouponId == 1..MaxCoupons
NoId == 0
Id == 1..MaxIds

ASSUME CouponAssumption ==
    /\ MaxCoupons \in Nat
    /\ MaxIds \in Nat
    /\ MaxLate \in Nat
    /\ Faulty \in BOOLEAN

VARIABLES
    coupon,     \* the rows of the code, by id
    work,       \* where each HTTP request is
    late,       \* calls given up on that have not reached their store yet
    shop,       \* the coupon each store has under the code
    issued,     \* how many identifiers each store has given
    unheard     \* identifiers that were given and never reached the CRM

couponVars == <<coupon, work, late, shop, issued, unheard>>

CouponSyncStatus == {"PENDING", "SYNCED", "PARTIAL", "ERROR"}
KnownIds == [Store -> Id \cup {NoId}]
CouponRow ==
    [state : {"UNUSED", "LIVE", "DELETED"}, ids : KnownIds, sync : CouponSyncStatus]
(* A request holds the row as it read it, and one call to each store.      *)
Stage == {"call", "retry", "save", "done", "failed"}
CouponRequestState ==
    [op : {"idle", "sync", "remove"}, row : CouponId \cup {0}, ids : KnownIds,
     got : KnownIds, stage : [Store -> Stage]]
Call ==
    [op : {"create", "update", "delete"}, store : Store, id : Id \cup {NoId}]

NoIds == [s \in Store |-> NoId]
NoWork ==
    [op |-> "idle", row |-> 0, ids |-> NoIds, got |-> NoIds,
     stage |-> [s \in Store |-> "done"]]

(* The tables hold rows, requests and calls of the declared shapes.        *)
CouponsTypeOK ==
    /\ coupon \in [CouponId -> CouponRow]
    /\ work \in [CouponRequest -> CouponRequestState]
    /\ late \subseteq Call
    /\ shop \in KnownIds
    /\ issued \in [Store -> 0..MaxIds]
    /\ unheard \subseteq Store \X Id

CouponsInit ==
    /\ coupon = [c \in CouponId |->
            [state |-> "UNUSED", ids |-> NoIds, sync |-> "PENDING"]]
    /\ work = [r \in CouponRequest |-> NoWork]
    /\ late = {}
    /\ shop = NoIds
    /\ issued = [s \in Store |-> 0]
    /\ unheard = {}

Live(c) == c \in CouponId /\ coupon[c].state = "LIVE"
StageOf(r, s, stage) == work' = [work EXCEPT ![r].stage[s] = stage]
FinishRequest(r) == work' = [work EXCEPT ![r] = NoWork]

-----------------------------------------------------------------------------
(* Local changes                                                           *)

CreateCoupon(c) ==
    /\ coupon[c].state = "UNUSED"
    /\ \A d \in CouponId : ~Live(d) /\ (d < c => coupon[d].state = "DELETED")
    /\ coupon' = [coupon EXCEPT ![c].state = "LIVE"]
    /\ UNCHANGED <<work, late, shop, issued, unheard>>

(* Every edit makes the coupon pending again; its contents are left out.   *)
UpdateCoupon(c) ==
    /\ Live(c)
    /\ coupon' = [coupon EXCEPT ![c].sync = "PENDING"]
    /\ UNCHANGED <<work, late, shop, issued, unheard>>

-----------------------------------------------------------------------------
(* A request reads the row and calls the stores with what it read.         *)

Begin(r, c, op, stage) ==
    /\ work[r].op = "idle"
    /\ Live(c)
    /\ work' = [work EXCEPT ![r] =
            [op |-> op, row |-> c, ids |-> coupon[c].ids, got |-> NoIds,
             stage |-> stage]]
    /\ UNCHANGED <<coupon, late, shop, issued, unheard>>

SyncBegin(r, c) == Begin(r, c, "sync", [s \in Store |-> "call"])

(* Deleting skips the stores where the row names no coupon.                *)
RemoveBegin(r, c) ==
    Begin(r, c, "remove",
          [s \in Store |-> IF coupon[c].ids[s] = NoId THEN "done" ELSE "call"])

(* Publishing creates the coupon where the row names none.                 *)
CallOf(r, s) ==
    [op |-> CASE work[r].op = "remove" -> "delete"
              [] work[r].op # "remove" /\ work[r].ids[s] = NoId -> "create"
              [] OTHER -> "update",
     store |-> s, id |-> work[r].ids[s]]

Waits(r, s) == work[r].op # "idle" /\ work[r].stage[s] \in {"call", "retry"}

-----------------------------------------------------------------------------
(* The stores: a code has one coupon, and a coupon has its identifier.     *)

Applies(k) ==
    IF k.op = "create"
    THEN shop[k.store] = NoId /\ issued[k.store] < MaxIds
    ELSE shop[k.store] = k.id

NextId(s) == issued[s] + 1

CarryOut(k) ==
    /\ Applies(k)
    /\ shop' = [shop EXCEPT ![k.store] =
            CASE k.op = "create" -> NextId(k.store)
              [] k.op = "update" -> k.id
              [] k.op = "delete" -> NoId]
    /\ issued' = IF k.op = "create"
                 THEN [issued EXCEPT ![k.store] = @ + 1] ELSE issued

(* A call given up on gets lost, or arrives later, when it may be refused. *)
GiveUp(calls) ==
    \E some \in SUBSET calls :
        /\ some = {} \/ Cardinality(late \cup some) <= MaxLate
        /\ late' = late \cup some

LateCall(k) ==
    /\ k \in late
    /\ late' = late \ {k}
    /\ \/ /\ CarryOut(k)
          /\ unheard' = IF k.op = "create"
                        THEN unheard \cup {<<k.store, NextId(k.store)>>} ELSE unheard
       \/ /\ ~Applies(k)
          /\ UNCHANGED <<shop, issued, unheard>>
    /\ UNCHANGED <<coupon, work>>

-----------------------------------------------------------------------------
(* Answers.  Definitions called Slip... are plausible mistakes in this     *)
(* code; the specification does not use them.                              *)

(* A new coupon's identifier is saved as soon as its store confirms it.    *)
StoreAccepts(r, s) ==
    /\ Waits(r, s)
    /\ CarryOut(CallOf(r, s))
    /\ IF CallOf(r, s).op = "create"
       THEN work' = [work EXCEPT ![r].stage[s] = "save",
                                       ![r].got[s] = NextId(s)]
       ELSE StageOf(r, s, "done")
    /\ UNCHANGED <<coupon, late, unheard>>

(* A store that has no such coupon has nothing to delete.                  *)
StoreRefuses(r, s) ==
    /\ Waits(r, s)
    /\ \/ StageOf(r, s, "failed")
       \/ /\ work[r].op = "remove"
          /\ ~Applies(CallOf(r, s))
          /\ StageOf(r, s, "done")
    /\ UNCHANGED <<coupon, late, shop, issued, unheard>>

(* Without an answer, changes and deletions are tried once more.           *)
StoreUnanswered(r, s) ==
    /\ Waits(r, s)
    /\ GiveUp({CallOf(r, s)})
    /\ IF work[r].stage[s] = "call" /\ CallOf(r, s).op # "create"
       THEN StageOf(r, s, "retry") ELSE StageOf(r, s, "failed")
    /\ UNCHANGED <<coupon, shop, issued, unheard>>

(* The write that saves an identifier fails when the row is gone.          *)
Saved(r, s, stage) ==
    work' = [work EXCEPT ![r].stage[s] = stage, ![r].got[s] = NoId]

SlipFirstIdStays(r, s) ==       \* Slip: an identifier is written once
    /\ work[r].op = "sync"
    /\ work[r].stage[s] = "save"
    /\ LET c == work[r].row IN
       coupon' = IF Live(c) /\ coupon[c].ids[s] = NoId
                 THEN [coupon EXCEPT ![c].ids[s] = work[r].got[s]] ELSE coupon
    /\ Saved(r, s, "done")
    /\ UNCHANGED <<late, shop, issued, unheard>>

SaveExternalId(r, s) ==
    /\ work[r].op = "sync"
    /\ work[r].stage[s] = "save"
    /\ \/ /\ Live(work[r].row)
          /\ coupon' = [coupon EXCEPT ![work[r].row].ids[s] = work[r].got[s]]
          /\ Saved(r, s, "done")
          /\ UNCHANGED unheard
       \/ /\ Faulty \/ ~Live(work[r].row)
          /\ Saved(r, s, "failed")
          /\ unheard' = unheard \cup {<<s, work[r].got[s]>>}
          /\ UNCHANGED coupon
    /\ UNCHANGED <<late, shop, issued>>

-----------------------------------------------------------------------------
(* When both stores have an outcome                                        *)

Succeeded(r) == {s \in Store : work[r].stage[s] = "done"}
Settled(r) ==
    /\ work[r].op # "idle"
    /\ \A s \in Store : work[r].stage[s] \in {"done", "failed"}

SlipSyncResult(r) ==            \* Slip: the action's name, not the status's
    IF Succeeded(r) = Store THEN "SYNCED" ELSE "FAILED"

SyncResult(r) ==
    CASE Succeeded(r) = Store -> "SYNCED"
      [] Succeeded(r) = {} -> "ERROR"
      [] OTHER -> "PARTIAL"

FinishSync(r) ==
    /\ Settled(r)
    /\ work[r].op = "sync"
    /\ \/ /\ Live(work[r].row)
          /\ coupon' = [coupon EXCEPT ![work[r].row].sync = SyncResult(r)]
       \/ /\ Faulty \/ ~Live(work[r].row)
          /\ UNCHANGED coupon
    /\ FinishRequest(r)
    /\ UNCHANGED <<late, shop, issued, unheard>>

SlipDeletable(r) == Succeeded(r) # {}   \* Slip: one store is enough

(* The row goes only after both stores have let go of their coupon.        *)
Deletable(r) == Succeeded(r) = Store

FinishRemove(r) ==
    /\ Settled(r)
    /\ work[r].op = "remove"
    /\ \/ /\ Deletable(r)
          /\ Live(work[r].row)
          /\ coupon' = [coupon EXCEPT ![work[r].row].state = "DELETED"]
       \/ /\ Faulty \/ ~Deletable(r) \/ ~Live(work[r].row)
          /\ UNCHANGED coupon
    /\ FinishRequest(r)
    /\ UNCHANGED <<late, shop, issued, unheard>>

(* A restart drops every request; calls on their way may still arrive.     *)
CouponsRestart ==
    /\ Faulty
    /\ \E r \in CouponRequest : work[r].op # "idle"
    /\ work' = [r \in CouponRequest |-> NoWork]
    /\ GiveUp({CallOf(p[1], p[2]) :
            p \in {p \in CouponRequest \X Store : Waits(p[1], p[2])}})
    /\ unheard' = unheard \cup
            {<<p[2], work[p[1]].got[p[2]]>> : p \in
                {p \in CouponRequest \X Store : work[p[1]].stage[p[2]] = "save"}}
    /\ UNCHANGED <<coupon, shop, issued>>

Local == \E c \in CouponId : CreateCoupon(c) \/ UpdateCoupon(c)
StartCall ==
    \E r \in CouponRequest, c \in CouponId : SyncBegin(r, c) \/ RemoveBegin(r, c)
Answer ==
    \E r \in CouponRequest, s \in Store : StoreAccepts(r, s) \/ StoreRefuses(r, s)
(* What the process does by itself: give up on a call, save, conclude.     *)
ContinueWith(r) ==
    \/ \E s \in Store : StoreUnanswered(r, s) \/ SaveExternalId(r, s)
    \/ FinishSync(r)
    \/ FinishRemove(r)

CouponsNext ==
    \/ Local
    \/ StartCall
    \/ Answer
    \/ \E r \in CouponRequest : ContinueWith(r)
    \/ \E k \in late : LateCall(k)
    \/ CouponsRestart

CouponsSpec == CouponsInit /\ [][CouponsNext]_couponVars

-----------------------------------------------------------------------------
(* Properties                                                              *)

(* The status column claims no more than the identifiers document: a       *)
(* coupon shown as published in both stores, or in one, names its coupon   *)
(* there, whichever requests ran together and whatever was lost.           *)
SyncedHasIds ==
    \A c \in CouponId : Live(c) =>
        /\ coupon[c].sync = "SYNCED" => \A s \in Store : coupon[c].ids[s] # NoId
        /\ coupon[c].sync = "PARTIAL" => \E s \in Store : coupon[c].ids[s] # NoId

(* An identifier that a live row holds names the coupon its store has      *)
(* under the code, unless the store has none, or the identifier it has     *)
(* never reached the CRM or is being saved.                                *)
NamesTheCoupon ==
    \A c \in CouponId, s \in Store :
        Live(c) /\ coupon[c].ids[s] # NoId =>
            \/ shop[s] \in {NoId, coupon[c].ids[s]}
            \/ <<s, shop[s]>> \in unheard
            \/ \E r \in CouponRequest :
                work[r].stage[s] = "save" /\ work[r].got[s] = shop[s]

(* Status and identifiers tell the truth about the stores.                 *)
IdsAreTrue == SyncedHasIds /\ NamesTheCoupon

(* A row is deleted only when no store has a coupon that the deletion knew *)
(* of: a refused or unanswered deletion keeps the row, and with it the     *)
(* identifiers, for the retry.                                             *)
ForgetsNothing ==
    [][\A r \in CouponRequest, c \in CouponId :
        /\ work[r].row = c /\ work'[r].op = "idle"
        /\ Live(c) /\ coupon'[c].state = "DELETED"
        => \A s \in Store :
            work[r].ids[s] # NoId => shop'[s] # work[r].ids[s]]_couponVars

(* README: deleting reaches the stores first, so no coupon is ever live in *)
(* a store without a row that tells where to find it.                      *)
NoOrphan ==
    (\A r \in CouponRequest : work[r].op = "idle") =>
        \A s \in Store : shop[s] # NoId => \E c \in CouponId : Live(c)

-----------------------------------------------------------------------------
(* The inductive invariant behind them                                     *)

(* The code is unique, and a row that was never written is empty.          *)
OneLive == \A c, d \in CouponId : Live(c) /\ Live(d) => c = d
RowsBegin ==
    \A c \in CouponId : coupon[c].state = "UNUSED" =>
        coupon[c].sync = "PENDING" /\ coupon[c].ids = NoIds

(* Whatever anybody knows as an identifier, its store gave.                *)
IdsAreIssued ==
    \A s \in Store :
        /\ shop[s] <= issued[s]
        /\ \A c \in CouponId : coupon[c].ids[s] <= issued[s]
        /\ \A r \in CouponRequest : work[r].ids[s] <= issued[s]
        /\ \A k \in late : k.store = s => k.id <= issued[s]

(* The row that a request read keeps an identifier where it had one, has   *)
(* one where a publication is done, and where a deletion is done, the      *)
(* store has not, and will not have again, the coupon that was read.       *)
WorkIsFounded(r) ==
    /\ work[r].op = "idle" => work[r] = NoWork
    /\ work[r].op # "idle" =>
        /\ work[r].row \in CouponId
        /\ coupon[work[r].row].state # "UNUSED"
        /\ \A s \in Store :
            \/ work[r].ids[s] # NoId
            \/ work[r].op = "sync" /\ work[r].stage[s] = "done"
            => coupon[work[r].row].ids[s] # NoId
    /\ work[r].op = "remove" => \A s \in Store :
        work[r].stage[s] = "done" /\ work[r].ids[s] # NoId => shop[s] # work[r].ids[s]

(* An identifier that is being saved is the one its store has, and nobody  *)
(* else knows of it: no call can name it before it is saved.               *)
Unknown(s, id) ==
    /\ \A c \in CouponId : coupon[c].ids[s] # id
    /\ \A q \in CouponRequest : work[q].ids[s] # id
    /\ \A k \in late : k.store = s => k.id # id
Saving(r, s) == work[r].stage[s] = "save"
SavesWhatIsThere ==
    \A r \in CouponRequest, s \in Store : Saving(r, s) =>
        /\ work[r].op = "sync" /\ work[r].got[s] # NoId
        /\ work[r].got[s] = shop[s] /\ Unknown(s, shop[s])
        /\ \A q \in CouponRequest : Saving(q, s) => q = r

CouponsIInv ==
    /\ CouponsTypeOK /\ OneLive /\ RowsBegin /\ IdsAreIssued
    /\ \A r \in CouponRequest : WorkIsFounded(r)
    /\ SavesWhatIsThere
    /\ IdsAreTrue
=============================================================================
