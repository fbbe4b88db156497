------------------------------ MODULE FaultsProofs ------------------------------
(***************************************************************************)
(* The coupons, the products, the agreements and the quotations: what      *)
(* their rows say of the stores, the bucket and Siigo, for any number of   *)
(* requests, forms and rows.  Each component has an inductive invariant of *)
(* its own; then what the composition of MCFaults keeps.                   *)
(***************************************************************************)
EXTENDS MCFaults, PointsRedemptionsProofs, FiniteSetTheorems

-----------------------------------------------------------------------------
(* The coupons                                                             *)

LEMMA IdTypes ==
  /\ Id \subseteq Nat /\ NoId = 0 /\ NoId \notin Id /\ Id = 1..MaxIds /\ MaxIds \in Nat
  /\ CouponId \subseteq Nat /\ 0 \notin CouponId
  /\ NoIds \in KnownIds /\ NoWork \in CouponRequestState
  /\ \A s \in Store : NoIds[s] = NoId /\ NoWork.stage[s] = "done"
  /\ NoWork.op = "idle" /\ NoWork.row = 0 /\ NoWork.ids = NoIds
  BY CouponAssumption
     DEF Id, NoId, CouponId, NoIds, KnownIds, NoWork, CouponRequestState, Stage

(* One request moves at one store; with its got, when it has one to save.  *)
StageIs(r, s, st, g) ==
  /\ work' \in [CouponRequest -> CouponRequestState]
  /\ work'[r].stage[s] = st /\ work'[r].got[s] = g
  /\ work'[r].op = work[r].op /\ work'[r].row = work[r].row /\ work'[r].ids = work[r].ids
  /\ \A t \in Store : t # s =>
        work'[r].stage[t] = work[r].stage[t] /\ work'[r].got[t] = work[r].got[t]
  /\ \A q \in CouponRequest : q # r => work'[q] = work[q]

LEMMA RequestMoves ==
  ASSUME CouponsTypeOK, NEW r \in CouponRequest, NEW s \in Store,
         NEW st \in Stage, NEW g \in Id \cup {NoId},
         \/ /\ work' = [work EXCEPT ![r].stage[s] = st]
            /\ g = work[r].got[s]
         \/ work' = [work EXCEPT ![r].stage[s] = st, ![r].got[s] = g]
  PROVE  StageIs(r, s, st, g)
<1>1. /\ work \in [CouponRequest -> CouponRequestState] /\ work[r] \in CouponRequestState
      /\ work[r].stage \in [Store -> Stage] /\ work[r].got \in [Store -> Id \cup {NoId}]
  BY DEF CouponsTypeOK, CouponRequestState, KnownIds
<1>2. PICK it : it = [work[r] EXCEPT !.stage = [@ EXCEPT ![s] = st],
                                     !.got = [@ EXCEPT ![s] = g]]
  OBVIOUS
<1>3. /\ it \in CouponRequestState /\ it.stage = [work[r].stage EXCEPT ![s] = st]
      /\ it.got = [work[r].got EXCEPT ![s] = g]
      /\ it.op = work[r].op /\ it.row = work[r].row /\ it.ids = work[r].ids
  BY <1>1, <1>2 DEF CouponRequestState, KnownIds
<1>4. work' = [work EXCEPT ![r] = it]
  <2>1. CASE work' = [work EXCEPT ![r].stage[s] = st] /\ g = work[r].got[s]
    <3>1. it = [work[r] EXCEPT !.stage = [@ EXCEPT ![s] = st]]
      BY <1>1, <1>2, <2>1 DEF CouponRequestState, KnownIds
    <3> QED BY <1>1, <2>1, <3>1
  <2>2. CASE work' = [work EXCEPT ![r].stage[s] = st, ![r].got[s] = g]
    BY <1>1, <1>2, <2>2
  <2> QED BY <2>1, <2>2
<1>5. work' \in [CouponRequest -> CouponRequestState] /\ work'[r] = it
      /\ \A q \in CouponRequest : q # r => work'[q] = work[q]
  BY <1>1, <1>3, <1>4
<1> QED BY <1>1, <1>3, <1>5 DEF StageIs

LEMMA CouponFacts ==
  ASSUME CouponsTypeOK, NEW r \in CouponRequest, NEW s \in Store
  PROVE  /\ work[r] \in CouponRequestState /\ work[r].op \in {"idle", "sync", "remove"}
         /\ work[r].stage[s] \in Stage /\ work[r].ids[s] \in Id \cup {NoId}
         /\ work[r].got[s] \in Id \cup {NoId}
         /\ shop[s] \in Id \cup {NoId} /\ issued[s] \in Nat
         /\ \A c \in CouponId : coupon[c] \in CouponRow /\ coupon[c].ids[s] \in Id \cup {NoId}
  BY CouponAssumption
     DEF CouponsTypeOK, CouponRequestState, KnownIds, CouponRow

LEMMA CallFacts ==
  ASSUME CouponsTypeOK, NEW r \in CouponRequest, NEW s \in Store
  PROVE  /\ CallOf(r, s) \in Call
         /\ CallOf(r, s).store = s /\ CallOf(r, s).id = work[r].ids[s]
         /\ CallOf(r, s).op = "delete" <=> work[r].op = "remove"
         /\ CallOf(r, s).op = "create" <=> work[r].op # "remove" /\ work[r].ids[s] = NoId
  BY CouponFacts DEF CallOf, Call

(* A call that is not a creation finds the coupon that it names.           *)
LEMMA CarriedOut ==
  ASSUME CouponsTypeOK, NEW k \in Call, Applies(k), CarryOut(k)
  PROVE  /\ shop' \in KnownIds /\ issued' \in [Store -> 0..MaxIds]
         /\ \A s \in Store : s # k.store => shop'[s] = shop[s] /\ issued'[s] = issued[s]
         /\ k.op = "create" => /\ shop[k.store] = NoId /\ NextId(k.store) \in Id
                               /\ shop'[k.store] = NextId(k.store)
                               /\ issued'[k.store] = NextId(k.store)
         /\ k.op # "create" => shop[k.store] = k.id /\ issued'[k.store] = issued[k.store]
         /\ k.op = "update" => shop'[k.store] = k.id
         /\ k.op = "delete" => shop'[k.store] = NoId
<1>1. /\ k.op \in {"create", "update", "delete"} /\ k.store \in Store
      /\ k.id \in Id \cup {NoId}
  BY DEF Call
<1>2. shop \in KnownIds /\ issued \in [Store -> 0..MaxIds] /\ MaxIds \in Nat
  BY CouponAssumption DEF CouponsTypeOK
<1>3. CASE k.op = "create"
  <2>1. shop[k.store] = NoId /\ NextId(k.store) \in 1..MaxIds
    BY <1>1, <1>2, <1>3 DEF Applies, NextId
  <2>2. /\ shop' = [shop EXCEPT ![k.store] = NextId(k.store)]
        /\ issued' = [issued EXCEPT ![k.store] = NextId(k.store)]
    BY <1>1, <1>3 DEF CarryOut, NextId
  <2> QED BY <1>1, <1>2, <1>3, <2>1, <2>2 DEF KnownIds, Id
<1>4. CASE k.op = "update"
  <2>1. shop[k.store] = k.id /\ shop' = [shop EXCEPT ![k.store] = k.id] /\ issued' = issued
    BY <1>1, <1>4 DEF Applies, CarryOut
  <2> QED BY <1>1, <1>2, <1>4, <2>1 DEF KnownIds, Id
<1>5. CASE k.op = "delete"
  <2>1. shop[k.store] = k.id /\ shop' = [shop EXCEPT ![k.store] = NoId] /\ issued' = issued
    BY <1>1, <1>5 DEF Applies, CarryOut
  <2> QED BY <1>1, <1>2, <1>5, <2>1 DEF KnownIds, Id
<1> QED BY <1>1, <1>3, <1>4, <1>5

(* A call is refused, or given up on: at most it is under way.             *)
Quiet(r, s, st) ==
  /\ Waits(r, s) /\ StageOf(r, s, st)
  /\ st \in {"retry", "done", "failed"}
  /\ st = "done" => work[r].op = "remove" /\ shop[s] # work[r].ids[s]
  /\ \A k \in late' : k \in late \/ k = CallOf(r, s)
  /\ UNCHANGED <<coupon, shop, issued, unheard>>

LEMMA QuietStep ==
  ASSUME CouponsIInv, NEW r \in CouponRequest, NEW s \in Store, NEW st, Quiet(r, s, st)
  PROVE  CouponsIInv'
<1>1. /\ CouponsTypeOK /\ OneLive /\ RowsBegin /\ IdsAreIssued /\ SavesWhatIsThere
      /\ SyncedHasIds /\ NamesTheCoupon /\ \A q \in CouponRequest : WorkIsFounded(q)
  BY DEF CouponsIInv, IdsAreTrue
<1>2. StageIs(r, s, st, work[r].got[s])
  BY <1>1, CouponFacts, RequestMoves DEF Quiet, StageOf, Stage
<1>3. /\ work[r].op # "idle" /\ work[r].stage[s] # "save"
      /\ coupon' = coupon /\ shop' = shop /\ issued' = issued /\ unheard' = unheard
      /\ st \in {"retry", "done", "failed"}
      /\ st = "done" => work[r].op = "remove" /\ shop[s] # work[r].ids[s]
  BY DEF Quiet, Waits
<1>4. \A q \in CouponRequest : work'[q].op = work[q].op /\ work'[q].row = work[q].row
                               /\ work'[q].ids = work[q].ids
  BY <1>2 DEF StageIs
<1>5. CouponsTypeOK'
  <2>1. late' \subseteq Call
    BY <1>1, CallFacts DEF Quiet, CouponsTypeOK
  <2> QED BY <1>1, <1>2, <1>3, <2>1 DEF CouponsTypeOK, StageIs
<1>6. OneLive' /\ RowsBegin' /\ SyncedHasIds'
  BY <1>1, <1>3 DEF OneLive, RowsBegin, SyncedHasIds, Live
<1>7. IdsAreIssued'
  BY <1>1, <1>3, <1>4, CallFacts DEF IdsAreIssued, Quiet
<1>8. ASSUME NEW q \in CouponRequest PROVE WorkIsFounded(q)'
  <2>1. WorkIsFounded(q)
    BY <1>1
  <2> QED BY <1>2, <1>3, <1>4, <2>1 DEF WorkIsFounded, StageIs
<1>9. \A q \in CouponRequest, t \in Store :
        Saving(q, t)' <=> Saving(q, t)
  BY <1>2, <1>3 DEF StageIs, Saving
<1>10. SavesWhatIsThere'
  <2>1. \A q \in CouponRequest, t \in Store : work'[q].got[t] = work[q].got[t]
    BY <1>2 DEF StageIs
  <2>2. ASSUME NEW t \in Store, NEW id, Unknown(t, id) PROVE Unknown(t, id)'
    BY <1>3, <1>4, <2>2, CallFacts, <1>1 DEF Unknown, Quiet
  <2> QED BY <1>1, <1>3, <1>4, <1>9, <2>1, <2>2 DEF SavesWhatIsThere
<1>11. NamesTheCoupon'
  <2>1. \A q \in CouponRequest, t \in Store : work'[q].got[t] = work[q].got[t]
    BY <1>2 DEF StageIs
  <2> QED BY <1>1, <1>3, <1>9, <2>1 DEF NamesTheCoupon, Saving, Live
<1> QED BY <1>1, <1>5, <1>6, <1>7, <1>8, <1>10, <1>11 DEF CouponsIInv, IdsAreTrue

LEMMA LocalStep ==
  ASSUME CouponsIInv, NEW c \in CouponId, CreateCoupon(c) \/ UpdateCoupon(c)
  PROVE  CouponsIInv'
<1>1. /\ CouponsTypeOK /\ OneLive /\ RowsBegin /\ IdsAreIssued /\ SavesWhatIsThere
      /\ SyncedHasIds /\ NamesTheCoupon /\ \A q \in CouponRequest : WorkIsFounded(q)
      /\ UNCHANGED <<work, late, shop, issued, unheard>>
  BY DEF CouponsIInv, IdsAreTrue, CreateCoupon, UpdateCoupon
<1>2. PICK entry : /\ coupon' = [coupon EXCEPT ![c] = entry] /\ entry.ids = coupon[c].ids
                 /\ entry \in CouponRow /\ entry.state = "LIVE"
                 /\ entry.sync = "PENDING"
                 /\ \A d \in CouponId : d # c => coupon[d].state # "LIVE"
  <2>1. CASE CreateCoupon(c)
    <3>1. [coupon[c] EXCEPT !.state = "LIVE"] \in CouponRow
      BY <1>1 DEF CouponsTypeOK, CouponRow
    <3>2. coupon[c].sync = "PENDING"
      BY <1>1, <2>1 DEF CreateCoupon, RowsBegin
    <3> QED BY <1>1, <2>1, <3>1, <3>2 DEF CreateCoupon, Live, CouponsTypeOK, CouponRow
  <2>2. CASE UpdateCoupon(c)
    <3>1. [coupon[c] EXCEPT !.sync = "PENDING"] \in CouponRow
      BY <1>1 DEF CouponsTypeOK, CouponRow, CouponSyncStatus
    <3> QED BY <1>1, <2>2, <3>1
            DEF UpdateCoupon, Live, OneLive, CouponsTypeOK, CouponRow, CouponSyncStatus
  <2> QED BY <2>1, <2>2
<1>3. /\ coupon' \in [CouponId -> CouponRow] /\ coupon'[c].sync = "PENDING"
      /\ coupon'[c].state = "LIVE"
      /\ \A d \in CouponId : coupon'[d].ids = coupon[d].ids
      /\ \A d \in CouponId : d # c => coupon'[d] = coupon[d]
      /\ \A d \in CouponId : Live(d)' => d = c
  BY <1>1, <1>2 DEF CouponsTypeOK, Live
<1>4. CouponsTypeOK' /\ OneLive' /\ RowsBegin' /\ IdsAreIssued'
  BY <1>1, <1>3 DEF CouponsTypeOK, OneLive, RowsBegin, IdsAreIssued
<1>5. ASSUME NEW q \in CouponRequest PROVE WorkIsFounded(q)'
  <2>1. WorkIsFounded(q)
    BY <1>1
  <2> QED BY <1>1, <1>3, <2>1 DEF WorkIsFounded
<1>6. SavesWhatIsThere'
  BY <1>1, <1>3 DEF SavesWhatIsThere, Unknown, Saving
<1>7. SyncedHasIds'
  BY <1>1, <1>3 DEF SyncedHasIds, Live
<1>8. NamesTheCoupon'
  <2>1. coupon[c].state # "LIVE" => \A s \in Store : coupon[c].ids[s] = NoId
    BY <1>1, IdTypes DEF CreateCoupon, UpdateCoupon, RowsBegin, Live
  <2> QED BY <1>1, <1>3, <2>1 DEF NamesTheCoupon, Live
<1> QED BY <1>1, <1>4, <1>5, <1>6, <1>7, <1>8 DEF CouponsIInv, IdsAreTrue

LEMMA BeginStep ==
  ASSUME CouponsIInv, NEW r \in CouponRequest, NEW c \in CouponId,
         SyncBegin(r, c) \/ RemoveBegin(r, c)
  PROVE  CouponsIInv'
<1>1. /\ CouponsTypeOK /\ OneLive /\ RowsBegin /\ IdsAreIssued /\ SavesWhatIsThere
      /\ SyncedHasIds /\ NamesTheCoupon /\ \A q \in CouponRequest : WorkIsFounded(q)
      /\ UNCHANGED <<coupon, late, shop, issued, unheard>>
      /\ work[r].op = "idle" /\ Live(c)
  BY DEF CouponsIInv, IdsAreTrue, SyncBegin, RemoveBegin, Begin
<1>2. PICK op \in {"sync", "remove"}, stage \in [Store -> {"call", "done"}] :
        /\ work' = [work EXCEPT ![r] = [op |-> op, row |-> c, ids |-> coupon[c].ids,
                                        got |-> NoIds, stage |-> stage]]
        /\ \A s \in Store : stage[s] = "done" => op = "remove" /\ coupon[c].ids[s] = NoId
  <2> DEFINE calls == [s \in Store |-> "call"]
             known == [s \in Store |-> IF coupon[c].ids[s] = NoId THEN "done" ELSE "call"]
  <2>1. /\ calls \in [Store -> {"call", "done"}] /\ known \in [Store -> {"call", "done"}]
        /\ \A s \in Store : calls[s] # "done"
        /\ \A s \in Store : known[s] = "done" => coupon[c].ids[s] = NoId
    OBVIOUS
  <2>2. CASE SyncBegin(r, c)
    BY <2>1, <2>2 DEF SyncBegin, Begin
  <2>3. CASE RemoveBegin(r, c)
    BY <2>1, <2>3 DEF RemoveBegin, Begin
  <2> QED BY <2>2, <2>3
<1>3. coupon[c].ids \in KnownIds /\ stage \in [Store -> Stage] /\ NoIds \in KnownIds
  BY <1>1, <1>2, IdTypes DEF CouponsTypeOK, CouponRow, Stage
<1>4. /\ work' \in [CouponRequest -> CouponRequestState]
      /\ work'[r].op = op /\ work'[r].row = c /\ work'[r].ids = coupon[c].ids
      /\ work'[r].stage = stage
      /\ \A q \in CouponRequest : q # r => work'[q] = work[q]
  BY <1>1, <1>2, <1>3 DEF CouponsTypeOK, CouponRequestState
<1>5. CouponsTypeOK' /\ OneLive' /\ RowsBegin' /\ IdsAreIssued' /\ SyncedHasIds'
  BY <1>1, <1>4 DEF CouponsTypeOK, OneLive, RowsBegin, IdsAreIssued, SyncedHasIds, Live
<1>6. ASSUME NEW q \in CouponRequest PROVE WorkIsFounded(q)'
  <2>1. WorkIsFounded(q)
    BY <1>1
  <2> QED BY <1>1, <1>2, <1>4, <2>1 DEF WorkIsFounded, Live
<1>7. \A q \in CouponRequest, t \in Store :
        /\ Saving(q, t)' <=> Saving(q, t)
        /\ Saving(q, t) => work'[q] = work[q]
  BY <1>1, <1>2, <1>4, IdTypes DEF Saving, WorkIsFounded
<1>8. SavesWhatIsThere'
  BY <1>1, <1>4, <1>7 DEF SavesWhatIsThere, Unknown
<1>9. NamesTheCoupon'
  BY <1>1, <1>7 DEF NamesTheCoupon, Live, Saving
<1> QED BY <1>1, <1>5, <1>6, <1>8, <1>9 DEF CouponsIInv, IdsAreTrue

(* A store takes a call: what it creates nobody knows of, and its request  *)
(* saves it next.                                                          *)
LEMMA AcceptStep ==
  ASSUME CouponsIInv, NEW r \in CouponRequest, NEW s \in Store, StoreAccepts(r, s),
         Applies(CallOf(r, s))
  PROVE  CouponsIInv'
<1> DEFINE k == CallOf(r, s)
<1>1. /\ CouponsTypeOK /\ OneLive /\ RowsBegin /\ IdsAreIssued /\ SavesWhatIsThere
      /\ SyncedHasIds /\ NamesTheCoupon /\ \A q \in CouponRequest : WorkIsFounded(q)
      /\ UNCHANGED <<coupon, late, unheard>>
      /\ Waits(r, s) /\ CarryOut(k) /\ work[r].op # "idle" /\ work[r].stage[s] # "save"
  BY DEF CouponsIInv, IdsAreTrue, StoreAccepts, Waits
<1>2. /\ k \in Call /\ k.store = s /\ k.id = work[r].ids[s]
      /\ k.op \in {"create", "update", "delete"}
      /\ k.op = "delete" <=> work[r].op = "remove"
      /\ k.op = "create" <=> work[r].op # "remove" /\ work[r].ids[s] = NoId
  BY <1>1, CallFacts DEF Call
<1>3. /\ shop' \in KnownIds /\ issued' \in [Store -> 0..MaxIds]
      /\ \A t \in Store : t # s => shop'[t] = shop[t] /\ issued'[t] = issued[t]
      /\ k.op = "create" => /\ shop[s] = NoId /\ NextId(s) \in Id
                            /\ shop'[s] = NextId(s) /\ issued'[s] = NextId(s)
      /\ k.op # "create" => shop[s] = work[r].ids[s] /\ issued'[s] = issued[s]
      /\ k.op = "update" => shop'[s] = work[r].ids[s]
      /\ k.op = "delete" => shop'[s] = NoId
  BY <1>1, <1>2, CarriedOut
<1> HIDE DEF k
<1>4. CASE k.op = "create"
  <2>1. StageIs(r, s, "save", NextId(s))
    BY <1>1, <1>2, <1>3, <1>4, RequestMoves DEF StoreAccepts, Stage, k
  <2>2. /\ shop[s] = NoId /\ NextId(s) \in Id /\ shop'[s] = NextId(s) /\ issued'[s] = NextId(s)
        /\ NextId(s) = issued[s] + 1 /\ issued[s] \in Nat /\ NextId(s) # NoId
        /\ work[r].op = "sync"
    BY <1>1, <1>2, <1>3, <1>4, IdTypes, CouponFacts DEF NextId
  <2>3. \A q \in CouponRequest : work'[q].op = work[q].op /\ work'[q].row = work[q].row
                                 /\ work'[q].ids = work[q].ids
    BY <2>1 DEF StageIs
  <2>4. CouponsTypeOK' /\ OneLive' /\ RowsBegin' /\ SyncedHasIds'
    BY <1>1, <1>3, <2>1
       DEF CouponsTypeOK, OneLive, RowsBegin, SyncedHasIds, Live, StageIs
  <2>5. IdsAreIssued'
    <3>1. \A t \in Store : issued'[t] \in Nat /\ issued[t] \in Nat /\ issued[t] <= issued'[t]
      BY <1>1, <1>3, <2>2, CouponFacts
    <3>2. ASSUME NEW t \in Store, NEW n \in Nat, n <= issued[t] PROVE n <= issued'[t]
      BY <3>1, <3>2
    <3>3. \A t \in Store : shop'[t] <= issued'[t]
      BY <1>1, <1>3, <2>2 DEF IdsAreIssued
    <3>4. /\ \A t \in Store, c \in CouponId : coupon[c].ids[t] \in Nat
          /\ \A t \in Store, q \in CouponRequest : work[q].ids[t] \in Nat
          /\ \A j \in late : j.id \in Nat /\ j.store \in Store
      BY <1>1, IdTypes DEF CouponsTypeOK, CouponRow, CouponRequestState, KnownIds, Call
    <3> QED BY <1>1, <2>3, <3>2, <3>3, <3>4 DEF IdsAreIssued
  <2>6. ASSUME NEW q \in CouponRequest PROVE WorkIsFounded(q)'
    <3>1. WorkIsFounded(q) /\ \A t \in Store : work[q].ids[t] <= issued[t]
      BY <1>1 DEF IdsAreIssued
    <3>2. \A t \in Store : work'[q].stage[t] = "done" => work[q].stage[t] = "done"
      BY <2>1 DEF StageIs
    <3>3. \A t \in Store : shop'[t] # shop[t] => t = s /\ shop'[t] # work[q].ids[t]
      BY <1>1, <1>3, <2>2, <3>1, IdTypes, CouponFacts
    <3>4. work[q].op = "idle" => work'[q] = work[q]
      BY <1>1, <2>1 DEF StageIs
    <3> QED BY <1>1, <2>3, <3>1, <3>2, <3>3, <3>4 DEF WorkIsFounded
  <2>7. \A q \in CouponRequest : ~Saving(q, s)
    BY <1>1, <2>2 DEF SavesWhatIsThere
  <2>8. Unknown(s, NextId(s))
    <3>1. \A n \in Nat : n <= issued[s] => n # NextId(s)
      BY <2>2
    <3>2. /\ \A c \in CouponId : coupon[c].ids[s] \in Nat
          /\ \A q \in CouponRequest : work[q].ids[s] \in Nat
          /\ \A j \in late : j.id \in Nat /\ j.store \in Store
      BY <1>1, IdTypes DEF CouponsTypeOK, CouponRow, CouponRequestState, KnownIds, Call
    <3> QED BY <1>1, <3>1, <3>2 DEF Unknown, IdsAreIssued
  <2>9. \A q \in CouponRequest, t \in Store :
          /\ Saving(q, t)' <=> (Saving(q, t) \/ (q = r /\ t = s))
          /\ q # r \/ t # s => work'[q].got[t] = work[q].got[t]
    BY <2>1 DEF StageIs, Saving
  <2>10. SavesWhatIsThere'
    <3>1. \A t \in Store : \A id : Unknown(t, id) => Unknown(t, id)'
      BY <1>1, <2>3 DEF Unknown
    <3>2. ASSUME NEW q \in CouponRequest, NEW t \in Store, Saving(q, t)', t = s
          PROVE  /\ q = r /\ work'[q].op = "sync" /\ work'[q].got[t] # NoId
                 /\ work'[q].got[t] = shop'[t] /\ Unknown(t, shop'[t])
      BY <2>1, <2>2, <2>3, <2>7, <2>8, <2>9, <3>2 DEF StageIs
    <3>3. ASSUME NEW q \in CouponRequest, NEW t \in Store, Saving(q, t)', t # s
          PROVE  /\ Saving(q, t) /\ work'[q].op = "sync" /\ work'[q].got[t] # NoId
                 /\ work'[q].got[t] = shop'[t] /\ Unknown(t, shop'[t])
                 /\ \A o \in CouponRequest : Saving(o, t)' => o = q
      BY <1>1, <1>3, <2>3, <2>9, <3>3 DEF SavesWhatIsThere
    <3> QED BY <3>1, <3>2, <3>3 DEF SavesWhatIsThere, Unknown
  <2>11. NamesTheCoupon'
    <3>1. Saving(r, s)' /\ work'[r].got[s] = shop'[s]
      BY <2>1, <2>2, <2>9 DEF StageIs
    <3> QED BY <1>1, <1>3, <2>9, <3>1 DEF NamesTheCoupon, Saving, Live
  <2> QED BY <1>1, <2>4, <2>5, <2>6, <2>10, <2>11 DEF CouponsIInv, IdsAreTrue
<1>5. CASE k.op # "create"
  <2>1. StageIs(r, s, "done", work[r].got[s])
    BY <1>1, <1>5, CouponFacts, RequestMoves DEF StoreAccepts, StageOf, Stage, k
  <2>2. /\ issued' = issued /\ shop'[s] \in {NoId, shop[s]}
        /\ work[r].ids[s] = shop[s]
        /\ work[r].op = "remove" => shop'[s] = NoId
        /\ work[r].op # "remove" => work[r].ids[s] # NoId
    BY <1>1, <1>2, <1>3, <1>5 DEF CouponsTypeOK
  <2>3. \A q \in CouponRequest : work'[q].op = work[q].op /\ work'[q].row = work[q].row
                                 /\ work'[q].ids = work[q].ids
    BY <2>1 DEF StageIs
  <2>4. CouponsTypeOK' /\ OneLive' /\ RowsBegin' /\ SyncedHasIds'
    BY <1>1, <1>3, <2>1
       DEF CouponsTypeOK, OneLive, RowsBegin, SyncedHasIds, Live, StageIs
  <2>5. IdsAreIssued'
    <3>1. \A t \in Store : shop'[t] <= issued'[t]
      BY <1>1, <1>3, <2>2, IdTypes, CouponFacts DEF IdsAreIssued
    <3> QED BY <1>1, <2>2, <2>3, <3>1 DEF IdsAreIssued
  <2>6. ASSUME NEW q \in CouponRequest PROVE WorkIsFounded(q)'
    <3>1. WorkIsFounded(q)
      BY <1>1
    <3>2. \A t \in Store : /\ q # r \/ t # s => work'[q].stage[t] = work[q].stage[t]
                           /\ shop'[t] \in {NoId, shop[t]}
      BY <1>3, <2>1, <2>2 DEF StageIs
    <3>3. work[q].op = "idle" => work'[q] = work[q]
      BY <1>1, <2>1 DEF StageIs
    <3> QED BY <1>1, <2>2, <2>3, <3>1, <3>2, <3>3 DEF WorkIsFounded
  <2>7. \A q \in CouponRequest : ~Saving(q, s) \/ shop[s] = NoId
    BY <1>1, <2>2 DEF SavesWhatIsThere, Unknown
  <2>8. \A q \in CouponRequest, t \in Store :
          /\ Saving(q, t)' <=> Saving(q, t)
          /\ work'[q].got[t] = work[q].got[t]
    BY <1>1, <2>1 DEF StageIs, Saving
  <2>9. SavesWhatIsThere'
    <3>1. \A t \in Store : \A id : Unknown(t, id) => Unknown(t, id)'
      BY <1>1, <2>3 DEF Unknown
    <3>2. \A q \in CouponRequest, t \in Store : Saving(q, t) => shop'[t] = shop[t]
      BY <1>1, <1>3, <2>2, <2>7 DEF SavesWhatIsThere
    <3> QED BY <1>1, <2>3, <2>8, <3>1, <3>2 DEF SavesWhatIsThere
  <2>10. NamesTheCoupon'
    BY <1>1, <1>3, <2>2, <2>8 DEF NamesTheCoupon, Saving, Live
  <2> QED BY <1>1, <2>4, <2>5, <2>6, <2>9, <2>10 DEF CouponsIInv, IdsAreTrue
<1> QED BY <1>4, <1>5

(* What was created and not answered for is not heard of.                  *)
LEMMA LateStep ==
  ASSUME CouponsIInv, NEW k \in late, LateCall(k)
  PROVE  CouponsIInv'
<1>1. /\ CouponsTypeOK /\ OneLive /\ RowsBegin /\ IdsAreIssued /\ SavesWhatIsThere
      /\ SyncedHasIds /\ NamesTheCoupon /\ \A q \in CouponRequest : WorkIsFounded(q)
      /\ UNCHANGED <<coupon, work>> /\ late' = late \ {k} /\ k \in Call
      /\ k.op \in {"create", "update", "delete"} /\ k.store \in Store
  BY DEF CouponsIInv, IdsAreTrue, LateCall, CouponsTypeOK, Call
<1>2. CASE UNCHANGED <<shop, issued, unheard>>
  <2>1. CouponsTypeOK' /\ OneLive' /\ RowsBegin' /\ IdsAreIssued'
    BY <1>1, <1>2 DEF CouponsTypeOK, OneLive, RowsBegin, IdsAreIssued, Live
  <2>2. (\A q \in CouponRequest : WorkIsFounded(q)') /\ SavesWhatIsThere' /\ IdsAreTrue'
    BY <1>1, <1>2 DEF WorkIsFounded, SavesWhatIsThere, Unknown, Saving, IdsAreTrue,
       SyncedHasIds, NamesTheCoupon, Live
  <2> QED BY <2>1, <2>2 DEF CouponsIInv
<1>3. CASE CarryOut(k) /\ Applies(k)
                /\ unheard' = IF k.op = "create"
                              THEN unheard \cup {<<k.store, NextId(k.store)>>} ELSE unheard
  <2>1. PICK s \in Store : s = k.store
    BY <1>1
  <2>2. /\ shop' \in KnownIds /\ issued' \in [Store -> 0..MaxIds]
        /\ \A t \in Store : t # s => shop'[t] = shop[t] /\ issued'[t] = issued[t]
        /\ k.op = "create" => /\ shop[s] = NoId /\ NextId(s) \in Id
                              /\ shop'[s] = NextId(s) /\ issued'[s] = NextId(s)
        /\ k.op # "create" => shop[s] = k.id /\ issued'[s] = issued[s]
        /\ k.op # "create" => shop'[s] \in {NoId, shop[s]}
        /\ issued[s] \in Nat /\ shop[s] \in Id \cup {NoId} /\ NextId(s) = issued[s] + 1
    BY <1>1, <1>3, <2>1, CarriedOut, CouponFacts DEF NextId, CouponsTypeOK, KnownIds, Id
  <2>3. CouponsTypeOK' /\ OneLive' /\ RowsBegin' /\ SyncedHasIds'
    <3>1. unheard' \subseteq Store \X Id
      BY <1>1, <1>3, <2>1, <2>2 DEF CouponsTypeOK
    <3> QED BY <1>1, <2>2, <3>1 DEF CouponsTypeOK, OneLive, RowsBegin, SyncedHasIds, Live
  <2>4. /\ \A t \in Store : issued'[t] \in Nat /\ issued[t] \in Nat /\ issued[t] <= issued'[t]
        /\ \A t \in Store, c \in CouponId : coupon[c].ids[t] \in Nat
        /\ \A t \in Store, q \in CouponRequest : work[q].ids[t] \in Nat
        /\ \A j \in late : j.id \in Nat /\ j.store \in Store
    <3>1. \A t \in Store : issued[t] \in Nat
      BY <1>1, CouponAssumption DEF CouponsTypeOK
    <3>2. \A t \in Store : issued'[t] \in Nat /\ issued[t] <= issued'[t]
      BY <2>2, <3>1
    <3> QED BY <1>1, <3>1, <3>2, IdTypes
            DEF CouponsTypeOK, CouponRow, CouponRequestState, KnownIds, Call
  <2>5. IdsAreIssued'
    <3>1. \A t \in Store : shop'[t] <= issued'[t]
      BY <1>1, <2>2, <2>4, IdTypes DEF IdsAreIssued
    <3>2. \A t \in Store, n \in Nat : n <= issued[t] => n <= issued'[t]
      BY <2>4
    <3> QED BY <1>1, <2>4, <3>1, <3>2 DEF IdsAreIssued
  <2>6. ASSUME NEW t \in Store, NEW n \in Nat, n <= issued[t], n # NoId, shop[t] # n
        PROVE  shop'[t] # n
    BY <2>2, <2>6
  <2>7. ASSUME NEW q \in CouponRequest PROVE WorkIsFounded(q)'
    <3>1. WorkIsFounded(q)
      BY <1>1
    <3>2. \A t \in Store : /\ work[q].ids[t] \in Nat /\ work[q].ids[t] <= issued[t]
      BY <1>1, <2>4 DEF IdsAreIssued
    <3> QED BY <1>1, <2>6, <3>1, <3>2 DEF WorkIsFounded
  <2>8. SavesWhatIsThere'
    <3>1. \A t \in Store : \A id : Unknown(t, id) => Unknown(t, id)'
      BY <1>1 DEF Unknown
    <3>2. \A q \in CouponRequest, t \in Store : Saving(q, t) => shop'[t] = shop[t]
      <4>1. ASSUME NEW q \in CouponRequest, Saving(q, s) PROVE FALSE
        <5>1. shop[s] # NoId /\ Unknown(s, shop[s])
          BY <1>1, <4>1 DEF SavesWhatIsThere
        <5> QED BY <1>1, <2>1, <2>2, <5>1 DEF Unknown
      <4> QED BY <2>2, <4>1
    <3> QED BY <1>1, <3>1, <3>2 DEF SavesWhatIsThere, Saving
  <2>9. NamesTheCoupon'
    <3>1. \A t \in Store : \/ shop'[t] = shop[t] \/ shop'[t] = NoId
                           \/ <<t, shop'[t]>> \in unheard'
      BY <1>3, <2>1, <2>2
    <3>2. unheard \subseteq unheard'
      BY <1>3
    <3> QED BY <1>1, <3>1, <3>2 DEF NamesTheCoupon, Live
  <2> QED BY <1>1, <2>3, <2>5, <2>7, <2>8, <2>9 DEF CouponsIInv, IdsAreTrue
<1> QED BY <1>2, <1>3 DEF LateCall, CarryOut

LEMMA SaveStep ==
  ASSUME CouponsIInv, NEW r \in CouponRequest, NEW s \in Store, SaveExternalId(r, s)
  PROVE  CouponsIInv'
<1>1. /\ CouponsTypeOK /\ OneLive /\ RowsBegin /\ IdsAreIssued /\ SavesWhatIsThere
      /\ SyncedHasIds /\ NamesTheCoupon /\ \A q \in CouponRequest : WorkIsFounded(q)
      /\ UNCHANGED <<late, shop, issued>> /\ Saving(r, s)
      /\ work[r].op = "sync" /\ work[r].got[s] = shop[s] /\ shop[s] # NoId
      /\ shop[s] \in Id \cup {NoId}
  BY CouponFacts DEF CouponsIInv, IdsAreTrue, SaveExternalId, SavesWhatIsThere, Saving
<1>2. PICK c \in CouponId : c = work[r].row
  BY <1>1 DEF WorkIsFounded
<1>3. PICK stage \in {"done", "failed"} :
        /\ Saved(r, s, stage)
        /\ stage = "done" =>
            Live(c) /\ coupon' = [coupon EXCEPT ![c].ids[s] = shop[s]] /\ unheard' = unheard
        /\ stage = "failed" => coupon' = coupon /\ unheard' = unheard \cup {<<s, shop[s]>>}
  BY <1>1, <1>2 DEF SaveExternalId
<1>4. StageIs(r, s, stage, NoId)
  BY <1>1, <1>3, RequestMoves DEF Saved, Stage
<1>5. /\ coupon' \in [CouponId -> CouponRow] /\ unheard' \subseteq Store \X Id
      /\ unheard \subseteq unheard'
      /\ \A d \in CouponId : coupon'[d].state = coupon[d].state /\ coupon'[d].sync = coupon[d].sync
      /\ \A d \in CouponId, t \in Store : d # c \/ t # s => coupon'[d].ids[t] = coupon[d].ids[t]
      /\ stage = "done" => coupon'[c].ids[s] = shop[s] /\ Live(c)
      /\ stage = "failed" => coupon' = coupon /\ <<s, shop[s]>> \in unheard'
  <2>1. CASE stage = "done"
    <3>1. PICK entry : entry = [coupon[c] EXCEPT !.ids = [@ EXCEPT ![s] = shop[s]]]
      OBVIOUS
    <3>2. /\ entry \in CouponRow /\ entry.state = coupon[c].state /\ entry.sync = coupon[c].sync
          /\ entry.ids = [coupon[c].ids EXCEPT ![s] = shop[s]]
      BY <1>1, <3>1 DEF CouponsTypeOK, CouponRow, KnownIds
    <3>3. coupon' = [coupon EXCEPT ![c] = entry]
      BY <1>1, <1>3, <2>1, <3>1 DEF CouponsTypeOK
    <3>4. \A t \in Store : entry.ids[t] = IF t = s THEN shop[s] ELSE coupon[c].ids[t]
      BY <1>1, <3>2 DEF CouponsTypeOK, CouponRow, KnownIds
    <3> QED BY <1>1, <1>3, <2>1, <3>2, <3>3, <3>4 DEF CouponsTypeOK
  <2>2. CASE stage = "failed"
    BY <1>1, <1>3, <2>2 DEF CouponsTypeOK
  <2> QED BY <2>1, <2>2
<1>6. /\ \A q \in CouponRequest : work'[q].op = work[q].op /\ work'[q].row = work[q].row
                                  /\ work'[q].ids = work[q].ids
      /\ \A q \in CouponRequest, t \in Store :
            q # r \/ t # s => /\ work'[q].stage[t] = work[q].stage[t]
                              /\ work'[q].got[t] = work[q].got[t]
      /\ work'[r].stage[s] = stage /\ stage # "save"
  BY <1>4 DEF StageIs
<1>7. /\ \A q \in CouponRequest : ~Saving(q, s)'
      /\ \A q \in CouponRequest, t \in Store : Saving(q, t)' => Saving(q, t) /\ t # s
      /\ \A q \in CouponRequest, t \in Store : t # s /\ Saving(q, t) => Saving(q, t)'
  BY <1>1, <1>6 DEF Saving, SavesWhatIsThere
<1>8. CouponsTypeOK'
  BY <1>1, <1>4, <1>5 DEF CouponsTypeOK, StageIs
<1>9. OneLive' /\ IdsAreIssued'
  <2>1. \A d \in CouponId : Live(d)' <=> Live(d)
    BY <1>5 DEF Live
  <2>2. \A d \in CouponId, t \in Store : coupon'[d].ids[t] <= issued[t]
    BY <1>1, <1>3, <1>5 DEF IdsAreIssued
  <2> QED BY <1>1, <1>6, <2>1, <2>2 DEF OneLive, IdsAreIssued
<1>10. RowsBegin'
  <2>1. ASSUME NEW d \in CouponId, coupon'[d].state = "UNUSED"
        PROVE  coupon'[d].sync = "PENDING" /\ coupon'[d].ids = NoIds
    <3>1. coupon[d].state = "UNUSED" /\ coupon[d].sync = "PENDING" /\ coupon[d].ids = NoIds
      BY <1>1, <1>5, <2>1 DEF RowsBegin
    <3>2. stage = "done" => d # c
      BY <1>5, <3>1 DEF Live
    <3>3. coupon'[d] = coupon[d]
      BY <1>1, <1>3, <3>2 DEF CouponsTypeOK
    <3> QED BY <3>1, <3>3
  <2> QED BY <2>1 DEF RowsBegin
<1>11. \A d \in CouponId, t \in Store : coupon[d].ids[t] # NoId => coupon'[d].ids[t] # NoId
  BY <1>1, <1>3, <1>5
<1>12. ASSUME NEW q \in CouponRequest PROVE WorkIsFounded(q)'
  <2>1. WorkIsFounded(q)
    BY <1>1
  <2>2. work[q].op = "idle" => work'[q] = work[q]
    BY <1>1, <1>4 DEF StageIs
  <2>3. coupon'[work[q].row].state = coupon[work[q].row].state \/ work[q].op = "idle"
    BY <1>5, <2>1 DEF WorkIsFounded
  <2>4. work[q].op # "idle" => /\ work[q].row \in CouponId
                               /\ coupon'[work[q].row].state # "UNUSED"
    BY <2>1, <2>3 DEF WorkIsFounded
  <2>5. ASSUME NEW t \in Store, work[q].op = "sync", work'[q].stage[t] = "done"
        PROVE  coupon'[work[q].row].ids[t] # NoId
    BY <1>1, <1>2, <1>3, <1>5, <1>6, <1>11, <2>1, <2>5 DEF WorkIsFounded
  <2>6. ASSUME NEW t \in Store, work[q].op # "idle", work[q].ids[t] # NoId
        PROVE  coupon'[work[q].row].ids[t] # NoId
    BY <1>11, <2>1, <2>6 DEF WorkIsFounded
  <2>7. ASSUME NEW t \in Store, work[q].op = "remove"
        PROVE  work'[q].stage[t] = work[q].stage[t]
    BY <1>1, <1>6, <2>7
  <2> QED BY <1>1, <1>6, <2>1, <2>2, <2>4, <2>5, <2>6, <2>7 DEF WorkIsFounded
<1>13. SavesWhatIsThere'
  <2>1. \A t \in Store : \A id : t # s /\ Unknown(t, id) => Unknown(t, id)'
    BY <1>1, <1>5, <1>6 DEF Unknown
  <2> QED BY <1>1, <1>6, <1>7, <2>1 DEF SavesWhatIsThere
<1>14. SyncedHasIds'
  BY <1>1, <1>5, <1>11 DEF SyncedHasIds, Live
<1>15. NamesTheCoupon'
  <2>1. ASSUME NEW d \in CouponId, NEW t \in Store, Live(d)', coupon'[d].ids[t] # NoId
        PROVE  \/ shop[t] \in {NoId, coupon'[d].ids[t]} \/ <<t, shop[t]>> \in unheard'
               \/ \E q \in CouponRequest : Saving(q, t)' /\ work'[q].got[t] = shop[t]
    <3>1. CASE t = s /\ stage = "done"
      <4>1. d = c
        BY <1>1, <1>5, <2>1, <3>1 DEF OneLive, Live
      <4> QED BY <1>5, <3>1, <4>1
    <3>2. CASE t = s /\ stage = "failed"
      BY <1>5, <3>2
    <3>3. CASE t # s
      <4>1. Live(d) /\ coupon[d].ids[t] # NoId /\ coupon'[d].ids[t] = coupon[d].ids[t]
        BY <1>5, <2>1, <3>3 DEF Live
      <4>2. \/ shop[t] \in {NoId, coupon[d].ids[t]} \/ <<t, shop[t]>> \in unheard
            \/ \E q \in CouponRequest : Saving(q, t) /\ work[q].got[t] = shop[t]
        BY <1>1, <4>1 DEF NamesTheCoupon, Saving
      <4> QED BY <1>5, <1>6, <1>7, <3>3, <4>1, <4>2
    <3> QED BY <3>1, <3>2, <3>3
  <2> QED BY <1>1, <2>1 DEF NamesTheCoupon, Saving
<1> QED BY <1>1, <1>8, <1>9, <1>10, <1>12, <1>13, <1>14, <1>15 DEF CouponsIInv, IdsAreTrue

(* A request ends, and may change the status of its row, or its state.     *)
Concludes(r, c, entry) ==
  /\ Settled(r) /\ FinishRequest(r) /\ c = work[r].row
  /\ coupon' = [coupon EXCEPT ![c] = entry]
  /\ entry \in CouponRow /\ entry.ids = coupon[c].ids
  /\ entry.state = coupon[c].state \/ entry.state = "DELETED"
  /\ entry.sync = coupon[c].sync \/ Live(c)
  /\ entry.state = "LIVE" =>
        /\ entry.sync = "SYNCED" => \A s \in Store : entry.ids[s] # NoId
        /\ entry.sync = "PARTIAL" => \E s \in Store : entry.ids[s] # NoId
  /\ UNCHANGED <<late, shop, issued, unheard>>

LEMMA ConcludeStep ==
  ASSUME CouponsIInv, NEW r \in CouponRequest, NEW c \in CouponId, NEW entry,
         Concludes(r, c, entry)
  PROVE  CouponsIInv'
<1>1. /\ CouponsTypeOK /\ OneLive /\ RowsBegin /\ IdsAreIssued /\ SavesWhatIsThere
      /\ SyncedHasIds /\ NamesTheCoupon /\ \A q \in CouponRequest : WorkIsFounded(q)
      /\ UNCHANGED <<late, shop, issued, unheard>>
      /\ work[r].op # "idle" /\ \A s \in Store : ~Saving(r, s)
  BY DEF CouponsIInv, IdsAreTrue, Concludes, Settled, Saving
<1>2. /\ coupon' \in [CouponId -> CouponRow] /\ coupon'[c] = entry
      /\ \A d \in CouponId : d # c => coupon'[d] = coupon[d]
      /\ \A d \in CouponId : coupon'[d].ids = coupon[d].ids
      /\ \A d \in CouponId : coupon'[d].state \in {coupon[d].state, "DELETED"}
      /\ \A d \in CouponId : coupon'[d].sync = coupon[d].sync \/ coupon[d].state = "LIVE"
  BY <1>1 DEF Concludes, CouponsTypeOK, Live
<1>3. /\ work' \in [CouponRequest -> CouponRequestState] /\ work'[r] = NoWork
      /\ \A q \in CouponRequest : q # r => work'[q] = work[q]
      /\ NoWork.op = "idle" /\ \A s \in Store : NoWork.ids[s] = NoId /\ NoWork.stage[s] = "done"
  BY <1>1, IdTypes DEF Concludes, FinishRequest, CouponsTypeOK
<1>4. CouponsTypeOK' /\ OneLive' /\ RowsBegin'
  BY <1>1, <1>2, <1>3 DEF CouponsTypeOK, OneLive, RowsBegin, Live
<1>5. IdsAreIssued'
  BY <1>1, <1>2, <1>3, IdTypes, CouponFacts DEF IdsAreIssued
<1>6. ASSUME NEW q \in CouponRequest PROVE WorkIsFounded(q)'
  <2>1. WorkIsFounded(q)
    BY <1>1
  <2>2. CASE q = r
    BY <1>3, <2>2 DEF WorkIsFounded
  <2>3. CASE q # r
    BY <1>1, <1>2, <1>3, <2>1, <2>3 DEF WorkIsFounded
  <2> QED BY <2>2, <2>3
<1>7. \A q \in CouponRequest, t \in Store :
        /\ Saving(q, t)' <=> Saving(q, t)
        /\ Saving(q, t) => work'[q] = work[q]
  BY <1>1, <1>3 DEF Saving
<1>8. SavesWhatIsThere'
  <2>1. \A t \in Store : \A id : id # NoId /\ Unknown(t, id) => Unknown(t, id)'
    BY <1>1, <1>2, <1>3 DEF Unknown
  <2> QED BY <1>1, <1>7, <2>1 DEF SavesWhatIsThere
<1>9. SyncedHasIds'
  BY <1>1, <1>2 DEF SyncedHasIds, Live, Concludes
<1>10. NamesTheCoupon'
  BY <1>1, <1>2, <1>7 DEF NamesTheCoupon, Live, Saving
<1> QED BY <1>1, <1>4, <1>5, <1>6, <1>8, <1>9, <1>10 DEF CouponsIInv, IdsAreTrue

LEMMA FinishStep ==
  ASSUME CouponsIInv, NEW r \in CouponRequest, FinishSync(r) \/ FinishRemove(r)
  PROVE  CouponsIInv'
<1>1. /\ CouponsTypeOK /\ SyncedHasIds /\ WorkIsFounded(r) /\ Settled(r) /\ FinishRequest(r)
      /\ UNCHANGED <<late, shop, issued, unheard>> /\ work[r].op # "idle"
  BY DEF CouponsIInv, IdsAreTrue, FinishSync, FinishRemove, Settled
<1>2. PICK c \in CouponId : c = work[r].row
  BY <1>1 DEF WorkIsFounded
<1>3. coupon \in [CouponId -> CouponRow] /\ coupon[c] \in CouponRow
  BY <1>1 DEF CouponsTypeOK
<1>4. CASE coupon' = coupon
  <2>1. Concludes(r, c, coupon[c])
    <3>1. coupon' = [coupon EXCEPT ![c] = coupon[c]]
      BY <1>3, <1>4
    <3> QED BY <1>1, <1>2, <1>3, <3>1 DEF Concludes, SyncedHasIds, Live
  <2> QED BY <2>1, ConcludeStep
<1>5. CASE /\ Live(c) /\ work[r].op = "sync"
           /\ coupon' = [coupon EXCEPT ![c].sync = SyncResult(r)]
  <2>1. PICK entry : entry = [coupon[c] EXCEPT !.sync = SyncResult(r)]
    OBVIOUS
  <2>2. SyncResult(r) \in CouponSyncStatus
    BY DEF SyncResult, CouponSyncStatus
  <2>3. /\ entry \in CouponRow /\ entry.ids = coupon[c].ids /\ entry.state = coupon[c].state
        /\ entry.sync = SyncResult(r) /\ coupon' = [coupon EXCEPT ![c] = entry]
    BY <1>3, <1>5, <2>1, <2>2 DEF CouponRow
  <2>4. \A s \in Succeeded(r) : s \in Store /\ coupon[c].ids[s] # NoId
    BY <1>1, <1>2, <1>5 DEF WorkIsFounded, Succeeded
  <2>5. SyncResult(r) = "SYNCED" => \A s \in Store : coupon[c].ids[s] # NoId
    <3>1. SyncResult(r) = "SYNCED" => Succeeded(r) = Store
      BY DEF SyncResult
    <3> QED BY <2>4, <3>1
  <2>6. SyncResult(r) = "PARTIAL" => \E s \in Store : coupon[c].ids[s] # NoId
    <3>1. SyncResult(r) = "PARTIAL" => Succeeded(r) # {}
      BY DEF SyncResult
    <3> QED BY <2>4, <3>1
  <2>7. Concludes(r, c, entry)
    BY <1>1, <1>2, <1>5, <2>3, <2>5, <2>6 DEF Concludes
  <2> QED BY <2>7, ConcludeStep
<1>6. CASE Live(c) /\ coupon' = [coupon EXCEPT ![c].state = "DELETED"]
  <2>1. PICK entry : entry = [coupon[c] EXCEPT !.state = "DELETED"]
    OBVIOUS
  <2>2. /\ entry \in CouponRow /\ entry.ids = coupon[c].ids /\ entry.state = "DELETED"
        /\ entry.sync = coupon[c].sync /\ coupon' = [coupon EXCEPT ![c] = entry]
    BY <1>3, <1>6, <2>1 DEF CouponRow
  <2>3. Concludes(r, c, entry)
    BY <1>1, <1>2, <2>2 DEF Concludes
  <2> QED BY <2>3, ConcludeStep
<1> QED BY <1>1, <1>2, <1>4, <1>5, <1>6 DEF FinishSync, FinishRemove

LEMMA CouponsRestartStep ==
  ASSUME CouponsIInv, CouponsRestart
  PROVE  CouponsIInv'
<1>1. /\ CouponsTypeOK /\ OneLive /\ RowsBegin /\ IdsAreIssued /\ SavesWhatIsThere
      /\ SyncedHasIds /\ NamesTheCoupon /\ \A q \in CouponRequest : WorkIsFounded(q)
      /\ UNCHANGED <<coupon, shop, issued>> /\ work' = [r \in CouponRequest |-> NoWork]
  BY DEF CouponsIInv, IdsAreTrue, CouponsRestart
<1>2. \A q \in CouponRequest : /\ work'[q] = NoWork /\ NoWork \in CouponRequestState
                               /\ NoWork.op = "idle" /\ NoWork.ids = NoIds
                               /\ \A s \in Store : NoWork.stage[s] = "done" /\ NoIds[s] = NoId
  BY <1>1, IdTypes
<1>3. /\ \A k \in late' : k \in late \/ \E q \in CouponRequest, t \in Store : k = CallOf(q, t)
      /\ late' \subseteq Call
  <2>1. \A k \in late' : k \in late \/ \E q \in CouponRequest, t \in Store : k = CallOf(q, t)
    BY DEF CouponsRestart, GiveUp
  <2> QED BY <1>1, <2>1, CallFacts DEF CouponsTypeOK
<1>4. /\ unheard' \subseteq Store \X Id /\ unheard \subseteq unheard'
      /\ \A q \in CouponRequest, t \in Store : Saving(q, t) => <<t, shop[t]>> \in unheard'
  <2>1. \A q \in CouponRequest, t \in Store : Saving(q, t) =>
            work[q].got[t] = shop[t] /\ shop[t] \in Id
    BY <1>1, IdTypes, CouponFacts DEF SavesWhatIsThere
  <2>2. \A u \in unheard' : u \in unheard \/
            \E q \in CouponRequest, t \in Store : Saving(q, t) /\ u = <<t, work[q].got[t]>>
    BY DEF CouponsRestart, Saving
  <2>3. \A q \in CouponRequest, t \in Store : Saving(q, t) =>
            <<t, work[q].got[t]>> \in unheard'
    <3>1. SUFFICES ASSUME NEW q \in CouponRequest, NEW t \in Store, Saving(q, t)
                   PROVE  <<t, work[q].got[t]>> \in unheard'
      OBVIOUS
    <3>2. PICK p : p = <<q, t>>
      OBVIOUS
    <3>3. /\ p \in {o \in CouponRequest \X Store : work[o[1]].stage[o[2]] = "save"}
          /\ <<t, work[q].got[t]>> = <<p[2], work[p[1]].got[p[2]]>>
      BY <3>1, <3>2 DEF Saving
    <3> QED BY <3>3 DEF CouponsRestart
  <2>4. unheard \subseteq unheard'
    BY DEF CouponsRestart
  <2>5. \A u \in unheard' : u \in Store \X Id
    BY <1>1, <2>1, <2>2 DEF CouponsTypeOK
  <2> QED BY <2>1, <2>3, <2>4, <2>5
<1>5. CouponsTypeOK'
  BY <1>1, <1>2, <1>3, <1>4 DEF CouponsTypeOK
<1>6. OneLive' /\ RowsBegin' /\ SyncedHasIds'
  BY <1>1 DEF OneLive, RowsBegin, SyncedHasIds, Live
<1>7. IdsAreIssued'
  <2>1. \A k \in late', t \in Store : k.store = t => k.id <= issued[t]
    BY <1>1, <1>3, CallFacts DEF IdsAreIssued
  <2>2. \A t \in Store : NoId <= issued[t]
    BY <1>1, IdTypes DEF CouponsTypeOK
  <2> QED BY <1>1, <1>2, <2>1, <2>2 DEF IdsAreIssued
<1>8. (\A q \in CouponRequest : WorkIsFounded(q)') /\ SavesWhatIsThere'
  BY <1>2 DEF WorkIsFounded, SavesWhatIsThere, Saving
<1>9. NamesTheCoupon'
  BY <1>1, <1>4 DEF NamesTheCoupon, Saving, Live
<1> QED BY <1>5, <1>6, <1>7, <1>8, <1>9 DEF CouponsIInv, IdsAreTrue

(* The rows, the requests and the stores agree, whatever was lost.         *)
THEOREM CouponsAreSound == CouponsSpec => []CouponsIInv
<1>1. CouponsInit => CouponsIInv
  <2>1. SUFFICES ASSUME CouponsInit PROVE CouponsIInv
    OBVIOUS
  <2>2. CouponsTypeOK
    BY <2>1, IdTypes DEF CouponsInit, CouponsTypeOK, CouponRow, CouponSyncStatus
  <2> QED BY <2>1, <2>2, IdTypes
          DEF CouponsInit, CouponsIInv, OneLive, RowsBegin, IdsAreIssued, WorkIsFounded,
              SavesWhatIsThere, Saving, IdsAreTrue, SyncedHasIds, NamesTheCoupon, Live
<1>2. CouponsIInv /\ [CouponsNext]_couponVars => CouponsIInv'
  <2>1. SUFFICES ASSUME CouponsIInv, [CouponsNext]_couponVars PROVE CouponsIInv'
    OBVIOUS
  <2>2. CASE UNCHANGED couponVars
    BY <2>1, <2>2
       DEF couponVars, CouponsIInv, CouponsTypeOK, OneLive, RowsBegin, IdsAreIssued,
           WorkIsFounded, SavesWhatIsThere, Saving, Unknown, IdsAreTrue, SyncedHasIds,
           NamesTheCoupon, Live
  <2>3. CASE Local \/ StartCall
    BY <2>1, <2>3, LocalStep, BeginStep DEF Local, StartCall
  <2>4. ASSUME NEW r \in CouponRequest, NEW s \in Store,
               StoreRefuses(r, s) \/ StoreUnanswered(r, s)
        PROVE  CouponsIInv'
    <3>1. CouponsTypeOK
      BY <2>1 DEF CouponsIInv
    <3>2. CASE StoreRefuses(r, s)
      <4>1. work[r].op = "remove" /\ ~Applies(CallOf(r, s)) => shop[s] # work[r].ids[s]
        BY <3>1, CallFacts DEF Applies
      <4>2. \E st \in {"failed", "done"} : Quiet(r, s, st)
        BY <3>2, <4>1 DEF StoreRefuses, Quiet
      <4> QED BY <2>1, <4>2, QuietStep
    <3>3. CASE StoreUnanswered(r, s)
      <4>1. \E st \in {"failed", "retry"} : Quiet(r, s, st)
        BY <3>3 DEF StoreUnanswered, Quiet, GiveUp
      <4> QED BY <2>1, <4>1, QuietStep
    <3> QED BY <2>4, <3>2, <3>3
  <2>5. ASSUME NEW r \in CouponRequest, NEW s \in Store, StoreAccepts(r, s)
        PROVE  CouponsIInv'
    BY <2>1, <2>5, AcceptStep DEF StoreAccepts, CarryOut
  <2>6. CASE (\E r \in CouponRequest : ContinueWith(r)) \/ \E k \in late : LateCall(k)
    BY <2>1, <2>4, <2>6, SaveStep, FinishStep, LateStep DEF ContinueWith
  <2> QED BY <2>1, <2>2, <2>3, <2>4, <2>5, <2>6, CouponsRestartStep DEF CouponsNext, Answer
<1> QED BY <1>1, <1>2, PTL DEF CouponsSpec

(* Status and identifiers of a coupon tell the truth about the stores.     *)
THEOREM IdsHold == CouponsSpec => []IdsAreTrue
<1>1. CouponsIInv => IdsAreTrue
  BY DEF CouponsIInv
<1> QED BY <1>1, CouponsAreSound, PTL

(* A row is deleted by the request that deleted, or found gone, every      *)
(* coupon that it knew of.                                                 *)
THEOREM NothingIsForgotten == CouponsSpec => ForgetsNothing
<1>1. ASSUME CouponsIInv, [CouponsNext]_couponVars,
             NEW r \in CouponRequest, NEW c \in CouponId,
             work[r].row = c, work'[r].op = "idle",
             Live(c), coupon'[c].state = "DELETED",
             NEW s \in Store, work[r].ids[s] # NoId
      PROVE  shop'[s] # work[r].ids[s]
  <2>1. /\ \A q \in CouponRequest : WorkIsFounded(q)
        /\ coupon \in [CouponId -> CouponRow] /\ work \in [CouponRequest -> CouponRequestState]
        /\ work[r].op # "idle"
    BY <1>1, IdTypes DEF CouponsIInv, CouponsTypeOK, WorkIsFounded
  <2>2. PICK q \in CouponRequest : FinishRemove(q) /\ coupon' # coupon
    <3>1. coupon'[c].state # coupon[c].state
      BY <1>1 DEF Live
    <3>2. CASE UNCHANGED coupon
      BY <3>1, <3>2
    <3>3. CASE Local
      <4>1. PICK d \in CouponId : CreateCoupon(d) \/ UpdateCoupon(d)
        BY <3>3 DEF Local
      <4>2. coupon'[c].state # "DELETED"
        BY <1>1, <2>1, <4>1 DEF CreateCoupon, UpdateCoupon, Live, CouponRow
      <4> QED BY <1>1, <4>2
    <3>4. ASSUME NEW q \in CouponRequest, FinishSync(q) PROVE FALSE
      BY <1>1, <2>1, <3>1, <3>4 DEF FinishSync, Live, CouponRow
    <3>5. ASSUME NEW q \in CouponRequest, NEW t \in Store, SaveExternalId(q, t) PROVE FALSE
      <4>1. PICK entry : entry = [coupon[work[q].row] EXCEPT !.ids = [@ EXCEPT ![t] = work[q].got[t]]]
        OBVIOUS
      <4>2. CASE Live(work[q].row) /\ coupon' = [coupon EXCEPT ![work[q].row] = entry]
        BY <1>1, <2>1, <3>1, <4>1, <4>2 DEF Live, CouponRow
      <4> QED BY <2>1, <3>1, <3>5, <4>1, <4>2 DEF SaveExternalId, Live
    <3>6. \A q \in CouponRequest, t \in Store :
            StoreAccepts(q, t) \/ StoreRefuses(q, t) \/ StoreUnanswered(q, t)
            => UNCHANGED coupon
      BY DEF StoreAccepts, StoreRefuses, StoreUnanswered
    <3>7. StartCall \/ (\E k \in late : LateCall(k)) \/ CouponsRestart => UNCHANGED coupon
      BY DEF StartCall, SyncBegin, RemoveBegin, Begin, LateCall, CouponsRestart
    <3>8. UNCHANGED couponVars => UNCHANGED coupon
      BY DEF couponVars
    <3> QED BY <1>1, <3>1, <3>2, <3>3, <3>4, <3>5, <3>6, <3>7, <3>8
            DEF CouponsNext, Answer, ContinueWith
  <2>3. q = r
    BY <1>1, <2>1, <2>2 DEF FinishRemove, FinishRequest
  <2>4. shop' = shop /\ work[r].op = "remove" /\ Succeeded(r) = Store
    BY <2>2, <2>3 DEF FinishRemove, Deletable
  <2>5. work[r].stage[s] = "done"
    BY <2>4 DEF Succeeded
  <2> QED BY <1>1, <2>1, <2>4, <2>5 DEF WorkIsFounded
<1>2. CouponsIInv /\ [CouponsNext]_couponVars =>
      [\A r \in CouponRequest, c \in CouponId :
        /\ work[r].row = c /\ work'[r].op = "idle"
        /\ Live(c) /\ coupon'[c].state = "DELETED"
        => \A s \in Store :
            work[r].ids[s] # NoId => shop'[s] # work[r].ids[s]]_couponVars
  BY <1>1
<1> QED BY <1>2, CouponsAreSound, PTL DEF CouponsSpec, ForgetsNothing

-----------------------------------------------------------------------------
(* The products                                                            *)

LEMMA WriterFacts ==
  ASSUME MirrorTypeOK, NEW w \in Writer
  PROVE  /\ writer[w] \in WriterState
         /\ writer[w] = Unoccupied <=> writer[w].at = "idle"
         /\ writer[w].at \in {"look", "link"} =>
                writer[w].row \in {0} \cup RowNumber /\ writer[w].siigo \in Price
         /\ writer[w].at \in {"publish", "refused", "published"} => writer[w].row \in RowNumber
         /\ writer[w].at \in {"link", "publish", "refused", "published"} => writer[w].woo \in Price
         /\ writer[w].at \in {"link", "published", "report", "record"} =>
                writer[w].fresh \in BOOLEAN
         /\ writer[w].at \in {"report", "record"} =>
                writer[w].siigo \in Price /\ writer[w].woo \in WooReport
         /\ writer[w].at = "record" => writer[w].status \in SyncStatus
<1>1. writer[w] \in WriterState
  BY DEF MirrorTypeOK
<1> QED BY <1>1 DEF WriterState, Unoccupied

LEMMA WriterMoves ==
  ASSUME MirrorTypeOK, NEW w \in Writer, NEW state \in WriterState, WriterAt(w, state)
  PROVE  /\ writer' \in [Writer -> WriterState] /\ writer'[w] = state
         /\ \A o \in Writer : o # w => writer'[o] = writer[o]
  BY DEF MirrorTypeOK, WriterAt

LEMMA OutdatedFacts ==
  ASSUME NEW st \in WriterState
  PROVE  /\ Outdated(st) \in WriterState /\ Outdated(st).at = st.at
         /\ st.at \in {"link", "published", "report", "record"} =>
                Outdated(st).fresh = FALSE /\ Outdated(st).woo = st.woo
         /\ st.at \in {"published", "link"} => Outdated(st).row = st.row
         /\ st.at = "record" =>
                Outdated(st).status = st.status /\ Outdated(st).siigo = st.siigo
         /\ st.at \notin {"link", "published", "report", "record"} => Outdated(st) = st
<1>1. CASE st \in [at : {"link"}, row : {0} \cup RowNumber, siigo : Price, woo : Price,
                   fresh : BOOLEAN]
  BY <1>1 DEF Outdated, WriterState
<1>2. CASE st \in [at : {"published"}, row : RowNumber, woo : Price, fresh : BOOLEAN]
  BY <1>2 DEF Outdated, WriterState
<1>3. CASE st \in [at : {"report"}, siigo : Price, woo : WooReport, fresh : BOOLEAN]
  BY <1>3 DEF Outdated, WriterState
<1>4. CASE st \in [at : {"record"}, siigo : Price, woo : WooReport, fresh : BOOLEAN,
                   status : SyncStatus]
  BY <1>4 DEF Outdated, WriterState
<1>5. CASE st \in [at : {"idle"}]
  BY <1>5 DEF Outdated, WriterState
<1>6. CASE st \in [at : {"look"}, row : {0} \cup RowNumber, siigo : Price]
  BY <1>6 DEF Outdated, WriterState
<1>7. CASE st \in [at : {"publish", "refused"}, row : RowNumber, woo : Price]
  BY <1>7 DEF Outdated, WriterState
<1> QED BY <1>1, <1>2, <1>3, <1>4, <1>5, <1>6, <1>7 DEF WriterState

LEMMA MirrorRows ==
  ASSUME MirrorTypeOK
  PROVE  /\ links \in Nat /\ MaxLinks \in Nat /\ RowNumber = 1..MaxLinks
         /\ There => product \in Mirror /\ product.row \in RowNumber
         /\ ~There => product.row = 0
         /\ siigoHas \in Price /\ shopHas \in Price
  BY MirrorAssumption DEF MirrorTypeOK, There, NoProduct, RowNumber, Mirror

RowsTyped ==
  /\ {siigoHas, shopHas} \subseteq Price /\ product \in Mirror \cup {NoProduct}
  /\ links \in 0..MaxLinks /\ product.row <= links /\ {overlapped, apart} \subseteq BOOLEAN
Moves(w, st) ==
  /\ writer' \in [Writer -> WriterState] /\ writer'[w] = st
  /\ \A o \in Writer : o # w /\ writer[o] = Unoccupied => writer'[o] = Unoccupied
Agrees ==
  There /\ product.status = "SYNCED" /\ ~overlapped => product.siigo = product.woo
Knows(w) == FreshIsShops(w) /\ FitsTheRow(w)

(* A request moves, alone unless two ever overlapped.                      *)
LEMMA WriterIsSound ==
  ASSUME NEW w \in Writer, NEW st \in WriterState, Moves(w, st),
         RowsTyped', Agrees',
         ~overlapped' => /\ \A o \in Writer : o # w => writer[o] = Unoccupied
                         /\ Knows(w)' /\ ShopIsKnown'
  PROVE  MirrorIInv'
<1>1. MirrorTypeOK'
  BY DEF RowsTyped, Moves, MirrorTypeOK
<1>2. ASSUME ~overlapped'
      PROVE  WorksAlone' /\ \A o \in Writer : FreshIsShops(o)' /\ FitsTheRow(o)'
  <2>1. \A o \in Writer : o # w => writer'[o] = Unoccupied
    BY <1>2 DEF Moves
  <2>2. \A o \in Writer : o # w => FreshIsShops(o)' /\ FitsTheRow(o)'
    BY <2>1 DEF FreshIsShops, FitsTheRow, Unoccupied
  <2> QED BY <1>2, <2>1, <2>2 DEF WorksAlone, AtWork, Knows
<1> QED BY <1>1, <1>2 DEF MirrorIInv, Agrees

LEMMA MirrorHere ==
  ASSUME MirrorIInv
  PROVE  /\ MirrorTypeOK /\ RowsTyped /\ Agrees
         /\ ~overlapped => ShopIsKnown /\ \A w \in Writer : Knows(w)
         /\ ~overlapped => \A w, o \in Writer : AtWork(w) /\ o # w => writer[o] = Unoccupied
  BY DEF MirrorIInv, MirrorTypeOK, RowsTyped, Agrees, Knows, WorksAlone, AtWork

LEMMA BeginSteps ==
  ASSUME MirrorIInv, NEW w \in Writer,
         BeginLink(w) \/ BeginPublication(w) \/ N8nReports(w)
  PROVE  MirrorIInv'
<1>1. /\ MirrorTypeOK /\ RowsTyped /\ Agrees /\ (~overlapped => ShopIsKnown)
  BY MirrorHere
<1>2. ASSUME NEW st \in WriterState, Begins(w, st)
      PROVE  /\ Moves(w, st) /\ writer[w] = Unoccupied
             /\ overlapped' \in BOOLEAN /\ (~overlapped' => ~overlapped)
             /\ ~overlapped' => \A o \in Writer : o # w => writer[o] = Unoccupied
  BY <1>1, <1>2, WriterMoves DEF Begins, Moves, RowsTyped
<1>3. CASE BeginLink(w)
  <2> DEFINE st == [at |-> "look", siigo |-> siigoHas, row |-> product.row]
  <2>1. st \in WriterState
    BY <1>1, MirrorRows DEF WriterState, There, RowNumber
  <2>2. Begins(w, st) /\ UNCHANGED <<siigoHas, shopHas, product, links, apart>>
    BY <1>3 DEF BeginLink
  <2>3. st.at = "look"
    OBVIOUS
  <2> HIDE DEF st
  <2>4. RowsTyped' /\ Agrees'
    BY <1>1, <1>2, <2>1, <2>2 DEF RowsTyped, Agrees, There
  <2>5. ~overlapped' => Knows(w)' /\ ShopIsKnown'
    <3>1. \A o \in Writer : writer[o] # Unoccupied => o # w
      BY <1>2, <2>1, <2>2
    <3>2. writer'[w] = st
      BY <1>2, <2>1, <2>2 DEF Moves
    <3> QED BY <1>1, <1>2, <2>1, <2>2, <2>3, <3>2
            DEF Knows, FreshIsShops, FitsTheRow, ShopIsKnown, There, Unoccupied
  <2> QED BY <1>2, <2>1, <2>2, <2>4, <2>5, WriterIsSound
<1>4. CASE BeginPublication(w)
  <2> DEFINE st == [at |-> "publish", row |-> product.row, woo |-> product.siigo]
  <2>1. st \in WriterState
    BY <1>1, <1>4, MirrorRows DEF WriterState, RowNumber, BeginPublication, Mirror
  <2>2. Begins(w, st) /\ UNCHANGED <<siigoHas, shopHas, product, links, apart>>
    BY <1>4 DEF BeginPublication
  <2>3. st.at = "publish" /\ st.row = product.row /\ st.woo = product.siigo
    OBVIOUS
  <2> HIDE DEF st
  <2>4. RowsTyped' /\ Agrees'
    BY <1>1, <1>2, <2>1, <2>2 DEF RowsTyped, Agrees, There
  <2>5. ~overlapped' => Knows(w)' /\ ShopIsKnown'
    <3>1. writer'[w] = st
      BY <1>2, <2>1, <2>2 DEF Moves
    <3> QED BY <1>1, <1>2, <2>1, <2>2, <2>3, <3>1
            DEF Knows, FreshIsShops, FitsTheRow, ShopIsKnown, There, Unoccupied
  <2> QED BY <1>2, <2>1, <2>2, <2>4, <2>5, WriterIsSound
<1>5. CASE N8nReports(w)
  <2>1. PICK woo \in {siigoHas, "failed", "none"} :
          /\ Begins(w, [at |-> "report", siigo |-> siigoHas, woo |-> woo, fresh |-> TRUE])
          /\ shopHas' = IF woo \in Price THEN woo ELSE shopHas
    BY <1>5 DEF N8nReports
  <2>2. There /\ UNCHANGED <<siigoHas, product, links, apart>>
    BY <1>5 DEF N8nReports
  <2> DEFINE st == [at |-> "report", siigo |-> siigoHas, woo |-> woo, fresh |-> TRUE]
  <2>3. st \in WriterState /\ Begins(w, st)
    BY <1>1, <2>1, MirrorRows DEF WriterState, WooReport
  <2>4. st.at = "report" /\ st.woo = woo
    OBVIOUS
  <2> HIDE DEF st
  <2>5. RowsTyped' /\ Agrees'
    BY <1>1, <1>2, <2>1, <2>2, <2>3 DEF RowsTyped, Agrees, There
  <2>6. ~overlapped' => Knows(w)' /\ ShopIsKnown'
    <3>1. writer'[w] = st
      BY <1>2, <2>3 DEF Moves
    <3> QED BY <1>1, <1>2, <2>1, <2>2, <2>3, <2>4, <3>1
            DEF Knows, FreshIsShops, FitsTheRow, ShopIsKnown, There, Unoccupied
  <2> QED BY <1>2, <2>3, <2>5, <2>6, WriterIsSound
<1> QED BY <1>3, <1>4, <1>5

(* What others do: the product changes in Siigo, in the store, or is gone. *)
LEMMA MirrorOutside ==
  ASSUME MirrorIInv,
         RemoveProduct \/ \E value \in Price : SiigoChanges(value) \/ ShopChanges(value)
  PROVE  MirrorIInv'
<1>1. /\ MirrorTypeOK /\ RowsTyped /\ Agrees
      /\ ~overlapped => WorksAlone /\ ShopIsKnown /\ \A w \in Writer : Knows(w)
  BY MirrorHere DEF MirrorIInv
<1>2. ASSUME NEW value \in Price, SiigoChanges(value) PROVE MirrorIInv'
  <2>1. siigoHas' = value /\ UNCHANGED <<shopHas, product, links, writer, overlapped, apart>>
    BY <1>2 DEF SiigoChanges
  <2> QED BY <1>1, <2>1
          DEF MirrorIInv, MirrorTypeOK, Agrees, WorksAlone, AtWork, Knows, FreshIsShops,
              FitsTheRow, ShopIsKnown, There, WebhookStatus, Status
<1>3. ASSUME NEW value \in Price, ShopChanges(value) PROVE MirrorIInv'
  <2>1. /\ shopHas' = value /\ apart' = TRUE
        /\ writer' = [w \in Writer |-> Outdated(writer[w])]
        /\ UNCHANGED <<siigoHas, product, links, overlapped>>
    BY <1>3 DEF ShopChanges
  <2>2. \A w \in Writer : writer[w] \in WriterState /\ writer'[w] = Outdated(writer[w])
    BY <1>1, <2>1 DEF MirrorTypeOK
  <2>3. MirrorTypeOK' /\ Agrees'
    BY <1>1, <2>1, <2>2, OutdatedFacts DEF MirrorTypeOK, Agrees, There
  <2>4. ASSUME ~overlapped, NEW w \in Writer PROVE FreshIsShops(w)' /\ FitsTheRow(w)'
    <3>1. Knows(w)
      BY <1>1, <2>4
    <3>2. FreshIsShops(w)'
      <4>1. /\ writer'[w].at = writer[w].at
            /\ writer[w].at \in {"link", "published", "report", "record"} =>
                    writer'[w].fresh = FALSE
        BY <2>2, OutdatedFacts
      <4> QED BY <4>1 DEF FreshIsShops
    <3>3. writer[w].at \in {"publish"} => writer'[w] = writer[w]
      BY <2>2, OutdatedFacts
    <3>4. writer[w].at = "record" => WebhookStatus(writer[w])' = WebhookStatus(writer[w])
      BY <2>1, <2>2, OutdatedFacts DEF WebhookStatus, Status
    <3> QED BY <2>1, <2>2, <3>1, <3>2, <3>3, <3>4, OutdatedFacts DEF FitsTheRow, Knows, There
  <2>5. ~overlapped => WorksAlone'
    <3>1. \A w \in Writer : writer[w] = Unoccupied => writer'[w] = Unoccupied
      <4>1. Unoccupied \in WriterState /\ Unoccupied.at = "idle"
        BY DEF Unoccupied, WriterState
      <4>2. Outdated(Unoccupied) = Unoccupied
        BY <4>1, OutdatedFacts
      <4> QED BY <2>2, <4>2
    <3> QED BY <1>1, <3>1 DEF WorksAlone, AtWork
  <2> QED BY <2>1, <2>3, <2>4, <2>5 DEF MirrorIInv, Agrees, ShopIsKnown
<1>4. CASE RemoveProduct
  <2>1. ~There' /\ product' = NoProduct /\ UNCHANGED <<siigoHas, shopHas, links, writer, overlapped, apart>>
    BY <1>4 DEF RemoveProduct, There
  <2>2. MirrorTypeOK'
    <3>1. NoProduct.row = 0 /\ links \in Nat
      BY <1>1, MirrorRows DEF NoProduct
    <3> QED BY <1>1, <2>1, <3>1 DEF MirrorTypeOK
  <2> QED BY <1>1, <2>1, <2>2
          DEF MirrorIInv, WorksAlone, AtWork, Knows, FreshIsShops, FitsTheRow, ShopIsKnown
<1> QED BY <1>2, <1>3, <1>4

LEMMA LinkSteps ==
  ASSUME MirrorIInv, NEW w \in Writer,
         LinkRefused(w) \/ LookAtShop(w) \/ SaveLink(w) \/ LinkConflicts(w)
  PROVE  MirrorIInv'
<1>1. /\ MirrorTypeOK /\ RowsTyped /\ Agrees /\ writer[w].at \in {"look", "link"}
      /\ ~overlapped => ShopIsKnown /\ Knows(w)
      /\ overlapped' = overlapped
      /\ ~overlapped => \A o \in Writer : o # w => writer[o] = Unoccupied
  BY MirrorHere DEF LinkRefused, LookAtShop, SaveLink, LinkConflicts, AtWork, Unoccupied
<1>2. /\ writer[w].row \in {0} \cup RowNumber /\ writer[w].siigo \in Price
      /\ writer[w].at = "link" => writer[w].woo \in Price /\ writer[w].fresh \in BOOLEAN
  BY <1>1, WriterFacts
<1>3. Unoccupied \in WriterState /\ Unoccupied.at = "idle"
  BY DEF Unoccupied, WriterState
<1>4. ~overlapped /\ There => product.woo = shopHas \/ apart
  <2>1. ~overlapped => \A o \in Writer : writer[o].at \notin {"published", "report", "record"}
    BY <1>1, <1>3
  <2> QED BY <1>1, <2>1 DEF ShopIsKnown
<1>5. CASE LinkRefused(w) \/ LinkConflicts(w)
  <2>1. /\ WriterAt(w, Unoccupied)
        /\ UNCHANGED <<siigoHas, shopHas, product, links, overlapped, apart>>
    BY <1>5 DEF LinkRefused, LinkConflicts
  <2>2. Moves(w, Unoccupied)
    BY <1>1, <1>3, <2>1, WriterMoves DEF Moves
  <2>3. RowsTyped' /\ Agrees' /\ (~overlapped' => Knows(w)' /\ ShopIsKnown')
    BY <1>1, <1>3, <1>4, <2>1, <2>2
       DEF RowsTyped, Agrees, There, Moves, Knows, FreshIsShops, FitsTheRow, ShopIsKnown
  <2> QED BY <1>1, <1>3, <2>2, <2>3, WriterIsSound
<1>6. CASE LookAtShop(w)
  <2> DEFINE st == [at |-> "link", row |-> writer[w].row, fresh |-> TRUE,
                    siigo |-> writer[w].siigo, woo |-> shopHas]
  <2>1. st \in WriterState /\ st.at = "link" /\ st.woo = shopHas
    BY <1>1, <1>2, MirrorRows DEF WriterState
  <2>2. /\ WriterAt(w, st)
        /\ UNCHANGED <<siigoHas, shopHas, product, links, overlapped, apart>>
    BY <1>6 DEF LookAtShop
  <2> HIDE DEF st
  <2>3. Moves(w, st)
    BY <1>1, <2>1, <2>2, WriterMoves DEF Moves
  <2>4. RowsTyped' /\ Agrees' /\ (~overlapped' => Knows(w)' /\ ShopIsKnown')
    BY <1>1, <1>4, <2>1, <2>2, <2>3
       DEF RowsTyped, Agrees, There, Moves, Knows, FreshIsShops, FitsTheRow, ShopIsKnown
  <2> QED BY <1>1, <2>1, <2>3, <2>4, WriterIsSound
<1>7. CASE SaveLink(w)
  <2>1. PICK number :
          /\ number = IF writer[w].row = 0 THEN links + 1 ELSE writer[w].row
          /\ number <= MaxLinks /\ product.row = writer[w].row /\ writer[w].at = "link"
          /\ product' = [row |-> number, siigo |-> writer[w].siigo, woo |-> writer[w].woo,
                         status |-> Status(writer[w].siigo, writer[w].woo)]
          /\ links' = IF writer[w].row = 0 THEN number ELSE links
          /\ apart' = ~writer[w].fresh
          /\ WriterAt(w, Unoccupied)
          /\ UNCHANGED <<siigoHas, shopHas, overlapped>>
    BY <1>7 DEF SaveLink
  <2>2. number \in RowNumber /\ number <= links' /\ links' \in 0..MaxLinks
    BY <1>1, <1>2, <2>1, MirrorRows DEF RowsTyped
  <2>3. /\ product' \in Mirror /\ product'.siigo = writer[w].siigo
        /\ product'.woo = writer[w].woo /\ product'.row = number
        /\ product'.status = Status(writer[w].siigo, writer[w].woo)
    BY <1>2, <2>1, <2>2 DEF Mirror, Status, SyncStatus
  <2>4. Moves(w, Unoccupied)
    BY <1>1, <1>3, <2>1, WriterMoves DEF Moves
  <2>5. RowsTyped' /\ Agrees'
    BY <1>1, <1>2, <2>1, <2>2, <2>3 DEF RowsTyped, Agrees, Status
  <2>6. ~overlapped' => Knows(w)' /\ ShopIsKnown'
    <3>1. ~overlapped /\ writer[w].fresh => writer[w].woo = shopHas
      BY <1>1, <2>1 DEF Knows, FreshIsShops
    <3>2. CASE writer[w].fresh = TRUE
      <4>1. ~overlapped' => product'.woo = shopHas'
        BY <2>1, <2>3, <3>1, <3>2
      <4> QED BY <1>3, <2>4, <4>1
              DEF Moves, Knows, FreshIsShops, FitsTheRow, ShopIsKnown
    <3>3. CASE writer[w].fresh = FALSE
      <4>1. apart' = TRUE
        BY <2>1, <3>3
      <4> QED BY <1>3, <2>4, <4>1
              DEF Moves, Knows, FreshIsShops, FitsTheRow, ShopIsKnown
    <3> QED BY <1>2, <2>1, <3>2, <3>3
  <2> QED BY <1>1, <1>3, <2>1, <2>4, <2>5, <2>6, WriterIsSound
<1> QED BY <1>5, <1>6, <1>7

(* A store takes what a request sends it; what the others know is old.     *)
LEMMA ShopSteps ==
  ASSUME MirrorIInv, NEW w \in Writer,
         ShopTakes(w) \/ ShopRefuses(w) \/ ShopUnheard(w)
  PROVE  MirrorIInv'
<1>1. /\ MirrorTypeOK /\ RowsTyped /\ Agrees /\ writer[w].at = "publish"
      /\ ~overlapped => ShopIsKnown /\ Knows(w)
      /\ UNCHANGED <<siigoHas, product, links, overlapped>>
      /\ ~overlapped => \A o \in Writer : o # w => writer[o] = Unoccupied
  BY MirrorHere DEF ShopTakes, ShopRefuses, ShopUnheard, AtWork, Unoccupied
<1>2. /\ writer[w].row \in RowNumber /\ writer[w].woo \in Price
      /\ writer[w] \in WriterState
  BY <1>1, WriterFacts
<1>3. /\ Unoccupied \in WriterState /\ Unoccupied.at = "idle"
      /\ Outdated(Unoccupied) = Unoccupied
  <2>1. Unoccupied \in WriterState /\ Unoccupied.at = "idle"
    BY DEF Unoccupied, WriterState
  <2> QED BY <2>1, OutdatedFacts
<1>4. PICK refused : /\ refused = [writer[w] EXCEPT !.at = "refused"]
                     /\ refused \in WriterState /\ refused.at = "refused"
  <2>1. writer[w] \in [at : {"publish", "refused"}, row : RowNumber, woo : Price]
    BY <1>1, <1>2 DEF WriterState
  <2>2. [writer[w] EXCEPT !.at = "refused"] \in
            [at : {"publish", "refused"}, row : RowNumber, woo : Price]
    BY <2>1
  <2> QED BY <2>1, <2>2 DEF WriterState
<1>5. ASSUME NEW st \in WriterState,
             writer' = [o \in Writer |-> IF o = w THEN st ELSE Outdated(writer[o])]
      PROVE  Moves(w, st)
  <2>1. \A o \in Writer : writer[o] \in WriterState
    BY <1>1 DEF MirrorTypeOK
  <2> QED BY <1>3, <1>5, <2>1, OutdatedFacts DEF Moves
<1>6. CASE ShopTakes(w)
  <2> DEFINE st == [at |-> "published", row |-> writer[w].row, woo |-> writer[w].woo,
                    fresh |-> TRUE]
  <2>1. /\ st \in WriterState /\ st.at = "published" /\ st.row = writer[w].row
        /\ st.woo = writer[w].woo
    BY <1>2 DEF WriterState
  <2>2. /\ writer' = [o \in Writer |-> IF o = w THEN st ELSE Outdated(writer[o])]
        /\ shopHas' = writer[w].woo /\ apart' = apart
    BY <1>6 DEF ShopTakes
  <2> HIDE DEF st
  <2>3. Moves(w, st)
    BY <1>5, <2>1, <2>2
  <2>4. RowsTyped' /\ Agrees' /\ (~overlapped' => Knows(w)' /\ ShopIsKnown')
    BY <1>1, <1>2, <2>1, <2>2, <2>3
       DEF RowsTyped, Agrees, There, Moves, Knows, FreshIsShops, FitsTheRow, ShopIsKnown
  <2> QED BY <1>1, <2>1, <2>3, <2>4, WriterIsSound
<1>7. CASE ShopRefuses(w)
  <2>1. WriterAt(w, refused) /\ UNCHANGED <<shopHas, apart>>
    BY <1>4, <1>7 DEF ShopRefuses
  <2>2. Moves(w, refused)
    BY <1>1, <1>4, <2>1, WriterMoves DEF Moves
  <2>3. ~overlapped /\ There => product.woo = shopHas \/ apart
    <3>1. ~overlapped => \A o \in Writer : writer[o].at \notin {"published", "report", "record"}
      BY <1>1, <1>3
    <3> QED BY <1>1, <3>1 DEF ShopIsKnown
  <2>4. RowsTyped' /\ Agrees' /\ (~overlapped' => Knows(w)' /\ ShopIsKnown')
    BY <1>1, <1>4, <2>1, <2>2, <2>3
       DEF RowsTyped, Agrees, There, Moves, Knows, FreshIsShops, FitsTheRow, ShopIsKnown
  <2> QED BY <1>1, <1>4, <2>2, <2>4, WriterIsSound
<1>8. CASE ShopUnheard(w)
  <2>1. /\ writer' = [o \in Writer |-> IF o = w THEN refused ELSE Outdated(writer[o])]
        /\ shopHas' = writer[w].woo /\ apart' = TRUE
    BY <1>4, <1>8 DEF ShopUnheard
  <2>2. Moves(w, refused)
    BY <1>4, <1>5, <2>1
  <2>3. RowsTyped' /\ Agrees' /\ (~overlapped' => Knows(w)' /\ ShopIsKnown')
    BY <1>1, <1>2, <1>4, <2>1, <2>2
       DEF RowsTyped, Agrees, There, Moves, Knows, FreshIsShops, FitsTheRow, ShopIsKnown
  <2> QED BY <1>1, <1>4, <2>2, <2>3, WriterIsSound
<1> QED BY <1>6, <1>7, <1>8

LEMMA MarkSteps ==
  ASSUME MirrorIInv, NEW w \in Writer, MarkPublished(w) \/ PublicationFails(w)
  PROVE  MirrorIInv'
<1>1. /\ MirrorTypeOK /\ RowsTyped /\ Agrees /\ writer[w].at \in {"published", "refused"}
      /\ ~overlapped => ShopIsKnown /\ Knows(w)
      /\ WriterAt(w, Unoccupied) /\ UNCHANGED <<siigoHas, shopHas, links, overlapped>>
      /\ ~overlapped => \A o \in Writer : o # w => writer[o] = Unoccupied
  BY MirrorHere DEF MarkPublished, PublicationFails, AtWork, Unoccupied
<1>2. /\ writer[w].row \in RowNumber /\ writer[w].woo \in Price
      /\ writer[w].at = "published" => writer[w].fresh \in BOOLEAN
  BY <1>1, WriterFacts
<1>3. Unoccupied \in WriterState /\ Unoccupied.at = "idle"
  BY DEF Unoccupied, WriterState
<1>4. Moves(w, Unoccupied)
  BY <1>1, <1>3, WriterMoves DEF Moves
<1>5. ~overlapped' => Knows(w)'
  BY <1>3, <1>4 DEF Moves, Knows, FreshIsShops, FitsTheRow
<1>6. product.row = writer[w].row => product \in Mirror
  BY <1>1, <1>2, MirrorRows DEF There
<1>7. CASE MarkPublished(w) /\ product.row = writer[w].row
  <2>1. PICK entry : entry = [product EXCEPT !.woo = writer[w].woo, !.status = "SYNCED"]
    OBVIOUS
  <2>2. /\ product' = entry /\ entry \in Mirror /\ entry.row = product.row
        /\ entry.siigo = product.siigo /\ entry.woo = writer[w].woo
        /\ apart' = ~writer[w].fresh /\ writer[w].at = "published"
    BY <1>2, <1>6, <1>7, <2>1 DEF MarkPublished, Mirror, SyncStatus
  <2>3. There
    BY <1>1, <1>2, <1>7, MirrorRows
  <2>4. RowsTyped' /\ Agrees'
    BY <1>1, <1>2, <2>2, <2>3 DEF RowsTyped, Agrees, Knows, FitsTheRow
  <2>5. ~overlapped' => ShopIsKnown'
    <3>1. CASE writer[w].fresh = TRUE
      BY <1>1, <2>2, <3>1 DEF ShopIsKnown, Knows, FreshIsShops
    <3>2. CASE writer[w].fresh = FALSE
      BY <2>2, <3>2 DEF ShopIsKnown
    <3> QED BY <1>2, <2>2, <3>1, <3>2
  <2> QED BY <1>1, <1>3, <1>4, <1>5, <2>4, <2>5, WriterIsSound
<1>8. CASE MarkPublished(w) /\ product.row # writer[w].row
  <2>1. UNCHANGED <<product, apart>> /\ writer[w].at = "published"
    BY <1>8 DEF MarkPublished
  <2>2. ~overlapped => ~There
    BY <1>1, <1>8, <2>1 DEF Knows, FitsTheRow
  <2>3. RowsTyped' /\ Agrees' /\ (~overlapped' => ShopIsKnown')
    BY <1>1, <2>1, <2>2 DEF RowsTyped, Agrees, ShopIsKnown, There
  <2> QED BY <1>1, <1>3, <1>4, <1>5, <2>3, WriterIsSound
<1>9. CASE PublicationFails(w)
  <2>1. ~overlapped /\ There => product.woo = shopHas \/ apart
    <3>1. writer[w].at = "refused"
      BY <1>9 DEF PublicationFails
    <3>2. ~overlapped => \A o \in Writer : writer[o].at \notin {"published", "report", "record"}
      BY <1>1, <1>3, <3>1
    <3> QED BY <1>1, <3>2 DEF ShopIsKnown
  <2>2. apart' = apart /\ product' = MarkUnpublished(w)
    BY <1>9 DEF PublicationFails
  <2>3. CASE product.row = writer[w].row
    <3>1. PICK entry : entry = [product EXCEPT !.status = "ERROR"]
      OBVIOUS
    <3>2. /\ product' = entry /\ entry \in Mirror /\ entry.row = product.row
          /\ entry.woo = product.woo /\ entry.status = "ERROR"
      BY <1>6, <2>2, <2>3, <3>1 DEF MarkUnpublished, Mirror, SyncStatus
    <3>3. There
      BY <1>1, <1>2, <2>3, MirrorRows
    <3> QED BY <1>1, <1>3, <1>4, <1>5, <2>1, <2>2, <3>2, <3>3, WriterIsSound
            DEF RowsTyped, Agrees, ShopIsKnown
  <2>4. CASE product.row # writer[w].row
    <3>1. product' = product
      BY <2>2, <2>4 DEF MarkUnpublished
    <3>2. RowsTyped' /\ Agrees' /\ (~overlapped' => ShopIsKnown')
      BY <1>1, <2>1, <2>2, <3>1 DEF RowsTyped, Agrees, ShopIsKnown, There
    <3> QED BY <1>1, <1>3, <1>4, <1>5, <3>2, WriterIsSound
  <2> QED BY <2>3, <2>4
<1> QED BY <1>7, <1>8, <1>9

LEMMA ReportSteps ==
  ASSUME MirrorIInv, NEW w \in Writer,
         ReportIsLost(w) \/ FindReported(w) \/ RecordReport(w)
  PROVE  MirrorIInv'
<1>1. /\ MirrorTypeOK /\ RowsTyped /\ Agrees /\ writer[w].at \in {"report", "record"}
      /\ ~overlapped => ShopIsKnown /\ Knows(w)
      /\ UNCHANGED <<siigoHas, shopHas, links, overlapped>>
      /\ ~overlapped => \A o \in Writer : o # w => writer[o] = Unoccupied
  BY MirrorHere DEF ReportIsLost, FindReported, RecordReport, AtWork, Unoccupied
<1>2. /\ writer[w].siigo \in Price /\ writer[w].woo \in WooReport
      /\ writer[w].fresh \in BOOLEAN
      /\ writer[w].at = "record" => writer[w].status \in SyncStatus
  BY <1>1, WriterFacts
<1>3. Unoccupied \in WriterState /\ Unoccupied.at = "idle"
  BY DEF Unoccupied, WriterState
<1>4. ~overlapped /\ There => \/ product.woo = shopHas \/ apart \/ writer[w].woo \in Price
  BY <1>1, <1>3 DEF ShopIsKnown
<1>5. WriterAt(w, Unoccupied) => Moves(w, Unoccupied) /\ Knows(w)'
  <2>1. WriterAt(w, Unoccupied) => Moves(w, Unoccupied)
    BY <1>1, <1>3, WriterMoves DEF Moves
  <2> QED BY <1>3, <2>1 DEF Moves, Knows, FreshIsShops, FitsTheRow
<1>6. CASE ReportIsLost(w)
  <2>1. /\ WriterAt(w, Unoccupied) /\ apart' = (apart \/ writer[w].woo \in Price)
        /\ product' = product
    BY <1>6 DEF ReportIsLost
  <2>2. apart' \in BOOLEAN /\ (apart' <=> apart \/ writer[w].woo \in Price)
    BY <1>1, <2>1 DEF RowsTyped
  <2>3. RowsTyped' /\ Agrees' /\ (~overlapped' => ShopIsKnown')
    BY <1>1, <1>4, <2>1, <2>2 DEF RowsTyped, Agrees, There, ShopIsKnown
  <2> QED BY <1>1, <1>3, <1>5, <2>1, <2>3, WriterIsSound
<1>7. CASE FindReported(w) /\ ~There
  <2>1. WriterAt(w, Unoccupied) /\ UNCHANGED <<product, apart>>
    BY <1>7 DEF FindReported
  <2>2. RowsTyped' /\ Agrees' /\ (~overlapped' => ShopIsKnown')
    BY <1>1, <1>7, <2>1 DEF RowsTyped, Agrees, There, ShopIsKnown
  <2> QED BY <1>1, <1>3, <1>5, <2>1, <2>2, WriterIsSound
<1>8. CASE FindReported(w) /\ There
  <2> DEFINE st == [at |-> "record", siigo |-> writer[w].siigo, woo |-> writer[w].woo,
                    fresh |-> writer[w].fresh, status |-> WebhookStatus(writer[w])]
  <2>1. /\ st \in WriterState /\ st.at = "record" /\ st.woo = writer[w].woo
        /\ st.siigo = writer[w].siigo /\ st.fresh = writer[w].fresh
        /\ st.status = WebhookStatus(writer[w])
    <3>1. WebhookStatus(writer[w]) \in SyncStatus
      BY DEF WebhookStatus, Status, SyncStatus
    <3> QED BY <1>2, <3>1 DEF WriterState
  <2>2. WriterAt(w, st) /\ UNCHANGED <<product, apart>> /\ writer[w].at = "report"
    BY <1>8 DEF FindReported
  <2> HIDE DEF st
  <2>3. Moves(w, st)
    BY <1>1, <2>1, <2>2, WriterMoves DEF Moves
  <2>4. writer'[w] = st
    BY <2>3 DEF Moves
  <2>5. WebhookStatus(writer[w])' = WebhookStatus(writer[w])
    BY <2>1, <2>2, <2>4 DEF WebhookStatus, Status
  <2>6. FitsTheRow(w)'
    BY <2>1, <2>2, <2>4, <2>5 DEF FitsTheRow
  <2>7. ~overlapped' => FreshIsShops(w)' /\ ShopIsKnown'
    <3>1. ~overlapped /\ writer[w].woo \in Price /\ writer[w].fresh => writer[w].woo = shopHas
      BY <1>1 DEF Knows, FreshIsShops
    <3> QED BY <1>1, <1>4, <2>1, <2>2, <2>4, <3>1 DEF FreshIsShops, ShopIsKnown, There
  <2>8. RowsTyped' /\ Agrees'
    BY <1>1, <2>2 DEF RowsTyped, Agrees, There
  <2> QED BY <1>1, <2>1, <2>3, <2>6, <2>7, <2>8, WriterIsSound DEF Knows
<1>9. CASE RecordReport(w) /\ ~There
  <2>1. WriterAt(w, Unoccupied) /\ UNCHANGED <<product, apart>>
    BY <1>9 DEF RecordReport
  <2>2. RowsTyped' /\ Agrees' /\ (~overlapped' => ShopIsKnown')
    BY <1>1, <1>9, <2>1 DEF RowsTyped, Agrees, There, ShopIsKnown
  <2> QED BY <1>1, <1>3, <1>5, <2>1, <2>2, WriterIsSound
<1>10. CASE RecordReport(w) /\ There
  <2>1. /\ WriterAt(w, Unoccupied) /\ writer[w].at = "record"
        /\ product' = [product EXCEPT !.siigo = writer[w].siigo,
                !.woo = IF writer[w].woo \in Price THEN writer[w].woo ELSE @,
                !.status = writer[w].status]
        /\ apart' = IF writer[w].woo \in Price THEN ~writer[w].fresh ELSE apart
    BY <1>10 DEF RecordReport
  <2>2. product \in Mirror
    BY <1>1, <1>10, MirrorRows
  <2>3. PICK entry : entry = [product EXCEPT !.siigo = writer[w].siigo,
                !.woo = IF writer[w].woo \in Price THEN writer[w].woo ELSE @,
                !.status = writer[w].status]
    OBVIOUS
  <2>4. /\ product' = entry /\ entry \in Mirror /\ entry.row = product.row
        /\ entry.siigo = writer[w].siigo /\ entry.status = writer[w].status
        /\ entry.woo = IF writer[w].woo \in Price THEN writer[w].woo ELSE product.woo
    BY <1>2, <2>1, <2>2, <2>3 DEF Mirror
  <2>5. apart' \in BOOLEAN
    BY <1>1, <2>1 DEF RowsTyped
  <2>6. RowsTyped'
    BY <1>1, <2>4, <2>5 DEF RowsTyped
  <2>7. Agrees'
    <3>1. ~overlapped => writer[w].status = WebhookStatus(writer[w])
      BY <1>1, <1>10, <2>1 DEF Knows, FitsTheRow
    <3>2. ~overlapped /\ writer[w].status = "SYNCED" =>
            writer[w].siigo = IF writer[w].woo = "none" THEN product.woo ELSE writer[w].woo
      BY <3>1 DEF WebhookStatus, Status
    <3>3. writer[w].woo = "failed" /\ ~overlapped => writer[w].status = "ERROR"
      BY <3>1 DEF WebhookStatus
    <3>4. writer[w].woo \in Price \/ writer[w].woo = "failed" \/ writer[w].woo = "none"
      BY <1>2 DEF WooReport
    <3>5. writer[w].woo \in Price => writer[w].woo # "none"
      BY MirrorAssumption
    <3>6. writer[w].woo = "none" => writer[w].woo \notin Price
      BY MirrorAssumption
    <3> QED BY <1>1, <2>4, <3>2, <3>3, <3>4, <3>5, <3>6 DEF Agrees
  <2>8. ~overlapped' => ShopIsKnown'
    <3>1. CASE writer[w].woo \in Price /\ writer[w].fresh = TRUE
      BY <1>1, <2>1, <2>4, <3>1 DEF Knows, FreshIsShops, ShopIsKnown
    <3>2. CASE writer[w].woo \in Price /\ writer[w].fresh = FALSE
      BY <2>1, <3>2 DEF ShopIsKnown
    <3>3. CASE writer[w].woo \notin Price
      BY <1>1, <1>4, <1>10, <2>1, <2>4, <3>3 DEF ShopIsKnown
    <3> QED BY <1>2, <3>1, <3>2, <3>3
  <2> QED BY <1>1, <1>3, <1>5, <2>1, <2>6, <2>7, <2>8, WriterIsSound
<1> QED BY <1>6, <1>7, <1>8, <1>9, <1>10

(* While no two requests overlapped, row and requests know the two sides.  *)
THEOREM MirrorIsSound == MirrorSpec => []MirrorIInv
<1>1. MirrorInit => MirrorIInv
  <2>1. SUFFICES ASSUME MirrorInit PROVE MirrorIInv
    OBVIOUS
  <2>2. /\ Unoccupied \in WriterState /\ Unoccupied.at = "idle" /\ NoProduct.row = 0
        /\ 0 \in 0..MaxLinks
    BY MirrorAssumption DEF Unoccupied, WriterState, NoProduct
  <2>3. ~There /\ \A w \in Writer : writer[w] = Unoccupied
    BY <2>1 DEF MirrorInit, There
  <2>4. {overlapped, apart} \subseteq BOOLEAN
    BY <2>1 DEF MirrorInit
  <2>5. /\ {siigoHas, shopHas} \subseteq Price /\ product = NoProduct /\ links = 0
        /\ writer \in [Writer -> WriterState]
    BY <2>1, <2>2 DEF MirrorInit
  <2>6. product.row <= links
    BY <2>2, <2>5
  <2>7. MirrorTypeOK
    BY <2>2, <2>4, <2>5, <2>6 DEF MirrorTypeOK
  <2> QED BY <2>2, <2>3, <2>7
          DEF MirrorIInv, WorksAlone, AtWork, FreshIsShops, FitsTheRow, ShopIsKnown
<1>2. MirrorIInv /\ [MirrorNext]_mirrorVars => MirrorIInv'
  <2>1. SUFFICES ASSUME MirrorIInv, [MirrorNext]_mirrorVars PROVE MirrorIInv'
    OBVIOUS
  <2>2. CASE UNCHANGED mirrorVars
    BY <2>1, <2>2
       DEF mirrorVars, MirrorIInv, MirrorTypeOK, WorksAlone, AtWork, FreshIsShops, FitsTheRow,
           ShopIsKnown, There, WebhookStatus, Status
  <2>3. CASE MirrorNext
    BY <2>1, <2>3, MirrorOutside, BeginSteps, LinkSteps, ShopSteps, MarkSteps, ReportSteps
       DEF MirrorNext, WriterStep
  <2> QED BY <2>1, <2>2, <2>3
<1> QED BY <1>1, <1>2, PTL DEF MirrorSpec

(* A product shown as SYNCED is the same on both sides.                    *)
THEOREM MirrorTellsTheTruth == MirrorSpec => []MirrorIsTrue
<1>1. MirrorIInv => MirrorIsTrue
  BY DEF MirrorIInv, ShopIsKnown, MirrorIsTrue
<1> QED BY <1>1, MirrorIsSound, PTL

-----------------------------------------------------------------------------
(* The agreements                                                          *)

LEMMA LogoFacts ==
  /\ NoLogo \in Logos /\ Absent \notin Logos /\ New \notin Agreement /\ New \in Target
  /\ \A n \in Nat : n # 0 => Logo(n) # NoLogo
  /\ \A n, m \in Nat : Logo(n) = Logo(m) => n = m
  /\ \A n \in 0..MaxUploads : \A k \in 1..n : Logo(k) \in Logos
  /\ Hidden \in FormState /\ Unsent \in SaveState
  /\ Hidden.at = "hidden" /\ Unsent.at = "idle"
<1>1. MaxUploads \in Nat /\ New \notin Agreement
  BY AgreementsAssumption
<1>2. NoLogo.key = 0 /\ \A n \in Nat : Logo(n).key = n
  BY DEF NoLogo, Logo
<1>3. Absent \notin Logos
  BY DEF Absent, Logos, NoLogo, Logo, Key
<1>4. \A n \in 0..MaxUploads : \A k \in 1..n : Logo(k) \in Logos
  BY <1>1 DEF Logos, Key
<1> QED BY <1>1, <1>2, <1>3, <1>4 DEF Logos, Target, Hidden, Unsent, FormState, SaveState

LEMMA FormFacts ==
  ASSUME AgreementsTypeOK, NEW f \in Form
  PROVE  /\ form[f] \in FormState /\ save[f] \in SaveState
         /\ form[f].at \in {"hidden", "open", "uploading", "saving"}
         /\ form[f] = Hidden <=> form[f].at = "hidden"
         /\ form[f] # Hidden => form[f].target \in Target /\ form[f].read \in Logos
         /\ form[f].at \in {"uploading", "saving"} =>
                form[f].logo \in Logos /\ form[f].shown \in BOOLEAN
         /\ form[f].at = "saving" => form[f].fresh \in BOOLEAN
         /\ save[f].at \in {"idle", "read", "write", "refused", "saved"}
         /\ save[f].at \in {"read", "write"} => save[f].target \in Target
                /\ save[f].logo \in Logos /\ save[f].fresh \in BOOLEAN
         /\ save[f].at = "write" => save[f].current \in Logos
<1>1. form[f] \in FormState /\ save[f] \in SaveState
  BY DEF AgreementsTypeOK
<1> QED BY <1>1 DEF FormState, SaveState, Hidden

LEMMA MadeFacts ==
  ASSUME AgreementsTypeOK
  PROVE  /\ Made \subseteq Logos /\ NoLogo \notin Made
         /\ uploads \in Nat /\ MaxUploads \in Nat /\ Logo(uploads + 1) \notin Made
         /\ \A logo : Doomed(logo) \/ logo \in discard.asked => logo \in Made
<1>1. uploads \in 0..MaxUploads /\ MaxUploads \in Nat
  BY AgreementsAssumption DEF AgreementsTypeOK
<1>2. Made \subseteq Logos
  BY <1>1, LogoFacts DEF Made
<1>3. \A n \in 1..uploads : n \in Nat /\ n # 0 /\ n # uploads + 1
  BY <1>1
<1>4. NoLogo \notin Made /\ Logo(uploads + 1) \notin Made
  BY <1>1, <1>3, LogoFacts DEF Made
<1> QED BY <1>1, <1>2, <1>4 DEF AgreementsTypeOK, Doomed

(* A form and its save move; of the logos they name then, they named each  *)
(* before, or a row has it, or it is new.                                  *)
Naming(f, logo) == InForm(f, logo) \/ InSave(f, logo) \/ HasRead(f, logo)
FormTurn(f, fst, sst) ==
  /\ fst \in FormState /\ sst \in SaveState
  /\ form' = [form EXCEPT ![f] = fst] /\ save' = [save EXCEPT ![f] = sst]
  /\ UNCHANGED <<logoOf, removing, unowned>>
  /\ discard' = [asked |-> discard'.asked, free |-> discard.free]
  /\ \A logo \in discard'.asked : logo \in discard.asked \/ (logo \in Made /\ InForm(f, logo))
  /\ bucket \subseteq bucket' /\ bucket' \subseteq bucket \cup Made
  /\ uploads' \in {uploads, uploads + 1} /\ uploads' <= MaxUploads /\ mishaps' \in 0..MaxMishaps
  /\ \A logo : Naming(f, logo)' =>
        logo = NoLogo \/ Naming(f, logo) \/ InUse(logo) \/ logo \in Made' \ Made

LEMMA TurnIsSound ==
  ASSUME AgreementsIInv, NEW f \in Form, NEW fst, NEW sst, FormTurn(f, fst, sst),
         UploadIsPrivate(f)', ReadsItsOwn(f)'
  PROVE  AgreementsIInv'
<1>1. /\ AgreementsTypeOK /\ NamedAreMade /\ OneOwner /\ DoomedHaveNoOwner /\ LogoIsThere
      /\ \A g \in Form : UploadIsPrivate(g) /\ ReadsItsOwn(g)
  BY DEF AgreementsIInv
<1>2. /\ form' \in [Form -> FormState] /\ save' \in [Form -> SaveState]
      /\ \A g \in Form : g # f => form'[g] = form[g] /\ save'[g] = save[g]
      /\ logoOf' = logoOf /\ removing' = removing /\ unowned' = unowned
      /\ discard'.free = discard.free
  BY <1>1 DEF FormTurn, AgreementsTypeOK
<1>3. Made \subseteq Made' /\ uploads' \in 0..MaxUploads
  BY <1>1, MadeFacts DEF Made, FormTurn
<1>4. AgreementsTypeOK'
  <2>1. bucket' \cup removing' \cup discard'.asked \cup discard'.free \subseteq Made'
    BY <1>1, <1>2, <1>3 DEF FormTurn, AgreementsTypeOK
  <2> QED BY <1>1, <1>2, <1>3, <2>1 DEF AgreementsTypeOK, FormTurn
<1>5. ASSUME NEW g \in Form, NEW logo, Naming(g, logo)
      PROVE  logo \in Made \cup {NoLogo}
  BY <1>1, <1>5 DEF NamedAreMade, Naming, InForm, InSave, HasRead
<1>6. \A logo : InUse(logo) => logo \in Made \cup {NoLogo, Absent}
  BY <1>1 DEF NamedAreMade, InUse
<1>7. NamedAreMade'
  <2>1. ASSUME NEW g \in Form, NEW logo, Naming(g, logo)', logo # Absent
        PROVE  logo \in Made' \cup {NoLogo}
    <3>1. CASE g = f
      BY <1>3, <1>5, <1>6, <2>1, <3>1 DEF FormTurn
    <3>2. CASE g # f
      <4>1. Naming(g, logo)
        BY <1>2, <2>1, <3>2 DEF Naming, InForm, InSave, HasRead
      <4> QED BY <1>3, <1>5, <4>1
    <3> QED BY <3>1, <3>2
  <2>2. \A g \in Form : /\ form'[g] # Hidden => form'[g].read # Absent
                        /\ form'[g].at \in {"uploading", "saving"} => form'[g].logo # Absent
                        /\ save'[g].at \in {"read", "write"} => save'[g].logo # Absent
                        /\ save'[g].at = "write" => save'[g].current # Absent
    <3>1. SUFFICES ASSUME NEW g \in Form
                   PROVE /\ form'[g] # Hidden => form'[g].read \in Logos
                         /\ form'[g].at \in {"uploading", "saving"} => form'[g].logo \in Logos
                         /\ save'[g].at \in {"read", "write"} => save'[g].logo \in Logos
                         /\ save'[g].at = "write" => save'[g].current \in Logos
      BY LogoFacts
    <3>2. form'[g] \in FormState /\ save'[g] \in SaveState
      BY <1>2
    <3> QED BY <3>2 DEF FormState, SaveState, Hidden
  <2> QED BY <1>1, <1>2, <1>3, <2>1, <2>2 DEF NamedAreMade, Naming, InForm, InSave, HasRead
<1>8. ASSUME NEW g \in Form, g # f PROVE UploadIsPrivate(g)' /\ ReadsItsOwn(g)'
  <2>1. ASSUME NEW logo \in Made, Private(g, logo) PROVE Private(g, logo)'
    <3>1. ~Naming(f, logo) /\ logo \notin discard'.asked /\ ~InUse(logo) /\ logo # NoLogo
      BY <1>8, <2>1 DEF Private, Naming, FormTurn
    <3>2. ~Naming(f, logo)'
      BY <3>1 DEF FormTurn
    <3>3. ~InUse(logo)' /\ ~Doomed(logo)'
      BY <1>2, <2>1 DEF Private, InUse, Doomed
    <3>4. \A h \in Form : h # f => /\ HasRead(h, logo)' <=> HasRead(h, logo)
                                   /\ InForm(h, logo)' <=> InForm(h, logo)
                                   /\ InSave(h, logo)' <=> InSave(h, logo)
      BY <1>2 DEF HasRead, InForm, InSave
    <3> QED BY <2>1, <3>1, <3>2, <3>3, <3>4 DEF Private, Naming
  <2>2. UploadIsPrivate(g) /\ ReadsItsOwn(g) /\ form'[g] = form[g] /\ save'[g] = save[g]
    BY <1>1, <1>2, <1>8
  <2>3. \A logo : Private(g, logo) /\ Naming(g, logo) => logo \in Made
    BY <1>5 DEF Private
  <2>4. /\ form[g].at = "uploading" => form[g].logo \in Made
        /\ (Waiting(g) /\ save[g].at \in {"read", "write"} /\ save[g].fresh) =>
                save[g].logo \in Made
    BY <2>2, <2>3 DEF UploadIsPrivate, Naming, InForm, InSave
  <2>5. UploadIsPrivate(g)'
    BY <2>1, <2>2, <2>4 DEF UploadIsPrivate, InSave, Waiting, FormTurn
  <2>6. ReadsItsOwn(g)'
    BY <1>2, <2>2 DEF ReadsItsOwn
  <2> QED BY <2>5, <2>6
<1>9. OneOwner' /\ DoomedHaveNoOwner' /\ LogoIsThere'
  BY <1>1, <1>2 DEF OneOwner, DoomedHaveNoOwner, LogoIsThere, Doomed, FormTurn
<1> QED BY <1>4, <1>7, <1>8, <1>9 DEF AgreementsIInv

LEMMA StaysPrivate ==
  ASSUME AgreementsTypeOK, NEW f \in Form, NEW fst, NEW sst, FormTurn(f, fst, sst),
         NEW logo, Private(f, logo), logo \notin discard'.asked, ~HasRead(f, logo)'
  PROVE  Private(f, logo)'
<1>1. /\ \A g \in Form : g # f => form'[g] = form[g] /\ save'[g] = save[g]
      /\ logoOf' = logoOf /\ removing' = removing /\ discard'.free = discard.free
  BY DEF FormTurn, AgreementsTypeOK
<1> QED BY <1>1 DEF Private, InUse, Doomed, HasRead, InForm, InSave

LEMMA TurnHere ==
  ASSUME AgreementsIInv, NEW f \in Form
  PROVE  /\ AgreementsTypeOK /\ NamedAreMade /\ UploadIsPrivate(f) /\ ReadsItsOwn(f)
         /\ form \in [Form -> FormState] /\ save \in [Form -> SaveState]
         /\ discard = [asked |-> discard.asked, free |-> discard.free]
         /\ uploads <= MaxUploads /\ mishaps \in 0..MaxMishaps
         /\ form = [form EXCEPT ![f] = form[f]] /\ save = [save EXCEPT ![f] = save[f]]
         /\ form[f].at = "uploading" => form[f].logo \in Made
         /\ form[f].at = "saving" /\ form[f].fresh => form[f].logo \in Made
         /\ mishaps < MaxMishaps => mishaps + 1 \in 0..MaxMishaps
<1>1. /\ AgreementsTypeOK /\ NamedAreMade /\ UploadIsPrivate(f) /\ ReadsItsOwn(f)
  BY DEF AgreementsIInv
<1>2. MaxMishaps \in Nat /\ MaxUploads \in Nat
  BY AgreementsAssumption
<1>3. uploads \in 0..MaxUploads /\ mishaps \in 0..MaxMishaps
  BY <1>1 DEF AgreementsTypeOK
<1> QED BY <1>1, <1>2, <1>3 DEF AgreementsTypeOK, NamedAreMade, UploadIsPrivate, Private

LEMMA ReopenedFacts ==
  ASSUME AgreementsTypeOK, NEW f \in Form, form[f].at \in {"uploading", "saving"}
  PROVE  /\ Reopened(f) \in FormState /\ Reopened(f).at \in {"open", "hidden"}
         /\ Reopened(f) # Hidden => /\ Reopened(f).target = form[f].target
                                    /\ Reopened(f).read = form[f].read
                                    /\ Reopened(f).at = "open" /\ form[f].shown
<1>1. form[f].target \in Target /\ form[f].read \in Logos
  BY FormFacts, LogoFacts
<1> QED BY <1>1, LogoFacts DEF Reopened, FormState, Hidden

LEMMA OpenCloseSteps ==
  ASSUME AgreementsIInv, NEW f \in Form,
         CloseForm(f) \/ \E a \in Agreement \cup {New} : OpenForm(f, a)
  PROVE  AgreementsIInv'
<1>1. /\ AgreementsTypeOK /\ UploadIsPrivate(f) /\ ReadsItsOwn(f)
      /\ form \in [Form -> FormState] /\ save \in [Form -> SaveState]
      /\ discard = [asked |-> discard.asked, free |-> discard.free]
      /\ uploads <= MaxUploads /\ mishaps \in 0..MaxMishaps
      /\ save = [save EXCEPT ![f] = save[f]] /\ save[f] \in SaveState
      /\ UNCHANGED <<logoOf, bucket, uploads, save, discard, removing, unowned, mishaps>>
  BY TurnHere, FormFacts DEF OpenForm, CloseForm
<1>2. CASE CloseForm(f)
  <2>1. form' = [form EXCEPT ![f] = Hidden] /\ form'[f] = Hidden
    BY <1>1, <1>2 DEF CloseForm
  <2>2. FormTurn(f, Hidden, save[f])
    BY <1>1, <2>1, LogoFacts DEF FormTurn, Naming, InForm, InSave, HasRead
  <2>3. UploadIsPrivate(f)' /\ ReadsItsOwn(f)'
    BY <1>1, <2>1, LogoFacts DEF UploadIsPrivate, ReadsItsOwn, Waiting
  <2> QED BY <2>2, <2>3, TurnIsSound
<1>3. ASSUME NEW a \in Agreement \cup {New}, OpenForm(f, a) PROVE AgreementsIInv'
  <2> DEFINE read == IF a = New THEN NoLogo ELSE logoOf[a]
             fst == [at |-> "open", target |-> a, read |-> read]
  <2>1. /\ a # New => a \in Agreement /\ logoOf[a] # Absent /\ logoOf[a] \in Logos
        /\ form' = [form EXCEPT ![f] = fst] /\ save[f] = Unsent
    BY <1>1, <1>3 DEF OpenForm, Listed, AgreementsTypeOK
  <2>2. /\ read \in Logos /\ (read = NoLogo \/ InUse(read))
        /\ a = New => read = NoLogo
    BY <2>1, LogoFacts DEF InUse
  <2>3. read \in Logos
    BY <2>1, LogoFacts
  <2> HIDE DEF read
  <2>4. fst \in FormState /\ fst.at = "open" /\ fst.target = a /\ fst.read = read
    BY <2>3 DEF FormState, Target
  <2> HIDE DEF fst
  <2>5. form'[f] = fst
    BY <1>1, <2>1
  <2>6. FormTurn(f, fst, save[f])
    BY <1>1, <2>1, <2>2, <2>4, <2>5, LogoFacts DEF FormTurn, Naming, InForm, InSave, HasRead
  <2>7. UploadIsPrivate(f)' /\ ReadsItsOwn(f)'
    BY <1>1, <2>1, <2>2, <2>4, <2>5, LogoFacts
       DEF UploadIsPrivate, ReadsItsOwn, Waiting
  <2> QED BY <2>6, <2>7, TurnIsSound
<1> QED BY <1>2, <1>3

LEMMA UploadSteps ==
  ASSUME AgreementsIInv, NEW f \in Form,
         \/ ChooseFile(f) \/ UploadFails(f) \/ UploadedInVain(f) \/ Uploaded(f)
         \/ \E a \in Agreement \cup {New} : CloseWhileUploading(f, a)
  PROVE  AgreementsIInv'
<1>1. /\ AgreementsTypeOK /\ NamedAreMade /\ UploadIsPrivate(f) /\ ReadsItsOwn(f)
      /\ form \in [Form -> FormState] /\ save \in [Form -> SaveState]
      /\ discard = [asked |-> discard.asked, free |-> discard.free]
      /\ uploads <= MaxUploads /\ mishaps \in 0..MaxMishaps /\ uploads \in Nat
      /\ save = [save EXCEPT ![f] = save[f]] /\ save[f] \in SaveState
      /\ form[f].at = "uploading" => form[f].logo \in Made
      /\ mishaps < MaxMishaps => mishaps + 1 \in 0..MaxMishaps
      /\ UNCHANGED <<logoOf, removing, unowned>>
  BY TurnHere, FormFacts, MadeFacts
     DEF ChooseFile, UploadFails, UploadedInVain, Uploaded, CloseWhileUploading
<1>2. CASE ChooseFile(f)
  <2>0. PICK new : new = Logo(uploads + 1)
    OBVIOUS
  <2> DEFINE fst == [at |-> "uploading", target |-> form[f].target, read |-> form[f].read,
                     logo |-> new, shown |-> TRUE]
  <2>1. /\ form[f].at = "open" /\ uploads + 1 <= MaxUploads /\ uploads' = uploads + 1
        /\ form' = [form EXCEPT ![f] = fst] /\ UNCHANGED <<bucket, save, discard, mishaps>>
    BY <1>1, <1>2, <2>0, MadeFacts DEF ChooseFile
  <2>2. /\ form[f].target \in Target /\ form[f].read \in Logos /\ form[f] # Hidden
        /\ form[f].read \in Made \cup {NoLogo}
    BY <1>1, <2>1, FormFacts DEF NamedAreMade
  <2>3. new \in Made' /\ new \notin Made /\ new \in Logos /\ new # NoLogo
    <3>1. uploads + 1 \in 1..uploads' /\ uploads' \in 0..MaxUploads /\ uploads + 1 # 0
      BY <1>1, <2>1, MadeFacts
    <3> QED BY <1>1, <2>0, <3>1, LogoFacts, MadeFacts DEF Made
  <2>4. new # Absent
    BY <2>3, LogoFacts
  <2>5. /\ fst \in FormState /\ fst.at = "uploading" /\ fst.target = form[f].target
        /\ fst.read = form[f].read /\ fst.logo = new /\ fst.shown = TRUE
    BY <2>2, <2>3 DEF FormState
  <2> HIDE DEF fst
  <2>6. form'[f] = fst
    BY <1>1, <2>1
  <2>7. FormTurn(f, fst, save[f])
    <3>1. \A logo : Naming(f, logo)' => logo = new \/ Naming(f, logo)
      BY <2>1, <2>2, <2>5, <2>6 DEF Naming, InForm, InSave, HasRead
    <3> QED BY <1>1, <2>1, <2>3, <2>5, <3>1 DEF FormTurn
  <2>8. Private(f, new)
    <3>1. \A g \in Form : ~Naming(g, new)
      BY <1>1, <2>3 DEF NamedAreMade, Naming, InForm, InSave, HasRead
    <3>2. ~InUse(new)
      BY <1>1, <2>3, <2>4 DEF NamedAreMade, InUse
    <3>3. ~Doomed(new) /\ new \notin discard.asked
      BY <1>1, <2>3, MadeFacts
    <3> QED BY <2>3, <3>1, <3>2, <3>3 DEF Private, Naming
  <2>9. ~HasRead(f, new)' /\ ~InSave(f, new)'
    BY <1>1, <2>1, <2>2, <2>3, <2>5, <2>6 DEF HasRead, InSave, NamedAreMade
  <2>10. Private(f, new)'
    <3>1. new \notin discard'.asked
      BY <2>1, <2>8 DEF Private
    <3> QED BY <1>1, <2>7, <2>8, <2>9, <3>1, StaysPrivate
  <2>11. UploadIsPrivate(f)'
    BY <2>5, <2>6, <2>9, <2>10 DEF UploadIsPrivate, Waiting
  <2>12. ReadsItsOwn(f)'
    BY <1>1, <2>1, <2>2, <2>5, <2>6 DEF ReadsItsOwn
  <2> QED BY <2>7, <2>11, <2>12, TurnIsSound
<1>3. ASSUME NEW a \in Agreement \cup {New}, CloseWhileUploading(f, a)
      PROVE  AgreementsIInv'
  <2>1. PICK fst : fst = [form[f] EXCEPT !.target = a, !.shown = FALSE]
    OBVIOUS
  <2>2. /\ form[f].at = "uploading" /\ form' = [form EXCEPT ![f] = fst]
        /\ UNCHANGED <<bucket, uploads, save, discard, mishaps>>
        /\ a # New => logoOf[a] # Absent
    BY <1>1, <1>3, <2>1 DEF CloseWhileUploading, Listed
  <2>3. form[f] \in [at : {"uploading"}, target : Target, read : Logos, logo : Logos,
                     shown : BOOLEAN]
    BY <1>1, <2>2 DEF FormState, Hidden
  <2>4. /\ fst \in FormState /\ fst.at = "uploading" /\ fst.target = a
        /\ fst.read = form[f].read /\ fst.logo = form[f].logo /\ fst.shown = FALSE
        /\ form[f] # Hidden
    <3>1. fst \in [at : {"uploading"}, target : Target, read : Logos, logo : Logos,
                   shown : BOOLEAN]
      BY <2>1, <2>3 DEF Target
    <3> QED BY <2>1, <2>2, <2>3, <3>1, LogoFacts DEF FormState
  <2>5. form'[f] = fst
    BY <1>1, <2>2
  <2>6. FormTurn(f, fst, save[f])
    BY <1>1, <2>2, <2>4, <2>5 DEF FormTurn, Naming, InForm, InSave, HasRead
  <2>7. Private(f, form[f].logo) /\ ~InSave(f, form[f].logo)
    BY <1>1, <2>2 DEF UploadIsPrivate
  <2>8. ~HasRead(f, form[f].logo)' /\ ~InSave(f, form[f].logo)'
    BY <2>2, <2>4, <2>5, <2>7 DEF Private, HasRead, InSave
  <2>9. Private(f, form[f].logo)'
    <3>1. form[f].logo \notin discard'.asked
      BY <2>2, <2>7 DEF Private
    <3>2. PICK logo : logo = form[f].logo
      OBVIOUS
    <3>3. Private(f, logo) /\ logo \notin discard'.asked /\ ~HasRead(f, logo)'
      BY <2>4, <2>5, <2>7, <2>8, <3>1, <3>2 DEF HasRead
    <3>4. Private(f, logo)'
      BY <1>1, <2>6, <3>3, StaysPrivate
    <3> QED BY <2>4, <2>5, <3>2, <3>4
  <2>10. UploadIsPrivate(f)' /\ ReadsItsOwn(f)'
    BY <1>1, <2>2, <2>4, <2>5, <2>8, <2>9, LogoFacts DEF UploadIsPrivate, ReadsItsOwn, Waiting
  <2> QED BY <2>6, <2>10, TurnIsSound
<1>4. CASE UploadFails(f) \/ UploadedInVain(f)
  <2>1. /\ form[f].at = "uploading" /\ form' = [form EXCEPT ![f] = Reopened(f)]
        /\ UNCHANGED <<uploads, save>>
        /\ bucket' \in {bucket, bucket \cup {form[f].logo}} /\ mishaps' \in 0..MaxMishaps
        /\ discard' = discard \/ discard' = [discard EXCEPT !.asked = @ \cup {form[f].logo}]
    BY <1>1, <1>4 DEF UploadFails, UploadedInVain, Ask
  <2>2. /\ discard' = [asked |-> discard'.asked, free |-> discard.free]
        /\ \A logo \in discard'.asked : logo \in discard.asked \/ logo = form[f].logo
    <3>1. PICK more : more = discard.asked \cup {form[f].logo}
      OBVIOUS
    <3>2. discard' = discard \/ discard' = [asked |-> more, free |-> discard.free]
      BY <1>1, <2>1, <3>1
    <3> QED BY <1>1, <3>1, <3>2
  <2>3. form'[f] = Reopened(f) /\ form[f] # Hidden
    BY <1>1, <2>1, LogoFacts
  <2>4. FormTurn(f, Reopened(f), save[f])
    <3>1. \A logo : Naming(f, logo)' => Naming(f, logo)
      BY <1>1, <2>1, <2>3, ReopenedFacts, LogoFacts DEF Naming, InForm, InSave, HasRead
    <3>2. InForm(f, form[f].logo) /\ form[f].logo \in Made
      BY <1>1, <2>1 DEF InForm
    <3> QED BY <1>1, <2>1, <2>2, <2>3, <3>1, <3>2, ReopenedFacts DEF FormTurn
  <2>5. UploadIsPrivate(f)' /\ ReadsItsOwn(f)'
    BY <1>1, <2>1, <2>3, ReopenedFacts, LogoFacts DEF UploadIsPrivate, ReadsItsOwn, Waiting
  <2> QED BY <2>4, <2>5, TurnIsSound
<1>5. CASE Uploaded(f)
  <2> DEFINE fst == [at |-> "saving", target |-> form[f].target, read |-> form[f].read,
                     logo |-> form[f].logo, fresh |-> TRUE, shown |-> form[f].shown]
             sst == [at |-> "read", target |-> form[f].target, logo |-> form[f].logo,
                     fresh |-> TRUE]
  <2>1. /\ form[f].at = "uploading" /\ UNCHANGED <<uploads, discard, mishaps>>
        /\ bucket' = bucket \cup {form[f].logo}
        /\ form' = [form EXCEPT ![f] = fst] /\ save' = [save EXCEPT ![f] = sst]
    BY <1>1, <1>5 DEF Uploaded, Send
  <2>2. /\ form[f].target \in Target /\ form[f].read \in Logos /\ form[f].logo \in Logos
        /\ form[f].shown \in BOOLEAN /\ form[f] # Hidden
    BY <1>1, <2>1, FormFacts
  <2>3. /\ fst \in FormState /\ fst.at = "saving" /\ fst.target = form[f].target
        /\ fst.read = form[f].read /\ fst.logo = form[f].logo /\ fst.shown = form[f].shown
        /\ sst \in SaveState /\ sst.at = "read" /\ sst.target = form[f].target
        /\ sst.logo = form[f].logo /\ sst.fresh = TRUE /\ fst # Hidden
    BY <2>2, LogoFacts DEF FormState, SaveState
  <2> HIDE DEF fst, sst
  <2>4. form'[f] = fst /\ save'[f] = sst
    BY <1>1, <2>1
  <2>5. FormTurn(f, fst, sst)
    BY <1>1, <2>1, <2>2, <2>3, <2>4 DEF FormTurn, Naming, InForm, InSave, HasRead
  <2>6. PICK logo : logo = form[f].logo
    OBVIOUS
  <2>7. Private(f, logo) /\ ~InSave(f, logo)
    BY <1>1, <2>1, <2>6 DEF UploadIsPrivate
  <2>8. ~HasRead(f, logo)' /\ logo \notin discard'.asked
    BY <2>1, <2>2, <2>3, <2>4, <2>7 DEF Private, HasRead
  <2>9. Private(f, logo)'
    BY <1>1, <2>5, <2>7, <2>8, StaysPrivate
  <2>10. logo # NoLogo /\ logo \in bucket'
    BY <2>1, <2>6, <2>7 DEF Private
  <2>11. UploadIsPrivate(f)'
    BY <2>3, <2>4, <2>6, <2>9, <2>10 DEF UploadIsPrivate
  <2>12. ReadsItsOwn(f)'
    BY <1>1, <2>1, <2>2, <2>3, <2>4 DEF ReadsItsOwn
  <2> QED BY <2>5, <2>11, <2>12, TurnIsSound
<1> QED BY <1>2, <1>3, <1>4, <1>5

LEMMA SubmitSteps ==
  ASSUME AgreementsIInv, NEW f \in Form, Submit(f) \/ FormSaved(f) \/ FormFails(f)
  PROVE  AgreementsIInv'
<1>1. /\ AgreementsTypeOK /\ NamedAreMade /\ UploadIsPrivate(f) /\ ReadsItsOwn(f)
      /\ form \in [Form -> FormState] /\ save \in [Form -> SaveState]
      /\ discard = [asked |-> discard.asked, free |-> discard.free]
      /\ uploads <= MaxUploads /\ mishaps \in 0..MaxMishaps /\ save[f] \in SaveState
      /\ form[f].at = "saving" /\ form[f].fresh => form[f].logo \in Made
      /\ mishaps < MaxMishaps => mishaps + 1 \in 0..MaxMishaps
      /\ UNCHANGED <<logoOf, bucket, uploads, removing, unowned>>
  BY TurnHere, FormFacts DEF Submit, FormSaved, FormFails
<1>2. CASE Submit(f)
  <2>1. PICK logo \in {form[f].read, NoLogo} : Send(f, logo, FALSE, TRUE)
    BY <1>2 DEF Submit
  <2> DEFINE fst == [at |-> "saving", target |-> form[f].target, read |-> form[f].read,
                     logo |-> logo, fresh |-> FALSE, shown |-> TRUE]
             sst == [at |-> "read", target |-> form[f].target, logo |-> logo, fresh |-> FALSE]
  <2>2. /\ form[f].at = "open" /\ UNCHANGED <<discard, mishaps>>
        /\ form' = [form EXCEPT ![f] = fst] /\ save' = [save EXCEPT ![f] = sst]
    BY <1>1, <1>2, <2>1 DEF Submit, Send
  <2>3. /\ form[f].target \in Target /\ form[f].read \in Logos /\ form[f] # Hidden
        /\ logo \in Logos
    BY <1>1, <2>1, <2>2, FormFacts, LogoFacts
  <2>4. /\ fst \in FormState /\ fst.at = "saving" /\ fst.target = form[f].target
        /\ fst.read = form[f].read /\ fst.logo = logo /\ fst.shown = TRUE /\ fst # Hidden
        /\ sst \in SaveState /\ sst.at = "read" /\ sst.target = form[f].target
        /\ sst.logo = logo /\ sst.fresh = FALSE /\ fst.fresh = FALSE
    BY <2>3, LogoFacts DEF FormState, SaveState
  <2> HIDE DEF fst, sst
  <2>5. form'[f] = fst /\ save'[f] = sst
    BY <1>1, <2>2
  <2>6. FormTurn(f, fst, sst)
    BY <1>1, <2>1, <2>2, <2>3, <2>4, <2>5 DEF FormTurn, Naming, InForm, InSave, HasRead
  <2>7. UploadIsPrivate(f)' /\ ReadsItsOwn(f)'
    BY <1>1, <2>1, <2>2, <2>3, <2>4, <2>5 DEF UploadIsPrivate, ReadsItsOwn
  <2> QED BY <2>6, <2>7, TurnIsSound
<1>3. CASE FormSaved(f)
  <2>1. /\ form' = [form EXCEPT ![f] = Hidden] /\ save' = [save EXCEPT ![f] = Unsent]
        /\ UNCHANGED <<discard, mishaps>>
        /\ form'[f] = Hidden /\ save'[f] = Unsent
    BY <1>1, <1>3 DEF FormSaved
  <2>2. FormTurn(f, Hidden, Unsent)
    BY <1>1, <2>1, LogoFacts DEF FormTurn, Naming, InForm, InSave, HasRead
  <2>3. UploadIsPrivate(f)' /\ ReadsItsOwn(f)'
    BY <1>1, <2>1, LogoFacts DEF UploadIsPrivate, ReadsItsOwn, Waiting
  <2> QED BY <2>2, <2>3, TurnIsSound
<1>4. CASE FormFails(f)
  <2> DEFINE sst == IF save[f].at \in {"read", "write"} THEN save[f] ELSE Unsent
  <2>1. /\ form[f].at = "saving" /\ form' = [form EXCEPT ![f] = Reopened(f)]
        /\ save' = [save EXCEPT ![f] = sst] /\ mishaps' \in 0..MaxMishaps
        /\ \/ discard' = discard
           \/ form[f].fresh /\ discard' = [discard EXCEPT !.asked = @ \cup {form[f].logo}]
    BY <1>1, <1>4 DEF FormFails, Ask
  <2>2. /\ discard' = [asked |-> discard'.asked, free |-> discard.free]
        /\ \A logo \in discard'.asked : \/ logo \in discard.asked
                                        \/ logo = form[f].logo /\ logo \in Made
    <3>1. PICK more : more = discard.asked \cup {form[f].logo}
      OBVIOUS
    <3>2. \/ discard' = discard
          \/ form[f].logo \in Made /\ discard' = [asked |-> more, free |-> discard.free]
      BY <1>1, <2>1, <3>1
    <3> QED BY <1>1, <3>1, <3>2
  <2>3. /\ form'[f] = Reopened(f) /\ form[f] # Hidden /\ save'[f] = sst
        /\ sst \in SaveState /\ (sst = save[f] \/ sst = Unsent)
    BY <1>1, <2>1, LogoFacts
  <2> HIDE DEF sst
  <2>4. FormTurn(f, Reopened(f), sst)
    <3>1. \A logo : Naming(f, logo)' => Naming(f, logo)
      BY <1>1, <2>1, <2>3, ReopenedFacts, LogoFacts DEF Naming, InForm, InSave, HasRead
    <3>2. InForm(f, form[f].logo)
      BY <1>1, <2>1 DEF InForm
    <3> QED BY <1>1, <2>1, <2>2, <2>3, <3>1, <3>2, ReopenedFacts DEF FormTurn
  <2>5. UploadIsPrivate(f)' /\ ReadsItsOwn(f)'
    BY <1>1, <2>1, <2>3, ReopenedFacts, LogoFacts DEF UploadIsPrivate, ReadsItsOwn, Waiting
  <2> QED BY <2>4, <2>5, TurnIsSound
<1> QED BY <1>2, <1>3, <1>4

LEMMA ReadRefuseSteps ==
  ASSUME AgreementsIInv, NEW f \in Form, ReadCurrent(f) \/ Refuse(f)
  PROVE  AgreementsIInv'
<1>1. /\ AgreementsTypeOK /\ NamedAreMade /\ UploadIsPrivate(f) /\ ReadsItsOwn(f) /\ OneOwner
      /\ form \in [Form -> FormState] /\ save \in [Form -> SaveState]
      /\ discard = [asked |-> discard.asked, free |-> discard.free]
      /\ uploads <= MaxUploads /\ mishaps \in 0..MaxMishaps /\ form[f] \in FormState
      /\ form = [form EXCEPT ![f] = form[f]] /\ save[f].at \in {"read", "write"}
      /\ UNCHANGED <<logoOf, bucket, uploads, form, discard, removing, unowned, mishaps>>
  BY TurnHere, FormFacts DEF ReadCurrent, Refuse, AgreementsIInv
<1>2. CASE Refuse(f)
  <2>1. PICK sst : /\ sst = IF Waiting(f) THEN [at |-> "refused"] ELSE Unsent
                   /\ save' = [save EXCEPT ![f] = sst]
    BY <1>2 DEF Refuse
  <2>2. sst \in SaveState /\ sst.at \notin {"read", "write"} /\ save'[f] = sst
    BY <1>1, <2>1 DEF SaveState, Unsent
  <2>3. FormTurn(f, form[f], sst)
    BY <1>1, <2>1, <2>2 DEF FormTurn, Naming, InForm, InSave, HasRead
  <2>4. UploadIsPrivate(f)'
    <3>1. PICK logo : logo = form[f].logo
      OBVIOUS
    <3>2. form[f].at = "uploading" => Private(f, logo)'
      <4>1. form[f].at = "uploading" => Private(f, logo)
        BY <1>1, <3>1 DEF UploadIsPrivate
      <4>2. Private(f, logo) => logo \notin discard'.asked /\ ~HasRead(f, logo)'
        BY <1>1, <2>2 DEF Private, HasRead
      <4> QED BY <1>1, <2>3, <4>1, <4>2, StaysPrivate
    <3> QED BY <1>1, <2>2, <3>1, <3>2 DEF UploadIsPrivate, InSave
  <2>5. ReadsItsOwn(f)'
    BY <1>1, <2>2 DEF ReadsItsOwn
  <2> QED BY <2>3, <2>4, <2>5, TurnIsSound
<1>3. CASE ReadCurrent(f)
  <2> DEFINE current == IF save[f].target = New THEN NoLogo ELSE logoOf[save[f].target]
             sst == [at |-> "write", target |-> save[f].target, logo |-> save[f].logo,
                     fresh |-> save[f].fresh, current |-> current]
  <2>1. save[f].at = "read" /\ save' = [save EXCEPT ![f] = sst]
    BY <1>1, <1>3 DEF ReadCurrent
  <2>2. /\ save[f].target \in Target /\ save[f].logo \in Logos /\ save[f].fresh \in BOOLEAN
        /\ save[f].target # New => save[f].target \in Agreement /\ current # Absent
                                   /\ current = logoOf[save[f].target]
        /\ save[f].target = New => current = NoLogo
    BY <1>1, FormFacts DEF Target, ReadsItsOwn
  <2>3. current \in Logos /\ (current = NoLogo \/ InUse(current))
    BY <1>1, <2>2, LogoFacts DEF AgreementsTypeOK, InUse
  <2>4. \A a \in Agreement : a # save[f].target /\ logoOf[a] = current =>
            current \in unowned \cup {NoLogo}
    BY <1>1, <2>2, <2>3, LogoFacts DEF OneOwner
  <2>5. PICK cur : cur = current
    OBVIOUS
  <2> HIDE DEF current
  <2>6. /\ sst \in SaveState /\ sst.at = "write" /\ sst.target = save[f].target
        /\ sst.logo = save[f].logo /\ sst.fresh = save[f].fresh /\ sst.current = cur
    BY <2>2, <2>3, <2>5 DEF SaveState
  <2> HIDE DEF sst
  <2>7. save'[f] = sst
    BY <1>1, <2>1
  <2>8. FormTurn(f, form[f], sst)
    BY <1>1, <2>1, <2>3, <2>5, <2>6, <2>7 DEF FormTurn, Naming, InForm, InSave, HasRead
  <2>9. ASSUME NEW logo, Private(f, logo) PROVE Private(f, logo)'
    <3>1. logo \notin discard'.asked
      BY <1>1, <2>9 DEF Private
    <3>2. ~HasRead(f, logo)'
      BY <1>1, <2>3, <2>5, <2>6, <2>7, <2>9 DEF Private, HasRead
    <3> QED BY <1>1, <2>8, <2>9, <3>1, <3>2, StaysPrivate
  <2>10. UploadIsPrivate(f)'
    BY <1>1, <2>1, <2>6, <2>7, <2>9 DEF UploadIsPrivate, InSave, Waiting
  <2>11. ReadsItsOwn(f)'
    BY <1>1, <2>1, <2>4, <2>5, <2>6, <2>7 DEF ReadsItsOwn
  <2> QED BY <2>8, <2>10, <2>11, TurnIsSound
<1> QED BY <1>2, <1>3

(* What a row takes is the form's own upload, or what the row had, or it   *)
(* is noted as unowned.                                                    *)
LEMMA WriteAgreementStep ==
  ASSUME AgreementsIInv, NEW g \in Form, WriteAgreement(g)
  PROVE  AgreementsIInv'
<1>1. /\ AgreementsTypeOK /\ NamedAreMade /\ OneOwner /\ DoomedHaveNoOwner /\ LogoIsThere
      /\ \A f \in Form : UploadIsPrivate(f) /\ ReadsItsOwn(f)
      /\ save[g].at = "write" /\ UNCHANGED <<bucket, uploads, form, discard, mishaps>>
      /\ removing' = removing \cup Replaced(g)
  BY DEF AgreementsIInv, WriteAgreement
<1>2. PICK a \in Agreement :
        /\ IF save[g].target = New THEN logoOf[a] = Absent ELSE a = save[g].target
        /\ logoOf' = [logoOf EXCEPT ![a] = save[g].logo]
        /\ unowned' = IF Orphaned(g, a) THEN unowned \cup {save[g].logo} ELSE unowned
  BY DEF WriteAgreement
<1>3. PICK logo : logo = save[g].logo
  OBVIOUS
<1>4. PICK cur : cur = save[g].current
  OBVIOUS
<1>5. /\ logo \in Logos /\ logo \in Made \cup {NoLogo} /\ cur \in Made \cup {NoLogo}
      /\ save[g].target \in Target /\ save[g].fresh \in BOOLEAN
      /\ Made' = Made
  BY <1>1, <1>3, <1>4, FormFacts DEF NamedAreMade, Made
<1>6. PICK sst : /\ sst \in SaveState /\ sst.at \notin {"read", "write"}
                 /\ save' = [save EXCEPT ![g] = sst]
  <2>1. [at |-> "saved"] \in SaveState
    BY DEF SaveState
  <2> QED BY <2>1, LogoFacts DEF WriteAgreement
<1>7. /\ save' \in [Form -> SaveState] /\ save'[g] = sst
      /\ \A f \in Form : f # g => save'[f] = save[f]
      /\ logoOf' \in [Agreement -> Logos \cup {Absent}] /\ logoOf'[a] = logo
      /\ \A b \in Agreement : b # a => logoOf'[b] = logoOf[b]
      /\ unowned \subseteq unowned' /\ unowned' \subseteq Logos
      /\ \A k : k \in removing' <=> k \in removing \/ (k = cur /\ k # NoLogo /\ k # logo)
  BY <1>1, <1>2, <1>3, <1>4, <1>5, <1>6 DEF AgreementsTypeOK, Replaced
<1>8. \/ logo \in unowned' \/ logoOf' = logoOf \/ logo = NoLogo
      \/ Private(g, logo) /\ logo \in bucket
  <2>1. CASE save[g].fresh = TRUE /\ Waiting(g)
    BY <1>1, <1>3, <2>1 DEF UploadIsPrivate
  <2>2. CASE save[g].fresh = TRUE /\ ~Waiting(g)
    BY <1>2, <1>3, <2>2 DEF Orphaned
  <2>3. CASE save[g].fresh = FALSE /\ save[g].target = New
    BY <1>1, <1>3, <2>3 DEF ReadsItsOwn
  <2>4. CASE save[g].fresh = FALSE /\ save[g].target # New
    <3>1. a = save[g].target /\ logoOf[a] # Absent
      BY <1>1, <1>2, <2>4 DEF ReadsItsOwn
    <3>2. logoOf[a] # logo => logo \in unowned'
      BY <1>2, <1>3, <2>4, <3>1 DEF Orphaned
    <3>3. logoOf[a] = logo => logoOf' = logoOf
      BY <1>1, <1>2, <1>3 DEF AgreementsTypeOK
    <3> QED BY <3>2, <3>3
  <2> QED BY <1>5, <2>1, <2>2, <2>3, <2>4
<1>9. AgreementsTypeOK' /\ NamedAreMade'
  BY <1>1, <1>5, <1>6, <1>7 DEF AgreementsTypeOK, NamedAreMade
<1>10. ASSUME NEW f \in Form, NEW k, Private(f, k), ~InSave(g, k) PROVE Private(f, k)'
  <2>1. k # logo /\ k # cur
    <3>1. ~HasRead(g, k)
      BY <1>10 DEF Private
    <3> QED BY <1>1, <1>3, <1>4, <1>10, <3>1 DEF InSave, HasRead
  <2>2. ~InUse(k)' /\ ~Doomed(k)'
    BY <1>1, <1>7, <1>10, <2>1 DEF Private, InUse, Doomed
  <2>3. \A h \in Form : /\ HasRead(h, k)' => HasRead(h, k)
                        /\ InSave(h, k)' => InSave(h, k)
                        /\ InForm(h, k)' => InForm(h, k)
    BY <1>1, <1>6, <1>7 DEF HasRead, InSave, InForm
  <2> QED BY <1>1, <1>10, <2>2, <2>3 DEF Private
<1>11. ASSUME NEW f \in Form PROVE UploadIsPrivate(f)'
  <2>1. UploadIsPrivate(f)
    BY <1>1
  <2>2. \A k : Private(f, k) /\ f # g => ~InSave(g, k)
    BY DEF Private
  <2>3. form[f].at = "uploading" => Private(f, form[f].logo)' /\ ~InSave(f, form[f].logo)'
    <3>1. PICK k : k = form[f].logo
      OBVIOUS
    <3>2. form[f].at = "uploading" => Private(f, k)' /\ ~InSave(f, k)'
      BY <1>6, <1>7, <1>10, <2>1, <2>2, <3>1 DEF UploadIsPrivate, InSave
    <3> QED BY <1>1, <3>1, <3>2
  <2>4. Waiting(f) /\ save'[f].at \in {"read", "write"} /\ save'[f].fresh =>
            Private(f, save[f].logo)' /\ save[f].logo \in bucket /\ save'[f] = save[f]
    <3>1. PICK k : k = save[f].logo
      OBVIOUS
    <3>2. Waiting(f) /\ save'[f].at \in {"read", "write"} /\ save'[f].fresh =>
            f # g /\ save'[f] = save[f]
      BY <1>6, <1>7
    <3>3. Waiting(f) /\ save'[f].at \in {"read", "write"} /\ save'[f].fresh =>
            Private(f, k)' /\ k \in bucket
      BY <1>10, <2>1, <2>2, <3>1, <3>2 DEF UploadIsPrivate
    <3> QED BY <3>1, <3>2, <3>3
  <2> QED BY <1>1, <2>1, <2>3, <2>4 DEF UploadIsPrivate, Waiting
<1>12. ASSUME NEW f \in Form PROVE ReadsItsOwn(f)'
  <2>1. ReadsItsOwn(f)
    BY <1>1
  <2>2. \A b \in Agreement : logoOf[b] # Absent => logoOf'[b] # Absent
    BY <1>5, <1>7, LogoFacts
  <2>3. ASSUME f # g, save[f].at = "write", NEW b \in Agreement, b # save[f].target,
               logoOf'[b] = save[f].current
        PROVE  save[f].current \in unowned' \cup {NoLogo}
    <3>1. HasRead(f, save[f].current)
      BY <2>3 DEF HasRead
    <3>2. CASE b # a \/ logoOf' = logoOf
      BY <1>7, <2>1, <2>3, <3>2 DEF ReadsItsOwn
    <3>3. CASE b = a /\ logoOf' # logoOf
      BY <1>7, <1>8, <2>3, <3>1, <3>3 DEF Private
    <3> QED BY <3>2, <3>3
  <2>4. /\ form' = form /\ (f # g => save'[f] = save[f])
        /\ f = g => save'[f].at \notin {"read", "write"}
    BY <1>1, <1>6, <1>7
  <2>5. \A t \in Target : t # New /\ logoOf[t] # Absent => logoOf'[t] # Absent
    BY <2>2 DEF Target
  <2>6. /\ form[f] # Hidden => form[f].target \in Target
        /\ save[f].at \in {"read", "write"} => save[f].target \in Target
    BY <1>1, FormFacts
  <2> QED BY <2>1, <2>3, <2>4, <2>5, <2>6 DEF ReadsItsOwn
<1>13. OneOwner'
  <2>1. ASSUME NEW b \in Agreement, b # a, logoOf[b] = logo
        PROVE  logo \in unowned' \cup {NoLogo, Absent}
    <3>1. CASE logoOf' = logoOf
      BY <1>1, <1>7, <2>1, <3>1 DEF OneOwner
    <3> QED BY <1>8, <2>1, <3>1 DEF Private, InUse
  <2> QED BY <1>1, <1>7, <2>1 DEF OneOwner
<1>14. DoomedHaveNoOwner'
  <2>1. ASSUME NEW b \in Agreement, Doomed(logoOf[b]), logoOf'[b] = logoOf[b]
        PROVE  logoOf'[b] \in unowned'
    BY <1>1, <1>7, <2>1 DEF DoomedHaveNoOwner
  <2>2. ~Doomed(NoLogo)
    BY <1>1, MadeFacts
  <2>3. Doomed(logo) => logo \in unowned'
    <3>1. logoOf' = logoOf => logoOf[a] = logo
      BY <1>7
    <3> QED BY <1>7, <1>8, <2>1, <2>2, <3>1 DEF Private
  <2>4. ASSUME NEW b \in Agreement, b # a, logoOf[b] = cur, cur # NoLogo
        PROVE  cur \in unowned'
    <3>1. b # save[g].target
      BY <1>2, <1>5, <2>4, LogoFacts
    <3> QED BY <1>1, <1>4, <1>7, <2>4, <3>1 DEF ReadsItsOwn
  <2>5. \A k : Doomed(k)' => Doomed(k) \/ (k = cur /\ k # NoLogo /\ k # logo)
    BY <1>1, <1>7 DEF Doomed
  <2>6. ASSUME NEW b \in Agreement, Doomed(logoOf[b])' PROVE logoOf'[b] \in unowned'
    <3>1. Doomed(logoOf'[b]) \/ (logoOf'[b] = cur /\ cur # NoLogo /\ cur # logo)
      BY <2>5, <2>6 DEF Doomed
    <3>2. CASE b = a
      BY <1>7, <2>3, <3>1, <3>2
    <3>3. CASE b # a
      BY <1>7, <2>1, <2>4, <3>1, <3>3
    <3> QED BY <3>2, <3>3
  <2> QED BY <2>6 DEF DoomedHaveNoOwner
<1>15. LogoIsThere'
  <2>1. \A b \in Agreement : logoOf[b] \in bucket' \cup unowned' \cup {Absent, NoLogo}
    BY <1>1, <1>7 DEF LogoIsThere
  <2> QED BY <1>1, <1>7, <1>8, <2>1 DEF LogoIsThere
<1> QED BY <1>9, <1>11, <1>12, <1>13, <1>14, <1>15 DEF AgreementsIInv

LEMMA DeletionSteps ==
  ASSUME AgreementsIInv, NEW logo,
         RemoveReplaced(logo) \/ DiscardChecked(logo) \/ DiscardEnds(logo)
  PROVE  AgreementsIInv'
<1>1. /\ AgreementsTypeOK /\ NamedAreMade /\ OneOwner /\ DoomedHaveNoOwner /\ LogoIsThere
      /\ \A f \in Form : UploadIsPrivate(f) /\ ReadsItsOwn(f)
      /\ UNCHANGED <<logoOf, uploads, form, save, unowned, mishaps>>
      /\ discard = [asked |-> discard.asked, free |-> discard.free]
  BY DEF AgreementsIInv, AgreementsTypeOK, RemoveReplaced, DiscardChecked, DiscardEnds
<1>2. /\ removing' \subseteq removing
      /\ discard' = [asked |-> discard'.asked, free |-> discard'.free]
      /\ discard'.asked \subseteq discard.asked
      /\ discard'.free \subseteq discard.free
            \cup {k \in {logo} : logo \in discard.asked /\ ~InUse(logo)}
      /\ bucket' \subseteq bucket
      /\ \A k \in bucket : k \notin bucket' => k = logo /\ Doomed(logo)
  <2>1. CASE RemoveReplaced(logo)
    BY <1>1, <2>1 DEF RemoveReplaced, Doomed
  <2>2. CASE DiscardChecked(logo)
    <3>1. PICK asked, free :
            /\ asked = discard.asked \ {logo}
            /\ free = IF InUse(logo) THEN discard.free ELSE discard.free \cup {logo}
      OBVIOUS
    <3>2. discard' = [asked |-> asked, free |-> free]
      BY <2>2, <3>1 DEF DiscardChecked
    <3> QED BY <2>2, <3>1, <3>2 DEF DiscardChecked
  <2>3. CASE DiscardEnds(logo)
    <3>1. PICK free : free = discard.free \ {logo}
      OBVIOUS
    <3>2. discard' = [asked |-> discard.asked, free |-> free]
      BY <1>1, <2>3, <3>1 DEF DiscardEnds
    <3> QED BY <2>3, <3>1, <3>2 DEF DiscardEnds, Doomed
  <2> QED BY <2>1, <2>2, <2>3
<1>3. AgreementsTypeOK' /\ NamedAreMade' /\ Made' = Made
  BY <1>1, <1>2 DEF AgreementsTypeOK, NamedAreMade, Made
<1>4. \A k : Doomed(k)' => Doomed(k) \/ (k = logo /\ logo \in discard.asked /\ ~InUse(logo))
  BY <1>2 DEF Doomed
<1>5. ASSUME NEW f \in Form, NEW k, Private(f, k)
      PROVE  Private(f, k)' /\ (k \in bucket => k \in bucket')
  BY <1>1, <1>2, <1>4, <1>5 DEF Private, InUse, HasRead, InForm, InSave
<1>6. ASSUME NEW f \in Form PROVE UploadIsPrivate(f)' /\ ReadsItsOwn(f)'
  <2>1. UploadIsPrivate(f) /\ ReadsItsOwn(f)
    BY <1>1
  <2> QED BY <1>1, <1>5, <2>1 DEF UploadIsPrivate, ReadsItsOwn, InSave, Waiting
<1>7. OneOwner' /\ DoomedHaveNoOwner'
  BY <1>1, <1>4 DEF OneOwner, DoomedHaveNoOwner, InUse
<1>8. LogoIsThere'
  BY <1>1, <1>2 DEF LogoIsThere, DoomedHaveNoOwner
<1> QED BY <1>3, <1>6, <1>7, <1>8 DEF AgreementsIInv

(* Uploads are private, and what is deleted is nobody's.                   *)
THEOREM AgreementsAreSound == AgreementsSpec => []AgreementsIInv
<1>1. AgreementsInit => AgreementsIInv
  <2>1. SUFFICES ASSUME AgreementsInit PROVE AgreementsIInv
    OBVIOUS
  <2>2. AgreementsTypeOK
    <3>1. MaxUploads \in Nat /\ MaxMishaps \in Nat
      BY AgreementsAssumption
    <3>2. discard.asked = {} /\ discard.free = {}
      BY <2>1 DEF AgreementsInit
    <3> QED BY <2>1, <3>1, <3>2, LogoFacts DEF AgreementsInit, AgreementsTypeOK
  <2> QED BY <2>1, <2>2, LogoFacts
          DEF AgreementsInit, AgreementsIInv, NamedAreMade, UploadIsPrivate, ReadsItsOwn,
              Waiting, OneOwner, DoomedHaveNoOwner, LogoIsThere, Doomed
<1>2. AgreementsIInv /\ [AgreementsNext]_agreementVars => AgreementsIInv'
  <2>1. SUFFICES ASSUME AgreementsIInv, [AgreementsNext]_agreementVars PROVE AgreementsIInv'
    OBVIOUS
  <2>2. CASE UNCHANGED agreementVars
    BY <2>1, <2>2
       DEF agreementVars, AgreementsIInv, AgreementsTypeOK, NamedAreMade, Made, UploadIsPrivate,
           ReadsItsOwn, Waiting, OneOwner, DoomedHaveNoOwner, LogoIsThere, Doomed, Private,
           InUse, HasRead, InForm, InSave
  <2>3. CASE AgreementsNext
    <3>1. ASSUME NEW f \in Form, NEW a \in Agreement \cup {New},
                 OpenForm(f, a) \/ CloseWhileUploading(f, a)
          PROVE  AgreementsIInv'
      BY <2>1, <3>1, OpenCloseSteps, UploadSteps
    <3>2. ASSUME NEW f \in Form,
                 \/ CloseForm(f) \/ ChooseFile(f) \/ UploadFails(f) \/ UploadedInVain(f)
                 \/ Uploaded(f) \/ Submit(f) \/ FormSaved(f) \/ FormFails(f)
                 \/ ReadCurrent(f) \/ Refuse(f) \/ WriteAgreement(f)
          PROVE  AgreementsIInv'
      BY <2>1, <3>2, OpenCloseSteps, UploadSteps, SubmitSteps, ReadRefuseSteps,
         WriteAgreementStep
    <3> QED BY <2>1, <2>3, <3>1, <3>2, DeletionSteps DEF AgreementsNext
  <2> QED BY <2>1, <2>2, <2>3
<1> QED BY <1>1, <1>2, PTL DEF AgreementsSpec

(* An agreement never names a logo that the bucket lost.                   *)
THEOREM LogosAreThere == AgreementsSpec => []LogoIsThere
<1>1. AgreementsIInv => LogoIsThere
  BY DEF AgreementsIInv
<1> QED BY <1>1, AgreementsAreSound, PTL

-----------------------------------------------------------------------------
(* Requests and documents                                                  *)

LEMMA QuoterMoves ==
  ASSUME QuotationsTypeOK, NEW r \in Quoter, NEW state \in QuoterState, QuoterAt(r, state)
  PROVE  /\ quoter' \in [Quoter -> QuoterState]
         /\ quoter'[r] = state
         /\ \A o \in Quoter : o # r => quoter'[o] = quoter[o]
  BY DEF QuotationsTypeOK, QuoterAt

LEMMA Stops ==
  ASSUME QuotationsTypeOK, NEW r \in Quoter, StopQuoting(r)
  PROVE  /\ quoter' \in [Quoter -> QuoterState]
         /\ quoter'[r] = NotQuoting
         /\ \A o \in Quoter : o # r => quoter'[o] = quoter[o]
  BY QuoterMoves DEF StopQuoting, NotQuoting, QuoterState

LEMMA MarkFacts ==
  ASSUME QuotationsTypeOK, MarkQuotationError \/ quotation' = quotation
  PROVE  /\ quotation' \in Quotation
         /\ quotation'.externalId = quotation.externalId
         /\ quotation'.quotedFingerprint = quotation.quotedFingerprint
         /\ quotation'.status \in {quotation.status, "ERROR"}
         /\ quotation = NoQuotation => quotation' = NoQuotation
<1>1. quotation \in Quotation
  BY DEF QuotationsTypeOK
<1> QED BY <1>1 DEF MarkQuotationError, Quotation, QuotationStatus, NoQuotation

(* What Siigo does with a call: the known document has the contents, or a  *)
(* new one does; nothing else changes.                                     *)
LEMMA DoesFacts ==
  ASSUME QuotationsTypeOK, NEW call \in QuoteCall, Given(call.known),
         NEW answered \in BOOLEAN, NEW id \in DocumentId, SiigoDoes(call, answered, id)
  PROVE  /\ documents' \in Seq(Document) /\ Len(documents') <= MaxDocuments
         /\ Len(documents) <= Len(documents')
         /\ id \in 1..Len(documents')
         /\ documents'[id].content = call.content
         /\ \A d \in 1..Len(documents) : d # id => documents'[d] = documents[d]
         /\ \A d \in 1..Len(documents) : documents'[d].answered = documents[d].answered
         /\ call.known = NoDocument =>
                /\ Len(documents') = Len(documents) + 1
                /\ id = Len(documents) + 1
                /\ documents'[id].answered = answered
         /\ call.known # NoDocument => id = call.known /\ Len(documents') = Len(documents)
<1>1. documents \in Seq(Document) /\ Len(documents) \in Nat /\ Len(documents) <= MaxDocuments
      /\ call.content \in Content /\ MaxDocuments \in Nat
  BY QuotationsAssumption DEF QuotationsTypeOK, QuoteCall
<1>2. CASE call.known = NoDocument
  <2>1. /\ Len(documents) < MaxDocuments /\ id = Len(documents) + 1
        /\ documents' = Append(documents, [content |-> call.content, answered |-> answered])
    BY <1>2 DEF SiigoDoes
  <2>2. [content |-> call.content, answered |-> answered] \in Document
    BY <1>1 DEF Document
  <2> QED BY <1>1, <1>2, <2>1, <2>2
<1>3. CASE call.known # NoDocument
  <2>1. id = call.known /\ documents' = [documents EXCEPT ![id].content = call.content]
    BY <1>3 DEF SiigoDoes
  <2>2. id \in 1..Len(documents) /\ documents[id] \in Document
    BY <1>1, <1>3, <2>1 DEF Given, NoDocument
  <2>3. /\ [documents[id] EXCEPT !.content = call.content] \in Document
        /\ [documents[id] EXCEPT !.content = call.content].content = call.content
        /\ [documents[id] EXCEPT !.content = call.content].answered = documents[id].answered
    BY <1>1, <2>2 DEF Document
  <2>4. documents' = [documents EXCEPT ![id] = [documents[id] EXCEPT !.content = call.content]]
    BY <2>1
  <2> QED BY <1>1, <1>3, <2>1, <2>2, <2>3, <2>4
<1> QED BY <1>2, <1>3

(* Identifiers stay known as documents are added.                          *)
LEMMA StillKnown ==
  ASSUME QuotationsTypeOK, documents' \in Seq(Document), Len(documents) <= Len(documents')
  PROVE  \A id : Given(id) => Given(id)'
  BY DEF QuotationsTypeOK, Given

LEMMA QuoterFacts ==
  ASSUME QuotationsTypeOK, NEW r \in Quoter
  PROVE  /\ quoter[r] \in QuoterState
         /\ quoter[r].at = "call" => quoter[r].call \in QuoteCall
         /\ quoter[r].at = "save" => quoter[r].id \in DocumentId /\ quoter[r].content \in Content
         /\ quoter[r].at = "check" => quoter[r].content \in Content
  BY DEF QuotationsTypeOK, QuoterState

-----------------------------------------------------------------------------
(* The operation changes                                                   *)

LEMMA EditStep ==
  ASSUME QuotationsIInv,
         (\E content \in Content : EditQuoted(content)) \/ CancelQuoted \/ ReopenQuoted
  PROVE  QuotationsIInv'
<1>1. /\ quoted' \in [state : {"LIVE", "CANCELLED"}, content : Content]
      /\ quoted.state # "DELETED"
      /\ UNCHANGED <<quotation, quoter, documents, lateQuotes, overlap, quoteMishaps>>
  BY DEF EditQuoted, CancelQuoted, ReopenQuoted, QuotationsIInv, QuotationsTypeOK
<1>2. quoted'.state # "DELETED" /\ quoted' \in [state : {"LIVE", "CANCELLED", "DELETED"}, content : Content]
  BY <1>1
<1>3. QuotationsTypeOK'
  BY <1>1, <1>2 DEF QuotationsIInv, QuotationsTypeOK
<1>4. GivenIds'
  BY <1>1 DEF QuotationsIInv, GivenIds, Given
<1>5. ASSUME Undisturbed'
      PROVE  lateQuotes' = {} /\ OneInCharge' /\ WrittenIsThere' /\ OneAnswered'
  BY <1>1, <1>2, <1>5
     DEF QuotationsIInv, Undisturbed, OneInCharge, WrittenIsThere, OneAnswered, Answered, InCharge
<1> QED BY <1>3, <1>4, <1>5 DEF QuotationsIInv

LEMMA DeleteStep == ASSUME QuotationsIInv, DeleteQuoted PROVE QuotationsIInv'
<1>1. /\ quotation' = NoQuotation
      /\ UNCHANGED <<quoter, documents, lateQuotes, overlap, quoteMishaps>>
      /\ quoted' \in [state : {"LIVE", "CANCELLED", "DELETED"}, content : Content]
      /\ quoted'.state = "DELETED"
  BY DEF DeleteQuoted, QuotationsIInv, QuotationsTypeOK
<1>2. NoQuotation \in Quotation /\ NoQuotation.externalId = 0 /\ NoQuotation.status = "NONE"
  BY DEF NoQuotation, Quotation, QuotationStatus, NoDocument
<1>3. QuotationsTypeOK'
  BY <1>1, <1>2 DEF QuotationsIInv, QuotationsTypeOK
<1>4. GivenIds'
  BY <1>1, <1>2 DEF QuotationsIInv, QuotationsTypeOK, GivenIds, Given
<1>5. ASSUME Undisturbed'
      PROVE  lateQuotes' = {} /\ OneInCharge' /\ WrittenIsThere' /\ OneAnswered'
  BY <1>1, <1>2, <1>5
     DEF QuotationsIInv, Undisturbed, OneInCharge, WrittenIsThere, OneAnswered, Answered, InCharge
<1> QED BY <1>3, <1>4, <1>5 DEF QuotationsIInv

-----------------------------------------------------------------------------
(* claim                                                                   *)

(* A request that is not in charge moves, and is not afterwards.           *)
LEMMA BystanderStep ==
  ASSUME QuotationsIInv, NEW r \in Quoter,
         ReadQuoted(r) \/ CheckQuotation(r) \/ UpsertRefused(r)
  PROVE  QuotationsIInv'
<1> DEFINE Outside == {"idle", "check", "upsert"}
<1>1. QuotationsTypeOK /\ GivenIds /\ quoted.content \in Content
  BY DEF QuotationsIInv, QuotationsTypeOK
<1>2. UNCHANGED <<quoted, quotation, documents, lateQuotes, overlap, quoteMishaps>>
  BY DEF ReadQuoted, CheckQuotation, UpsertRefused
<1>3. quoter[r].at \in Outside
  BY DEF ReadQuoted, CheckQuotation, UpsertRefused, NotQuoting
<1>4. PICK state \in QuoterState : QuoterAt(r, state) /\ state.at \in Outside
  <2>1. CASE ReadQuoted(r)
    BY <1>1, <2>1 DEF ReadQuoted, QuoterState
  <2>2. CASE CheckQuotation(r) /\ MayClaimQuotation(quoter[r].content)
    <3> DEFINE insert == quotation.status = "NONE"
    <3>1. insert \in BOOLEAN
      OBVIOUS
    <3>2. QuoterAt(r, [at |-> "upsert", insert |-> insert])
      BY <2>2 DEF CheckQuotation
    <3> HIDE DEF insert
    <3>3. [at |-> "upsert", insert |-> insert] \in QuoterState
      BY <3>1 DEF QuoterState
    <3> QED BY <3>2, <3>3
  <2>3. CASE (CheckQuotation(r) /\ ~MayClaimQuotation(quoter[r].content)) \/ UpsertRefused(r)
    BY <2>3 DEF CheckQuotation, UpsertRefused, StopQuoting, NotQuoting, QuoterState
  <2> QED BY <2>1, <2>2, <2>3
<1>5. /\ quoter' \in [Quoter -> QuoterState] /\ quoter'[r] = state
      /\ \A o \in Quoter : o # r => quoter'[o] = quoter[o]
  BY <1>1, <1>4, QuoterMoves
<1>6. QuotationsTypeOK'
  BY <1>1, <1>2, <1>5 DEF QuotationsTypeOK
<1>7. GivenIds'
  BY <1>1, <1>2, <1>4, <1>5 DEF GivenIds, Given
<1>8. ASSUME Undisturbed'
      PROVE  lateQuotes' = {} /\ OneInCharge' /\ WrittenIsThere' /\ OneAnswered'
  <2>1. lateQuotes = {} /\ OneInCharge /\ WrittenIsThere /\ OneAnswered
    BY <1>2, <1>8 DEF QuotationsIInv, Undisturbed
  <2>2. OneInCharge'
    BY <1>2, <1>4, <1>5, <2>1 DEF OneInCharge, InCharge
  <2>3. WrittenIsThere'
    BY <1>2, <1>4, <1>5, <2>1 DEF WrittenIsThere
  <2>4. OneAnswered'
    BY <1>2, <1>3, <1>4, <1>5, <2>1 DEF OneAnswered, Answered
  <2> QED BY <1>2, <2>1, <2>2, <2>3, <2>4
<1> QED BY <1>6, <1>7, <1>8 DEF QuotationsIInv

(* A request takes the row: alone, if nobody was in charge.                *)
LEMMA UpsertStep ==
  ASSUME QuotationsIInv, NEW r \in Quoter, UpsertQuotation(r)
  PROVE  QuotationsIInv'
<1>1. QuotationsTypeOK /\ GivenIds /\ quotation \in Quotation
  BY DEF QuotationsIInv, QuotationsTypeOK
<1>2. /\ quoted.state # "DELETED" /\ quoter[r].at = "upsert"
      /\ quotation' = [quotation EXCEPT !.status = "SYNCING"]
      /\ overlap' = (overlap \/ \E o \in Quoter : InCharge(o))
      /\ QuoterAt(r, [at |-> "load"])
      /\ UNCHANGED <<quoted, documents, lateQuotes, quoteMishaps>>
  BY DEF UpsertQuotation, Upsertable
<1>3. /\ quotation' \in Quotation /\ quotation'.status = "SYNCING"
      /\ quotation'.externalId = quotation.externalId
  BY <1>1, <1>2 DEF Quotation, QuotationStatus
<1>4. /\ quoter' \in [Quoter -> QuoterState] /\ quoter'[r] = [at |-> "load"]
      /\ \A o \in Quoter : o # r => quoter'[o] = quoter[o]
  <2>1. [at |-> "load"] \in QuoterState
    BY DEF QuoterState
  <2> QED BY <1>1, <1>2, <2>1, QuoterMoves
<1>5. QuotationsTypeOK'
  BY <1>1, <1>2, <1>3, <1>4 DEF QuotationsTypeOK
<1>6. GivenIds'
  BY <1>1, <1>2, <1>3, <1>4 DEF GivenIds, Given
<1>7. ASSUME Undisturbed'
      PROVE  lateQuotes' = {} /\ OneInCharge' /\ WrittenIsThere' /\ OneAnswered'
  <2>1. Undisturbed /\ \A o \in Quoter : ~InCharge(o)
    BY <1>1, <1>2, <1>7 DEF Undisturbed, QuotationsTypeOK
  <2>2. lateQuotes = {} /\ OneInCharge /\ WrittenIsThere /\ OneAnswered
    BY <2>1 DEF QuotationsIInv
  <2>3. \A o \in Quoter : o # r => ~InCharge(o)'
    BY <1>4, <2>1 DEF InCharge
  <2>4. OneInCharge'
    BY <1>3, <1>4, <2>3 DEF OneInCharge
  <2>5. WrittenIsThere'
    BY <1>3, <1>4, <2>3 DEF WrittenIsThere, InCharge
  <2>6. OneAnswered'
    BY <1>2, <1>3, <1>4, <2>1, <2>2, <2>3 DEF OneAnswered, Answered, InCharge
  <2> QED BY <1>2, <2>2, <2>4, <2>5, <2>6
<1> QED BY <1>5, <1>6, <1>7 DEF QuotationsIInv

-----------------------------------------------------------------------------
(* synchronize                                                             *)

LEMMA LoadStep ==
  ASSUME QuotationsIInv, NEW r \in Quoter, LoadQuotationJob(r)
  PROVE  QuotationsIInv'
<1>1. QuotationsTypeOK /\ GivenIds /\ quoted.content \in Content /\ quotation \in Quotation
  BY DEF QuotationsIInv, QuotationsTypeOK
<1>2. /\ quoter[r].at = "load"
      /\ UNCHANGED <<quoted, quotation, documents, lateQuotes, overlap, quoteMishaps>>
  BY DEF LoadQuotationJob
<1>3. PICK state \in QuoterState :
        /\ QuoterAt(r, state)
        /\ \/ state.at = "idle"
           \/ /\ state.at = "call" /\ state.call.known = quotation.externalId
              /\ quotation.status = "SYNCING"
  <2>1. CASE quotation.status = "SYNCING"
    <3> DEFINE call == [known |-> KnownDocument, content |-> quoted.content]
    <3>1. call \in QuoteCall /\ call.known = quotation.externalId
      BY <1>1 DEF QuoteCall, KnownDocument, Quotation
    <3>2. QuoterAt(r, [at |-> "call", call |-> call])
      BY <2>1 DEF LoadQuotationJob
    <3> HIDE DEF call
    <3>3. [at |-> "call", call |-> call] \in QuoterState
      BY <3>1 DEF QuoterState
    <3> QED BY <2>1, <3>1, <3>2, <3>3
  <2>2. CASE quotation.status # "SYNCING"
    BY <2>2 DEF LoadQuotationJob, StopQuoting, NotQuoting, QuoterState
  <2> QED BY <2>1, <2>2
<1>4. /\ quoter' \in [Quoter -> QuoterState] /\ quoter'[r] = state
      /\ \A o \in Quoter : o # r => quoter'[o] = quoter[o]
  BY <1>1, <1>3, QuoterMoves
<1>5. QuotationsTypeOK'
  BY <1>1, <1>2, <1>4 DEF QuotationsTypeOK
<1>6. GivenIds'
  BY <1>1, <1>2, <1>3, <1>4 DEF GivenIds, Given
<1>7. ASSUME Undisturbed'
      PROVE  lateQuotes' = {} /\ OneInCharge' /\ WrittenIsThere' /\ OneAnswered'
  <2>1. lateQuotes = {} /\ OneInCharge /\ WrittenIsThere /\ OneAnswered
    BY <1>2, <1>7 DEF QuotationsIInv, Undisturbed
  <2>2. InCharge(r) /\ \A o \in Quoter : o # r => ~InCharge(o)
    BY <1>2, <2>1 DEF OneInCharge, InCharge
  <2>3. \A o \in Quoter : o # r => ~InCharge(o)'
    BY <1>4, <2>2 DEF InCharge
  <2>4. OneInCharge'
    BY <1>2, <1>3, <1>4, <2>1, <2>3 DEF OneInCharge, InCharge
  <2>5. WrittenIsThere'
    BY <1>2, <1>3, <1>4, <2>1, <2>3 DEF WrittenIsThere, InCharge
  <2>6. OneAnswered'
    <3>1. Answered' = Answered
      BY <1>2 DEF Answered
    <3>2. \A d \in Answered : quoted.state = "DELETED" \/ quotation.externalId = d
      BY <1>2, <2>1, <2>2 DEF OneAnswered, InCharge
    <3>3. quoted.state = "DELETED" => quotation.status # "SYNCING"
      BY <1>1 DEF QuotationsTypeOK, NoQuotation
    <3>4. quotation.externalId = NoDocument /\ quotation.status = "SYNCING" => Answered = {}
      BY <3>2, <3>3 DEF Answered, NoDocument
    <3> QED BY <1>2, <1>3, <1>4, <2>1, <2>3, <3>1, <3>2, <3>4 DEF OneAnswered, InCharge
  <2> QED BY <1>2, <2>1, <2>4, <2>5, <2>6
<1> QED BY <1>5, <1>6, <1>7 DEF QuotationsIInv

(* Siigo does what it was asked, and the answer comes.                     *)
LEMMA QuoteAnswerStep ==
  ASSUME QuotationsIInv, NEW r \in Quoter, SiigoAnswers(r)
  PROVE  QuotationsIInv'
<1> DEFINE call == quoter[r].call
<1>1. QuotationsTypeOK /\ GivenIds
  BY DEF QuotationsIInv
<1>2. /\ quoter[r].at = "call"
      /\ UNCHANGED <<quoted, quotation, lateQuotes, overlap, quoteMishaps>>
  BY DEF SiigoAnswers
<1>3. PICK id \in DocumentId :
        SiigoDoes(call, TRUE, id) /\ QuoterAt(r, [at |-> "save", content |-> call.content, id |-> id])
  BY DEF SiigoAnswers
<1>4. call \in QuoteCall /\ Given(call.known) /\ call.content \in Content
  BY <1>1, <1>2, QuoterFacts DEF GivenIds, QuoteCall
<1> HIDE DEF call
<1>5. /\ documents' \in Seq(Document) /\ Len(documents') <= MaxDocuments
      /\ Len(documents) <= Len(documents')
      /\ id \in 1..Len(documents')
      /\ documents'[id].content = call.content
      /\ \A d \in 1..Len(documents) : d # id => documents'[d] = documents[d]
      /\ \A d \in 1..Len(documents) : documents'[d].answered = documents[d].answered
      /\ call.known = NoDocument =>
            Len(documents') = Len(documents) + 1 /\ id = Len(documents) + 1
      /\ call.known # NoDocument => id = call.known /\ Len(documents') = Len(documents)
  BY <1>1, <1>3, <1>4, DoesFacts
<1>6. /\ quoter' \in [Quoter -> QuoterState]
      /\ quoter'[r] = [at |-> "save", content |-> call.content, id |-> id]
      /\ \A o \in Quoter : o # r => quoter'[o] = quoter[o]
  <2>1. [at |-> "save", content |-> call.content, id |-> id] \in QuoterState
    BY <1>4 DEF QuoterState
  <2> QED BY <1>1, <1>3, <2>1, QuoterMoves
<1>7. QuotationsTypeOK'
  BY <1>1, <1>2, <1>5, <1>6 DEF QuotationsTypeOK
<1>8. \A i : Given(i) => Given(i)'
  BY <1>1, <1>5, StillKnown
<1>9. GivenIds'
  BY <1>1, <1>2, <1>5, <1>6, <1>8 DEF GivenIds, Given
<1>10. ASSUME Undisturbed'
       PROVE  lateQuotes' = {} /\ OneInCharge' /\ WrittenIsThere' /\ OneAnswered'
  <2>1. lateQuotes = {} /\ OneInCharge /\ WrittenIsThere /\ OneAnswered
    BY <1>2, <1>10 DEF QuotationsIInv, Undisturbed
  <2>2. InCharge(r) /\ \A o \in Quoter : o # r => ~InCharge(o)
    BY <1>2, <2>1 DEF OneInCharge, InCharge
  <2>3. \A o \in Quoter : o # r => ~InCharge(o)'
    BY <1>6, <2>2 DEF InCharge
  <2>4. /\ quoted.state # "DELETED" =>
                quotation.status = "SYNCING" /\ call.known = quotation.externalId
        /\ quoted.state = "DELETED" => quotation = NoQuotation
    BY <1>1, <1>2, <2>1, <2>2 DEF OneInCharge, QuotationsTypeOK, call
  <2>5. OneInCharge'
    BY <1>2, <1>5, <1>6, <2>3, <2>4 DEF OneInCharge
  <2>6. WrittenIsThere'
    BY <1>2, <1>5, <1>6, <2>3, <2>4 DEF WrittenIsThere, InCharge, NoQuotation
  <2>7. OneAnswered'
    <3>1. \A d \in Answered : quoted.state = "DELETED" \/ quotation.externalId = d
      BY <1>2, <2>1, <2>2 DEF OneAnswered, InCharge
    <3>2. CASE call.known = NoDocument
      <4>1. Answered = {}
        BY <1>2, <2>1, <3>2 DEF OneAnswered, call
      <4>2. \A d \in Answered' : d = id
        <5>1. \A d \in 1..Len(documents) : ~documents[d].answered
          BY <4>1 DEF Answered
        <5>2. Len(documents) \in Nat
          BY <1>1 DEF QuotationsTypeOK
        <5>3. SUFFICES ASSUME NEW d \in 1..Len(documents'), documents'[d].answered, d # id
                       PROVE  FALSE
          BY DEF Answered
        <5>4. d \in 1..Len(documents)
          BY <1>5, <3>2, <5>2, <5>3
        <5> QED BY <1>5, <5>1, <5>3, <5>4
      <4> QED BY <1>6, <2>3, <4>2 DEF OneAnswered, InCharge
    <3>3. CASE call.known # NoDocument
      <4>1. Answered' = Answered
        BY <1>5, <3>3 DEF Answered
      <4> QED BY <1>2, <1>6, <2>1, <2>3, <3>1, <4>1 DEF OneAnswered, InCharge
    <3> QED BY <3>2, <3>3
  <2> QED BY <1>2, <2>1, <2>5, <2>6, <2>7
<1> QED BY <1>7, <1>9, <1>10 DEF QuotationsIInv

(* A request gives up the row, with the error marked if nobody took it.    *)
LEMMA GiveUpStep ==
  ASSUME QuotationsIInv, NEW r \in Quoter, QuoteFails(r) \/ QuotationUnconfirmed(r)
  PROVE  QuotationsIInv'
<1>1. QuotationsTypeOK /\ GivenIds
  BY DEF QuotationsIInv
<1>2. /\ quoter[r].at \in {"call", "unsaved"} /\ StopQuoting(r) /\ MarkQuotationError
      /\ UNCHANGED <<quoted, documents, lateQuotes, overlap, quoteMishaps>>
  BY DEF QuoteFails, QuotationUnconfirmed
<1>3. /\ quoter' \in [Quoter -> QuoterState] /\ quoter'[r] = NotQuoting
      /\ \A o \in Quoter : o # r => quoter'[o] = quoter[o]
  BY <1>1, <1>2, Stops
<1>4. /\ quotation' \in Quotation
      /\ quotation'.externalId = quotation.externalId
      /\ quotation'.quotedFingerprint = quotation.quotedFingerprint
      /\ quotation'.status \in {quotation.status, "ERROR"}
      /\ quotation = NoQuotation => quotation' = NoQuotation
  BY <1>1, <1>2, MarkFacts
<1>5. QuotationsTypeOK'
  BY <1>1, <1>2, <1>3, <1>4 DEF QuotationsTypeOK
<1>6. GivenIds'
  BY <1>1, <1>2, <1>3, <1>4 DEF GivenIds, Given, NotQuoting
<1>7. ASSUME Undisturbed'
      PROVE  lateQuotes' = {} /\ OneInCharge' /\ WrittenIsThere' /\ OneAnswered'
  <2>1. lateQuotes = {} /\ OneInCharge /\ WrittenIsThere /\ OneAnswered
    BY <1>2, <1>7 DEF QuotationsIInv, Undisturbed
  <2>2. \A o \in Quoter : o # r => ~InCharge(o)
    BY <1>2, <2>1 DEF OneInCharge, InCharge
  <2>3. \A o \in Quoter : ~InCharge(o)'
    BY <1>3, <2>2 DEF InCharge, NotQuoting
  <2>4. OneInCharge' /\ WrittenIsThere'
    BY <1>2, <1>4, <2>1, <2>3 DEF OneInCharge, WrittenIsThere, InCharge
  <2>5. OneAnswered'
    <3>1. Answered' = Answered
      BY <1>2 DEF Answered
    <3>2. \A d \in Answered : quoted.state = "DELETED" \/ quotation.externalId = d
      BY <1>2, <2>1, <2>2 DEF OneAnswered, InCharge
    <3> QED BY <1>2, <1>4, <2>1, <2>3, <3>1, <3>2 DEF OneAnswered, InCharge
  <2> QED BY <1>2, <2>1, <2>4, <2>5
<1> QED BY <1>5, <1>6, <1>7 DEF QuotationsIInv

(* Siigo does what it was asked, and the answer is lost.                   *)
LEMMA LostStep ==
  ASSUME QuotationsIInv, NEW r \in Quoter, QuoteAnswerLost(r)
  PROVE  QuotationsIInv'
<1> DEFINE call == quoter[r].call
<1>1. QuotationsTypeOK /\ GivenIds
  BY DEF QuotationsIInv
<1>2. /\ quoter[r].at = "call" /\ MarkQuotationError /\ StopQuoting(r)
      /\ UNCHANGED <<quoted, lateQuotes, overlap, quoteMishaps>>
  BY DEF QuoteAnswerLost
<1>3. PICK id \in DocumentId : SiigoDoes(call, FALSE, id)
  BY DEF QuoteAnswerLost
<1>4. call \in QuoteCall /\ Given(call.known)
  BY <1>1, <1>2, QuoterFacts DEF GivenIds
<1> HIDE DEF call
<1>5. /\ documents' \in Seq(Document) /\ Len(documents') <= MaxDocuments
      /\ Len(documents) <= Len(documents')
      /\ \A d \in 1..Len(documents) : documents'[d].answered = documents[d].answered
      /\ call.known = NoDocument =>
            /\ Len(documents') = Len(documents) + 1 /\ id = Len(documents) + 1
            /\ documents'[id].answered = FALSE
      /\ call.known # NoDocument => Len(documents') = Len(documents)
  BY <1>1, <1>3, <1>4, DoesFacts
<1>6. /\ quoter' \in [Quoter -> QuoterState] /\ quoter'[r] = NotQuoting
      /\ \A o \in Quoter : o # r => quoter'[o] = quoter[o]
  BY <1>1, <1>2, Stops
<1>7. /\ quotation' \in Quotation
      /\ quotation'.externalId = quotation.externalId
      /\ quotation'.status \in {quotation.status, "ERROR"}
      /\ quotation = NoQuotation => quotation' = NoQuotation
  BY <1>1, <1>2, MarkFacts
<1>8. QuotationsTypeOK'
  BY <1>1, <1>2, <1>5, <1>6, <1>7 DEF QuotationsTypeOK
<1>9. GivenIds'
  <2>1. \A i : Given(i) => Given(i)'
    BY <1>1, <1>5, StillKnown
  <2> QED BY <1>1, <1>2, <1>6, <1>7, <2>1 DEF GivenIds, NotQuoting
<1>10. ASSUME Undisturbed'
       PROVE  lateQuotes' = {} /\ OneInCharge' /\ WrittenIsThere' /\ OneAnswered'
  <2>1. lateQuotes = {} /\ OneInCharge /\ OneAnswered
    BY <1>2, <1>10 DEF QuotationsIInv, Undisturbed
  <2>2. InCharge(r) /\ \A o \in Quoter : o # r => ~InCharge(o)
    BY <1>2, <2>1 DEF OneInCharge, InCharge
  <2>3. \A o \in Quoter : ~InCharge(o)'
    BY <1>6, <2>2 DEF InCharge, NotQuoting
  <2>4. quotation.status # "SYNCED"
    BY <1>1, <2>1, <2>2 DEF OneInCharge, QuotationsTypeOK, NoQuotation
  <2>5. OneInCharge' /\ WrittenIsThere'
    BY <1>7, <2>3, <2>4 DEF OneInCharge, WrittenIsThere, InCharge
  <2>6. Answered' = Answered
    <3>1. Len(documents) \in Nat
      BY <1>1 DEF QuotationsTypeOK
    <3>2. CASE call.known = NoDocument
      BY <1>5, <3>1, <3>2 DEF Answered
    <3>3. CASE call.known # NoDocument
      BY <1>5, <3>3 DEF Answered
    <3> QED BY <3>2, <3>3
  <2>7. \A d \in Answered : quoted.state = "DELETED" \/ quotation.externalId = d
    BY <1>2, <2>1, <2>2 DEF OneAnswered, InCharge
  <2>8. OneAnswered'
    BY <1>2, <1>7, <2>1, <2>3, <2>6, <2>7 DEF OneAnswered, InCharge
  <2> QED BY <1>2, <2>1, <2>5, <2>8
<1> QED BY <1>8, <1>9, <1>10 DEF QuotationsIInv

(* The row takes the result, or the request learns that it did not.        *)
LEMMA QuoterSaveStep ==
  ASSUME QuotationsIInv, NEW r \in Quoter, SaveQuotation(r)
  PROVE  QuotationsIInv'
<1>1. QuotationsTypeOK /\ GivenIds /\ quotation \in Quotation
  BY DEF QuotationsIInv, QuotationsTypeOK
<1>2. /\ quoter[r].at = "save"
      /\ UNCHANGED <<quoted, documents, lateQuotes, overlap, quoteMishaps>>
  BY DEF SaveQuotation
<1>3. quoter[r].id \in DocumentId /\ quoter[r].content \in Content /\ Given(quoter[r].id)
  BY <1>1, <1>2, QuoterFacts DEF GivenIds
<1>4. CASE quotation.status = "SYNCING"
  <2>1. quotation' = SavedQuotation(r) /\ StopQuoting(r)
    BY <1>4 DEF SaveQuotation
  <2>2. /\ quoter' \in [Quoter -> QuoterState] /\ quoter'[r] = NotQuoting
        /\ \A o \in Quoter : o # r => quoter'[o] = quoter[o]
    BY <1>1, <2>1, Stops
  <2>3. /\ quotation' \in Quotation /\ quotation'.status = "SYNCED"
        /\ quotation'.externalId = quoter[r].id
        /\ quotation'.quotedFingerprint = quoter[r].content
        /\ quotation'.externalId # NoDocument
    BY <1>3, <2>1 DEF SavedQuotation, Quotation, QuotationStatus, DocumentId, NoDocument
  <2>4. quoted.state # "DELETED"
    BY <1>1, <1>4 DEF QuotationsTypeOK, NoQuotation
  <2>5. QuotationsTypeOK'
    BY <1>1, <1>2, <2>2, <2>3, <2>4 DEF QuotationsTypeOK
  <2>6. GivenIds'
    BY <1>1, <1>2, <1>3, <2>2, <2>3 DEF GivenIds, Given, NotQuoting
  <2>7. ASSUME Undisturbed'
        PROVE  lateQuotes' = {} /\ OneInCharge' /\ WrittenIsThere' /\ OneAnswered'
    <3>1. lateQuotes = {} /\ OneInCharge /\ WrittenIsThere /\ OneAnswered
      BY <1>2, <2>7 DEF QuotationsIInv, Undisturbed
    <3>2. /\ \A o \in Quoter : o # r => ~InCharge(o)
          /\ quotation.externalId \in {NoDocument, quoter[r].id}
      BY <1>2, <2>4, <3>1 DEF OneInCharge, InCharge
    <3>3. \A o \in Quoter : ~InCharge(o)'
      BY <2>2, <3>2 DEF InCharge, NotQuoting
    <3>4. OneInCharge'
      BY <3>3 DEF OneInCharge
    <3>5. WrittenIsThere'
      BY <1>2, <2>3, <3>1, <3>3 DEF WrittenIsThere, InCharge
    <3>6. \A d \in Answered : d = quoter[r].id
      <4>1. SUFFICES ASSUME NEW d \in Answered PROVE d = quoter[r].id
        OBVIOUS
      <4>2. d # NoDocument
        BY DEF Answered, NoDocument
      <4>3. quotation.externalId = d \/ \E o \in Quoter : quoter[o].at = "save" /\ quoter[o].id = d
        BY <2>4, <3>1 DEF OneAnswered
      <4> QED BY <3>2, <4>2, <4>3 DEF InCharge
    <3>7. OneAnswered'
      BY <1>2, <2>3, <3>1, <3>3, <3>6 DEF OneAnswered, Answered, InCharge
    <3> QED BY <1>2, <3>1, <3>4, <3>5, <3>7
  <2> QED BY <2>5, <2>6, <2>7 DEF QuotationsIInv
<1>5. CASE quotation.status # "SYNCING"
  <2>1. quotation' = quotation /\ QuoterAt(r, [at |-> "unsaved"])
    BY <1>5 DEF SaveQuotation
  <2>2. /\ quoter' \in [Quoter -> QuoterState] /\ quoter'[r] = [at |-> "unsaved"]
        /\ \A o \in Quoter : o # r => quoter'[o] = quoter[o]
    <3>1. [at |-> "unsaved"] \in QuoterState
      BY DEF QuoterState
    <3> QED BY <1>1, <2>1, <3>1, QuoterMoves
  <2>3. QuotationsTypeOK'
    BY <1>1, <1>2, <2>1, <2>2 DEF QuotationsTypeOK
  <2>4. GivenIds'
    BY <1>1, <1>2, <2>1, <2>2 DEF GivenIds, Given
  <2>5. ASSUME Undisturbed'
        PROVE  lateQuotes' = {} /\ OneInCharge' /\ WrittenIsThere' /\ OneAnswered'
    <3>1. lateQuotes = {} /\ OneInCharge /\ WrittenIsThere /\ OneAnswered
      BY <1>2, <2>5 DEF QuotationsIInv, Undisturbed
    <3>2. quoted.state = "DELETED" /\ \A o \in Quoter : o # r => ~InCharge(o)
      BY <1>2, <1>5, <3>1 DEF OneInCharge, InCharge
    <3>3. \A o \in Quoter : o # r => ~InCharge(o)'
      BY <2>2, <3>2 DEF InCharge
    <3> QED BY <1>2, <2>1, <2>2, <3>1, <3>2, <3>3
            DEF OneInCharge, WrittenIsThere, OneAnswered, Answered, InCharge
  <2> QED BY <2>3, <2>4, <2>5 DEF QuotationsIInv
<1> QED BY <1>4, <1>5

-----------------------------------------------------------------------------
(* Mishaps: after one of them, only what is known has to be preserved      *)

LEMMA MishapStep ==
  ASSUME QuotationsIInv,
         \/ \E r \in Quoter : QuoteTimesOut(r) \/ SaveQuotationFails(r)
         \/ QuotationsRestart
  PROVE  QuotationsIInv'
<1>1. QuotationsTypeOK /\ GivenIds /\ quoteMishaps \in 0..MaxQuoteMishaps
  BY DEF QuotationsIInv, QuotationsTypeOK
<1>2. /\ UNCHANGED <<quoted, documents, overlap>>
      /\ quoteMishaps < MaxQuoteMishaps /\ quoteMishaps' = quoteMishaps + 1
      /\ MarkQuotationError \/ quotation' = quotation
  BY DEF QuoteTimesOut, SaveQuotationFails, QuotationsRestart, QuoteMishap
<1>3. /\ quotation' \in Quotation
      /\ quotation'.externalId = quotation.externalId
      /\ quotation'.status \in {quotation.status, "ERROR"}
      /\ quotation = NoQuotation => quotation' = NoQuotation
  BY <1>1, <1>2, MarkFacts
<1>4. quoter' \in [Quoter -> QuoterState]
      /\ \A o \in Quoter : quoter'[o] \in {quoter[o], NotQuoting}
  <2>1. CASE QuotationsRestart
    BY <2>1 DEF QuotationsRestart, NotQuoting, QuoterState
  <2>2. ASSUME NEW r \in Quoter, QuoteTimesOut(r) \/ SaveQuotationFails(r)
        PROVE  /\ quoter' \in [Quoter -> QuoterState]
               /\ \A o \in Quoter : quoter'[o] \in {quoter[o], NotQuoting}
    BY <1>1, <2>2, Stops DEF QuoteTimesOut, SaveQuotationFails
  <2> QED BY <2>1, <2>2
<1>5. \A call \in lateQuotes' :
        call \in lateQuotes \/ \E r \in Quoter : quoter[r].at = "call" /\ call = quoter[r].call
  BY DEF QuoteTimesOut, SaveQuotationFails, QuotationsRestart
<1>6. \A call \in lateQuotes' : call \in QuoteCall /\ Given(call.known)
  BY <1>1, <1>5, QuoterFacts DEF QuotationsTypeOK, GivenIds
<1>7. QuotationsTypeOK'
  <2>1. quoteMishaps' \in 0..MaxQuoteMishaps
    BY <1>1, <1>2, QuotationsAssumption
  <2> QED BY <1>1, <1>2, <1>3, <1>4, <1>6, <2>1 DEF QuotationsTypeOK
<1>8. GivenIds'
  BY <1>1, <1>2, <1>3, <1>4, <1>6 DEF GivenIds, Given, NotQuoting
<1>9. ~Undisturbed'
  BY <1>1, <1>2 DEF Undisturbed
<1> QED BY <1>7, <1>8, <1>9 DEF QuotationsIInv

LEMMA LateAnswerStep ==
  ASSUME QuotationsIInv, NEW call \in lateQuotes, LateQuoteArrives(call)
  PROVE  QuotationsIInv'
<1>1. QuotationsTypeOK /\ GivenIds
  BY DEF QuotationsIInv
<1>2. /\ lateQuotes' \subseteq lateQuotes
      /\ UNCHANGED <<quoted, quotation, quoter, overlap, quoteMishaps>>
  BY DEF LateQuoteArrives
<1>3. call \in QuoteCall /\ Given(call.known)
  BY <1>1 DEF QuotationsTypeOK, GivenIds
<1>4. PICK id \in DocumentId : SiigoDoes(call, FALSE, id)
  BY DEF LateQuoteArrives
<1>5. /\ documents' \in Seq(Document) /\ Len(documents') <= MaxDocuments
      /\ Len(documents) <= Len(documents')
  BY <1>1, <1>3, <1>4, DoesFacts
<1>6. QuotationsTypeOK'
  BY <1>1, <1>2, <1>5 DEF QuotationsTypeOK
<1>7. GivenIds'
  <2>1. \A i : Given(i) => Given(i)'
    BY <1>1, <1>5, StillKnown
  <2> QED BY <1>1, <1>2, <2>1 DEF GivenIds
<1>8. ~Undisturbed'
  BY <1>2 DEF QuotationsIInv, Undisturbed
<1> QED BY <1>6, <1>7, <1>8 DEF QuotationsIInv

LEMMA QuotationsInitially == ASSUME QuotationsInit PROVE QuotationsIInv
<1>1. /\ quoted \in [state : {"LIVE"}, content : Content] /\ quotation = NoQuotation
      /\ quoter = [r \in Quoter |-> NotQuoting] /\ documents = <<>> /\ lateQuotes = {}
      /\ overlap = FALSE /\ quoteMishaps = 0
  BY DEF QuotationsInit
<1>2. quoted.state = "LIVE" /\ quoted \in [state : {"LIVE", "CANCELLED", "DELETED"}, content : Content]
  BY <1>1
<1>3. NoQuotation \in Quotation /\ NoQuotation.externalId = 0 /\ NoQuotation.status = "NONE"
  BY DEF NoQuotation, Quotation, QuotationStatus, NoDocument
<1>4. NotQuoting \in QuoterState /\ NotQuoting.at = "idle"
  BY DEF NotQuoting, QuoterState
<1>5. QuotationsTypeOK
  <2>1. documents \in Seq(Document) /\ Len(documents) = 0
    BY <1>1
  <2>2. quoteMishaps \in 0..MaxQuoteMishaps /\ 0 <= MaxDocuments
    BY <1>1, QuotationsAssumption
  <2> QED BY <1>1, <1>2, <1>3, <1>4, <2>1, <2>2 DEF QuotationsTypeOK
<1>6. GivenIds
  BY <1>1, <1>3, <1>4 DEF GivenIds, Given
<1>7. lateQuotes = {} /\ OneInCharge /\ WrittenIsThere /\ OneAnswered
  BY <1>1, <1>3, <1>4 DEF OneInCharge, WrittenIsThere, OneAnswered, Answered, InCharge
<1> QED BY <1>5, <1>6, <1>7 DEF QuotationsIInv

LEMMA QuotationsStutter == ASSUME QuotationsIInv, UNCHANGED quotationVars PROVE QuotationsIInv'
<1>1. QuotationsTypeOK' /\ GivenIds'
  BY DEF QuotationsIInv, quotationVars, QuotationsTypeOK, GivenIds, Given
<1>2. Undisturbed' => lateQuotes' = {} /\ OneInCharge' /\ WrittenIsThere' /\ OneAnswered'
  BY DEF QuotationsIInv, quotationVars, Undisturbed, OneInCharge, WrittenIsThere,
         OneAnswered, Answered, InCharge
<1> QED BY <1>1, <1>2 DEF QuotationsIInv

-----------------------------------------------------------------------------
(* Theorems *)

THEOREM QuotationsAreSound == QuotationsSpec => []QuotationsIInv
<1>1. ASSUME QuotationsIInv, [QuotationsNext]_quotationVars PROVE QuotationsIInv'
  <2>1. CASE (\E content \in Content : EditQuoted(content)) \/ CancelQuoted \/ ReopenQuoted
    BY <1>1, <2>1, EditStep
  <2>2. CASE DeleteQuoted
    BY <1>1, <2>2, DeleteStep
  <2>3. ASSUME NEW r \in Quoter, ReadQuoted(r) \/ QuoterStep(r)
        PROVE  QuotationsIInv'
    BY <1>1, <2>3, BystanderStep, UpsertStep, LoadStep, QuoteAnswerStep, GiveUpStep, LostStep,
       QuoterSaveStep, MishapStep DEF QuoterStep
  <2>4. CASE \E call \in lateQuotes : LateQuoteArrives(call)
    BY <1>1, <2>4, LateAnswerStep
  <2>5. CASE QuotationsRestart
    BY <1>1, <2>5, MishapStep
  <2>6. CASE UNCHANGED quotationVars
    BY <1>1, <2>6, QuotationsStutter
  <2> QED BY <1>1, <2>1, <2>2, <2>3, <2>4, <2>5, <2>6 DEF QuotationsNext
<1> QED BY <1>1, QuotationsInitially, PTL DEF QuotationsSpec

(* siigo_quotations: what the panel shows as quoted is a document that     *)
(* Siigo has, with those contents unless two requests worked at once or a  *)
(* call came late, however the operation is edited meanwhile.              *)
THEOREM QuotedHolds == QuotationsSpec => []QuotedIsTrue
<1>1. QuotationsIInv => QuotedIsTrue
  BY DEF QuotationsIInv, GivenIds, Given, WrittenIsThere, QuotedIsTrue, NoDocument,
         QuotationsTypeOK
<1> QED BY <1>1, QuotationsAreSound, PTL

(* siigo_quotations: two documents whose identifiers the CRM was told      *)
(* exist only after two requests worked at once or a write failed.         *)
THEOREM DocumentIsOne == QuotationsSpec => []NoSecondDocument
<1>1. ASSUME QuotationsIInv PROVE NoSecondDocument
  <2>1. SUFFICES ASSUME \A c, d \in Answered : c = d PROVE Cardinality(Answered) <= 1
    BY <1>1 DEF QuotationsIInv, OneAnswered, NoSecondDocument
  <2>2. CASE Answered = {}
    BY <2>2, FS_EmptySet
  <2>3. ASSUME NEW d \in Answered PROVE Cardinality(Answered) <= 1
    <3>1. Answered = {d}
      BY <2>1, <2>3
    <3>2. Cardinality({d}) = 1
      BY FS_Singleton
    <3> QED BY <3>1, <3>2
  <2> QED BY <2>2, <2>3
<1> QED BY <1>1, QuotationsAreSound, PTL

-----------------------------------------------------------------------------
(* The composition                                                         *)

LEMMA FaultsStart ==
  FaultsInit => Init /\ CouponsInit /\ MirrorInit /\ QuotationsInit /\ AgreementsInit
BY DEF FaultsInit

(* A step of the composition is one of a part, for which the others wait.  *)
LEMMA FaultsStep ==
  [FaultsNext]_<<moving, vars, couponVars, mirrorVars, quotationVars, agreementVars>> =>
    /\ [Next]_vars /\ [CouponsNext]_couponVars /\ [MirrorNext]_mirrorVars
    /\ [QuotationsNext]_quotationVars /\ [AgreementsNext]_agreementVars
BY DEF FaultsNext

(* Whatever is proved of the parts holds of what MCFaults runs: seen from  *)
(* any of them, a behaviour of the composition is one of the part.         *)
THEOREM FaultsAreTheirParts ==
  FaultsSpec =>
    Spec /\ CouponsSpec /\ MirrorSpec /\ QuotationsSpec /\ AgreementsSpec
BY FaultsStart, FaultsStep, PTL
   DEF FaultsSpec, Spec, CouponsSpec, MirrorSpec, QuotationsSpec, AgreementsSpec

(* The rows and requests of the five have the declared shapes.             *)
THEOREM FaultsTypes == FaultsSpec => []FaultsTypeOK
<1>1. CouponsIInv /\ MirrorIInv /\ QuotationsIInv /\ AgreementsIInv =>
        CouponsTypeOK /\ MirrorTypeOK /\ QuotationsTypeOK /\ AgreementsTypeOK
  BY DEF CouponsIInv, MirrorIInv, QuotationsIInv, AgreementsIInv
<1>2. TypeOK /\ CouponsTypeOK /\ MirrorTypeOK /\ QuotationsTypeOK /\ AgreementsTypeOK =>
        FaultsTypeOK
  BY DEF FaultsTypeOK
<1> QED BY <1>1, <1>2, FaultsAreTheirParts, TypeCorrect, CouponsAreSound, MirrorIsSound,
           QuotationsAreSound, AgreementsAreSound, PTL
=================================================================================
