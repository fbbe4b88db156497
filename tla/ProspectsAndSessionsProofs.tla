----------------------- MODULE ProspectsAndSessionsProofs -----------------------
(* Proofs about BrowserSession and Prospects, for every value of their      *)
(* constants, and about what MCOrdersAndAccruals makes of them and others.  *)
EXTENDS MCOrdersAndAccruals, StoreOrdersProofs, SequenceTheorems

-----------------------------------------------------------------------------
(* What tabs, storage and server know of each other                        *)

SessionRow == [live : BOOLEAN, created : 0..AbsoluteLimit, renewed : 0..IdleLimit]
OpenTab ==
    [at : {"open"}, seen : 0..IdleLimit, written : 0..WriteEvery,
     refreshed : 0..RefreshEvery, asking : BOOLEAN, late : BOOLEAN]
GoneTab ==
    [at : {"leaving", "left"}, why : {"absolute", "idle", "signed-out", "asked"}]

(* An open tab will hear of a removal, or something is stored.             *)
HearsRemoval ==
    \A t \in Tab :
        /\ ~Open(t) => news[t] = {}
        /\ Open(t) => "removed" \in news[t] \/ stored # Nothing

(* A tab that heard of every writing knows of nothing older than stored.   *)
KnowsStored ==
    \A t \in Tab : (Open(t) /\ "written" \notin news[t]) => tab[t].seen <= stored

(* What is stored is as recent as activities are written.                  *)
StoredIsRecent ==
    stored # Nothing =>
        /\ stored < quiet + WriteEvery
        /\ \A t \in Tab : (Open(t) /\ tab[t].written < WriteEvery)
                => stored <= tab[t].written

(* A tab awaits what will renew the session or end it.                     *)
Answering == \E t \in Tab : tab[t].at = "leaving" \/ (Open(t) /\ tab[t].asking)

(* The renewal is as recent as renewals are asked for and made.            *)
RenewalIsRecent ==
    (Valid /\ ~odd.lost /\ ~odd.failed) =>
        /\ \A t \in Tab : tab[t].at = "opening" => session.renewed < UpdateAge
        /\ \A t \in Tab :
            (Open(t) /\ ~tab[t].asking /\ tab[t].refreshed < RefreshEvery)
                => session.renewed < tab[t].refreshed + UpdateAge
        /\ Answering \/ session.renewed + 1 < quiet + RefreshEvery + UpdateAge

(* Who left ended the session, and whoever is open will hear of it.        *)
LeavingEnds ==
    ((\E t \in Tab : tab[t].at = "left") /\ ~odd.failed) =>
        /\ ~session.live
        /\ \A t \in Tab : Open(t) => tab[t].late \/ "removed" \in news[t]

BrowserIInv ==
    /\ BrowserTypeOK
    /\ HearsRemoval /\ KnowsStored /\ StoredIsRecent
    /\ RenewalIsRecent /\ LeavingEnds

LEMMA Limits ==
  /\ WriteEvery \in Nat /\ 0 < WriteEvery
  /\ RefreshEvery \in Nat /\ 0 < RefreshEvery
  /\ UpdateAge \in Nat /\ 0 < UpdateAge
  /\ IdleLimit \in Nat /\ 0 < IdleLimit
  /\ AbsoluteLimit \in Nat /\ 0 < AbsoluteLimit
  /\ Nothing \in Nat /\ IdleLimit < Nothing
<1>1. \A n \in {WriteEvery, RefreshEvery, UpdateAge, IdleLimit, AbsoluteLimit} :
        n \in Nat /\ 0 < n
  BY BrowserAssumption DEF BrowserAssumption
<1> QED BY <1>1 DEF Nothing

LEMMA TabFacts ==
  ASSUME BrowserTypeOK, NEW t \in Tab
  PROVE  /\ tab[t] \in TabState /\ news[t] \subseteq {"written", "removed"}
         /\ Open(t) => tab[t] \in OpenTab
         /\ tab[t].at \in {"leaving", "left"} => tab[t] \in GoneTab
         /\ tab[t].at \in {"closed", "opening", "leaving", "left", "open"}
<1>1. tab[t] \in TabState /\ news[t] \subseteq {"written", "removed"}
  BY DEF BrowserTypeOK
<1> QED BY <1>1 DEF TabState, Open, OpenTab, GoneTab

LEMMA StateFacts ==
  ASSUME BrowserTypeOK
  PROVE  /\ session \in SessionRow /\ session.live \in BOOLEAN
         /\ session.created \in Nat /\ session.renewed \in 0..IdleLimit
         /\ stored \in Nat /\ stored <= Nothing /\ quiet \in Nat /\ quiet <= IdleLimit
         /\ stored # Nothing => stored <= IdleLimit
         /\ odd \in [lost : BOOLEAN, refused : BOOLEAN, failed : BOOLEAN]
         /\ odd.lost \in BOOLEAN /\ odd.failed \in BOOLEAN
BY Limits DEF BrowserTypeOK, SessionRow, Nothing

LEMMA TabChanges ==
  ASSUME BrowserTypeOK, NEW t \in Tab, NEW x, tab' = [tab EXCEPT ![t] = x]
  PROVE  /\ tab'[t] = x
         /\ \A u \in Tab : u # t => tab'[u] = tab[u]
         /\ x \in TabState => tab' \in [Tab -> TabState]
BY DEF BrowserTypeOK

LEMMA RenewedFacts ==
  ASSUME BrowserTypeOK
  PROVE  /\ Renewed(session) \in SessionRow
         /\ Renewed(session).live = session.live
         /\ Renewed(session).renewed < UpdateAge
         /\ Renewed(session).renewed <= session.renewed
<1>1. session \in SessionRow
  BY StateFacts
<1>2. CASE session.renewed >= UpdateAge
  BY <1>1, <1>2, Limits DEF Renewed, SessionRow
<1>3. CASE session.renewed < UpdateAge
  BY <1>1, <1>3, Limits DEF Renewed, SessionRow
<1> QED BY <1>1, <1>2, <1>3, Limits DEF SessionRow

LEMMA EndedFacts ==
  ASSUME BrowserTypeOK
  PROVE  Ended \in SessionRow /\ ~Ended.live
BY StateFacts DEF Ended, SessionRow

(* A tab that clears the storage: whoever is open will hear of it.         *)
LEMMA ClearFacts ==
  ASSUME BrowserTypeOK, HearsRemoval, NEW t \in Tab, clearSessionActivity(t)
  PROVE  /\ stored' = Nothing
         /\ news' \in [Tab -> SUBSET {"written", "removed"}]
         /\ news'[t] = {}
         /\ \A u \in Tab : u # t =>
                /\ "written" \in news'[u] <=> "written" \in news[u]
                /\ Open(u) => "removed" \in news'[u]
                /\ ~Open(u) => news'[u] = {}
<1>1. news \in [Tab -> SUBSET {"written", "removed"}]
  BY DEF BrowserTypeOK
<1>2. CASE stored = Nothing
  <2>1. stored' = Nothing /\ news' = [news EXCEPT ![t] = {}]
    BY <1>2 DEF clearSessionActivity
  <2> QED BY <1>1, <1>2, <2>1 DEF HearsRemoval
<1>3. CASE stored # Nothing
  <2>1. stored' = Nothing /\ news' = [Told(t, "removed") EXCEPT ![t] = {}]
    BY <1>3 DEF clearSessionActivity
  <2> QED BY <1>1, <2>1 DEF Told, HearsRemoval
<1> QED BY <1>2, <1>3

LEMMA StoreFacts ==
  ASSUME BrowserTypeOK, NEW t \in Tab, storeActivity(t, 0)
  PROVE  /\ stored' = 0
         /\ news' \in [Tab -> SUBSET {"written", "removed"}]
         /\ news'[t] = news[t]
         /\ \A u \in Tab : u # t =>
                /\ Open(u) => news'[u] = news[u] \cup {"written"}
                /\ ~Open(u) => news'[u] = news[u]
BY DEF BrowserTypeOK, storeActivity, Told

(* A tab that ends: it leaves, or it signed out and left.                  *)
LEMMA LeaveStep ==
  ASSUME BrowserIInv, NEW t \in Tab, Open(t), NEW why \in {"absolute", "idle", "signed-out"},
         endSession(t, why), UNCHANGED <<session, quiet>>,
         odd' \in [lost : BOOLEAN, refused : BOOLEAN, failed : BOOLEAN],
         odd'.lost = odd.lost, odd'.failed = odd.failed
  PROVE  BrowserIInv'
<1> DEFINE x == [at |-> "leaving", why |-> why]
<1>0. BrowserTypeOK /\ HearsRemoval /\ KnowsStored /\ StoredIsRecent
      /\ RenewalIsRecent /\ LeavingEnds
  BY DEF BrowserIInv
<1>1. x \in TabState /\ x.at = "leaving"
  BY DEF TabState
<1>2. /\ tab' \in [Tab -> TabState]
      /\ tab'[t].at = "leaving"
      /\ \A u \in Tab : u # t => tab'[u] = tab[u]
  BY <1>0, <1>1, TabChanges DEF endSession
<1>3. /\ stored' = Nothing
      /\ news' \in [Tab -> SUBSET {"written", "removed"}]
      /\ news'[t] = {}
      /\ \A u \in Tab : u # t =>
            /\ "written" \in news'[u] <=> "written" \in news[u]
            /\ Open(u) => "removed" \in news'[u]
            /\ ~Open(u) => news'[u] = {}
  BY <1>0, ClearFacts DEF endSession
<1>4. BrowserTypeOK'
  BY <1>0, <1>2, <1>3, Limits DEF BrowserTypeOK, Nothing
<1>5. HearsRemoval'
  BY <1>2, <1>3 DEF HearsRemoval, Open
<1>6. KnowsStored'
  <2> SUFFICES ASSUME NEW u \in Tab, Open(u)', "written" \notin news'[u]
               PROVE  tab'[u].seen <= stored'
    BY DEF KnowsStored
  <2>1. u # t /\ tab'[u] = tab[u] /\ Open(u)
    BY <1>2 DEF Open
  <2>2. tab[u].seen \in 0..IdleLimit
    BY <1>0, <2>1, TabFacts DEF OpenTab
  <2> QED BY <1>3, <2>1, <2>2, Limits
<1>7. StoredIsRecent'
  BY <1>3 DEF StoredIsRecent, Nothing
<1>8. RenewalIsRecent'
  <2>1. Answering'
    BY <1>2 DEF Answering
  <2> QED BY <1>0, <1>2, <2>1 DEF RenewalIsRecent, Open, Valid
<1>9. LeavingEnds'
  BY <1>0, <1>2, <1>3 DEF LeavingEnds, Open
<1> QED BY <1>4, <1>5, <1>6, <1>7, <1>8, <1>9 DEF BrowserIInv

(* A session that was renewed or ended; the tabs know nothing of it.       *)
LEMMA ServerStep ==
  ASSUME BrowserIInv, session' \in SessionRow,
         session'.live => Valid /\ session'.renewed <= session.renewed,
         UNCHANGED <<tab, stored, news, quiet, odd>>
  PROVE  BrowserIInv'
<1>0. BrowserTypeOK /\ HearsRemoval /\ KnowsStored /\ StoredIsRecent
      /\ RenewalIsRecent /\ LeavingEnds
  BY DEF BrowserIInv
<1>1. session' \in SessionRow /\ session'.renewed \in Nat /\ session'.live \in BOOLEAN
  BY Limits DEF SessionRow
<1>2. BrowserTypeOK'
  BY <1>0, <1>1 DEF BrowserTypeOK, SessionRow
<1>3. HearsRemoval' /\ KnowsStored' /\ StoredIsRecent'
  BY <1>0 DEF HearsRemoval, KnowsStored, StoredIsRecent, Open
<1>4. RenewalIsRecent'
  <2> SUFFICES ASSUME Valid', ~odd'.lost, ~odd'.failed
               PROVE  RenewalIsRecent'
    BY DEF RenewalIsRecent
  <2>1. Valid /\ session'.renewed <= session.renewed /\ session.renewed \in Nat
    BY <1>0, <1>1, StateFacts, Limits DEF Valid
  <2>2. /\ \A t \in Tab : tab'[t].at = "opening" => session'.renewed < UpdateAge
        /\ Answering' \/ session'.renewed + 1 < quiet' + RefreshEvery + UpdateAge
    BY <1>0, <1>1, <2>1, StateFacts, Limits DEF RenewalIsRecent, Answering, Open
  <2>3. ASSUME NEW t \in Tab, Open(t)', ~tab'[t].asking, tab'[t].refreshed < RefreshEvery
        PROVE  session'.renewed < tab'[t].refreshed + UpdateAge
    <3>1. tab[t] \in OpenTab
      BY <1>0, <2>3, TabFacts DEF Open
    <3>2. tab[t].refreshed \in Nat
      BY <3>1, Limits DEF OpenTab
    <3>3. session.renewed < tab[t].refreshed + UpdateAge
      BY <1>0, <2>1, <2>3 DEF RenewalIsRecent, Open
    <3> QED BY <1>1, <2>1, <3>2, <3>3, Limits
  <2> QED BY <2>2, <2>3 DEF RenewalIsRecent
<1>5. LeavingEnds'
  BY <1>0, <1>1, StateFacts DEF LeavingEnds, Open, Valid
<1> QED BY <1>2, <1>3, <1>4, <1>5 DEF BrowserIInv

LEMMA BackgroundCallStep ==
  ASSUME BrowserIInv, NEW t \in Tab, BackgroundCall(t)
  PROVE  BrowserIInv'
<1>1. BrowserTypeOK
  BY DEF BrowserIInv
<1>2. session' = Ended \/ session' = Renewed(session)
  BY DEF BackgroundCall
<1>3. /\ session' \in SessionRow
      /\ session'.live => Valid /\ session'.renewed <= session.renewed
  BY <1>1, <1>2, RenewedFacts, EndedFacts DEF BackgroundCall
<1> QED BY <1>3, ServerStep DEF BackgroundCall

LEMMA RevokeStep ==
  ASSUME BrowserIInv, Revoke
  PROVE  BrowserIInv'
<1>1. BrowserTypeOK
  BY DEF BrowserIInv
<1> QED BY <1>1, EndedFacts, ServerStep DEF Revoke

LEMMA CheckTimeoutsStep ==
  ASSUME BrowserIInv, NEW t \in Tab, CheckTimeouts(t)
  PROVE  BrowserIInv'
<1>1. BrowserTypeOK
  BY DEF BrowserIInv
<1>2. Reason \in {"absolute", "idle", "signed-out"}
  BY DEF Reason
<1> QED BY <1>1, <1>2, StateFacts, LeaveStep DEF CheckTimeouts

LEMMA RefusedStep ==
  ASSUME BrowserIInv, NEW t \in Tab, RefreshRefused(t)
  PROVE  BrowserIInv'
<1>1. BrowserTypeOK
  BY DEF BrowserIInv
<1>2. /\ odd' \in [lost : BOOLEAN, refused : BOOLEAN, failed : BOOLEAN]
      /\ odd'.lost = odd.lost /\ odd'.failed = odd.failed
  BY <1>1, StateFacts DEF RefreshRefused
<1> QED BY <1>2, LeaveStep DEF RefreshRefused

LEMMA AskToOpenStep ==
  ASSUME BrowserIInv, NEW t \in Tab, AskToOpen(t)
  PROVE  BrowserIInv'
<1> DEFINE x == [at |-> "opening"]
<1>0. BrowserTypeOK /\ HearsRemoval /\ KnowsStored /\ StoredIsRecent
      /\ RenewalIsRecent /\ LeavingEnds
  BY DEF BrowserIInv
<1>1. /\ tab' = [tab EXCEPT ![t] = x] /\ session' = Renewed(session) /\ Valid
      /\ UNCHANGED <<stored, news, quiet, odd>>
      /\ tab[t].at \in {"closed", "left"}
  BY DEF AskToOpen
<1>2. x \in TabState
  BY DEF TabState
<1>3. /\ tab' \in [Tab -> TabState] /\ tab'[t].at = "opening"
      /\ \A u \in Tab : u # t => tab'[u] = tab[u]
  BY <1>0, <1>1, <1>2, TabChanges
<1>4. /\ session' \in SessionRow /\ session'.live = session.live
      /\ session'.renewed < UpdateAge /\ session'.renewed <= session.renewed
  BY <1>0, <1>1, RenewedFacts
<1>5. session'.renewed \in Nat /\ session.renewed \in Nat
  BY <1>0, <1>4, StateFacts, Limits DEF SessionRow
<1>6. BrowserTypeOK'
  BY <1>0, <1>1, <1>3, <1>4 DEF BrowserTypeOK, SessionRow
<1>7. \A u \in Tab : Open(u)' <=> Open(u)
  BY <1>1, <1>3 DEF Open
<1>8. HearsRemoval' /\ KnowsStored' /\ StoredIsRecent'
  BY <1>0, <1>1, <1>3, <1>7 DEF HearsRemoval, KnowsStored, StoredIsRecent, Open
<1>9. RenewalIsRecent'
  <2> SUFFICES ASSUME ~odd.lost, ~odd.failed
               PROVE  RenewalIsRecent'
    BY <1>1 DEF RenewalIsRecent
  <2>1. Answering' <=> Answering
    BY <1>1, <1>3, <1>7 DEF Answering, Open
  <2>2. Answering' \/ session'.renewed + 1 < quiet' + RefreshEvery + UpdateAge
    BY <1>0, <1>1, <1>4, <1>5, <2>1, StateFacts, Limits DEF RenewalIsRecent
  <2>3. ASSUME NEW u \in Tab, Open(u)'
        PROVE  session'.renewed < tab'[u].refreshed + UpdateAge
    <3>1. tab'[u] \in OpenTab
      BY <1>3, <2>3, <1>6, TabFacts DEF Open, TabState, OpenTab, BrowserTypeOK
    <3>2. tab'[u].refreshed \in Nat
      BY <3>1, Limits DEF OpenTab
    <3> QED BY <1>4, <1>5, <3>2, Limits
  <2> QED BY <1>4, <2>2, <2>3 DEF RenewalIsRecent
<1>10. LeavingEnds'
  BY <1>0, <1>1, <1>3, <1>4, <1>7 DEF LeavingEnds, Valid, Open
<1> QED BY <1>6, <1>8, <1>9, <1>10 DEF BrowserIInv

LEMMA MountStep ==
  ASSUME BrowserIInv, NEW t \in Tab, Mount(t)
  PROVE  BrowserIInv'
<1> DEFINE x == [at |-> "open", seen |-> IF stored = Nothing THEN 0 ELSE stored,
                 written |-> WriteEvery, refreshed |-> 0, asking |-> FALSE,
                 late |-> ~session.live]
<1>0. BrowserTypeOK /\ HearsRemoval /\ KnowsStored /\ StoredIsRecent
      /\ RenewalIsRecent /\ LeavingEnds
  BY DEF BrowserIInv
<1>1. /\ tab' = [tab EXCEPT ![t] = x] /\ session' = session /\ odd' = odd
      /\ tab[t].at = "opening"
  BY DEF Mount
<1>2. (IF stored = Nothing THEN 0 ELSE stored) \in 0..IdleLimit
  BY <1>0, StateFacts, Limits
<1>3. x \in OpenTab /\ x \in TabState
  BY <1>2, Limits DEF OpenTab, TabState
<1>4. /\ tab' \in [Tab -> TabState] /\ tab'[t] = x
      /\ \A u \in Tab : u # t => tab'[u] = tab[u]
  BY <1>0, <1>1, <1>3, TabChanges
<1>5. Open(t)' /\ ~Open(t) /\ \A u \in Tab : u # t => (Open(u)' <=> Open(u))
  BY <1>1, <1>4 DEF Open
<1>6. CASE stored = Nothing
  <2>1. storeActivity(t, 0) /\ quiet' = 0
    BY <1>6 DEF Mount
  <2>2. /\ stored' = 0
        /\ news' \in [Tab -> SUBSET {"written", "removed"}]
        /\ news'[t] = news[t]
        /\ \A u \in Tab : u # t =>
               /\ Open(u) => news'[u] = news[u] \cup {"written"}
               /\ ~Open(u) => news'[u] = news[u]
    BY <1>0, <2>1, StoreFacts
  <2>3. BrowserTypeOK'
    BY <1>0, <1>1, <1>4, <2>1, <2>2, Limits DEF BrowserTypeOK
  <2>4. HearsRemoval'
    BY <1>0, <1>4, <1>5, <2>2, Limits DEF HearsRemoval
  <2>5. KnowsStored'
    BY <1>4, <1>5, <1>6, <2>2, Limits DEF KnowsStored
  <2>6. StoredIsRecent'
    <3>1. ASSUME NEW u \in Tab, Open(u)' PROVE 0 <= tab'[u].written
      <4>1. tab'[u] \in OpenTab
        BY <1>3, <1>4, <1>5, <1>0, <3>1, TabFacts DEF Open
      <4> QED BY <4>1, Limits DEF OpenTab
    <3> QED BY <2>1, <2>2, <3>1, Limits DEF StoredIsRecent
  <2>7. RenewalIsRecent'
    <3> SUFFICES ASSUME Valid, ~odd.lost, ~odd.failed
                 PROVE  RenewalIsRecent'
      BY <1>1 DEF RenewalIsRecent, Valid
    <3>1. session.renewed < UpdateAge /\ session.renewed \in Nat
      BY <1>0, <1>1, StateFacts, Limits DEF RenewalIsRecent
    <3>2. session'.renewed + 1 < quiet' + RefreshEvery + UpdateAge
      BY <1>1, <2>1, <3>1, Limits
    <3>3. ASSUME NEW u \in Tab, Open(u)', ~tab'[u].asking, tab'[u].refreshed < RefreshEvery
          PROVE  session'.renewed < tab'[u].refreshed + UpdateAge
      BY <1>0, <1>1, <1>4, <1>5, <3>1, <3>3, Limits DEF RenewalIsRecent
    <3>4. \A u \in Tab : tab'[u].at = "opening" => session'.renewed < UpdateAge
      BY <1>1, <3>1
    <3> QED BY <3>2, <3>3, <3>4 DEF RenewalIsRecent
  <2>8. LeavingEnds'
    BY <1>0, <1>1, <1>4, <1>5, <2>2 DEF LeavingEnds
  <2> QED BY <2>3, <2>4, <2>5, <2>6, <2>7, <2>8 DEF BrowserIInv
<1>7. CASE stored # Nothing
  <2>1. UNCHANGED <<stored, news, quiet>>
    BY <1>7 DEF Mount
  <2>3. BrowserTypeOK'
    BY <1>0, <1>1, <1>4, <2>1 DEF BrowserTypeOK
  <2>4. HearsRemoval'
    BY <1>0, <1>4, <1>5, <1>7, <2>1 DEF HearsRemoval, Nothing
  <2>5. KnowsStored'
    BY <1>0, <1>4, <1>5, <1>7, <2>1, StateFacts DEF KnowsStored
  <2>6. StoredIsRecent'
    BY <1>0, <1>4, <1>5, <1>7, <2>1, Limits DEF StoredIsRecent
  <2>7. RenewalIsRecent'
    <3> SUFFICES ASSUME Valid, ~odd.lost, ~odd.failed
                 PROVE  RenewalIsRecent'
      BY <1>1 DEF RenewalIsRecent, Valid
    <3>1. session.renewed < UpdateAge /\ session.renewed \in Nat
      BY <1>0, <1>1, StateFacts, Limits DEF RenewalIsRecent
    <3>2. Answering' \/ session'.renewed + 1 < quiet' + RefreshEvery + UpdateAge
      <4>1. Answering => Answering'
        BY <1>1, <1>4, <1>5 DEF Answering, Open
      <4> QED BY <1>0, <1>1, <2>1, <4>1 DEF RenewalIsRecent
    <3>3. ASSUME NEW u \in Tab, Open(u)', ~tab'[u].asking, tab'[u].refreshed < RefreshEvery
          PROVE  session'.renewed < tab'[u].refreshed + UpdateAge
      BY <1>0, <1>1, <1>4, <1>5, <3>1, <3>3, Limits DEF RenewalIsRecent
    <3>4. \A u \in Tab : tab'[u].at = "opening" => session'.renewed < UpdateAge
      BY <1>1, <3>1
    <3> QED BY <3>2, <3>3, <3>4 DEF RenewalIsRecent
  <2>8. LeavingEnds'
    BY <1>0, <1>1, <1>4, <1>5, <2>1 DEF LeavingEnds
  <2> QED BY <2>3, <2>4, <2>5, <2>6, <2>7, <2>8 DEF BrowserIInv
<1> QED BY <1>6, <1>7

LEMMA RecordActivityStep ==
  ASSUME BrowserIInv, NEW t \in Tab, RecordActivity(t)
  PROVE  BrowserIInv'
<1> DEFINE refreshes == tab[t].refreshed >= RefreshEvery
           writes == tab[t].written >= WriteEvery
<1>0. BrowserTypeOK /\ HearsRemoval /\ KnowsStored /\ StoredIsRecent
      /\ RenewalIsRecent /\ LeavingEnds
  BY DEF BrowserIInv
<1>1. Open(t) /\ session' = session /\ odd' = odd /\ quiet' = 0
  BY DEF RecordActivity
<1>2. tab[t] \in OpenTab /\ tab[t].refreshed \in Nat /\ tab[t].written \in Nat
  BY <1>0, <1>1, TabFacts, Limits DEF OpenTab
<1> DEFINE x == [at |-> "open", seen |-> 0,
                 written |-> IF writes THEN 0 ELSE tab[t].written,
                 refreshed |-> IF refreshes THEN 0 ELSE tab[t].refreshed,
                 asking |-> tab[t].asking \/ refreshes, late |-> tab[t].late]
<1>3. tab' = [tab EXCEPT ![t] = x]
  <2>1. tab \in [Tab -> TabState]
    BY <1>0 DEF BrowserTypeOK
  <2>2. tab' = [tab EXCEPT ![t] = tab'[t]]
    BY <2>1 DEF RecordActivity
  <2>3. /\ tab'[t].seen = 0 /\ tab'[t].at = "open" /\ tab'[t].late = tab[t].late
        /\ tab'[t].written = IF writes THEN 0 ELSE tab[t].written
    BY <1>2, <2>1 DEF RecordActivity, OpenTab
  <2>4. tab'[t].refreshed = IF refreshes THEN 0 ELSE tab[t].refreshed
    BY <1>2, <2>1 DEF RecordActivity, OpenTab
  <2>5. tab'[t].asking = (tab[t].asking \/ refreshes)
    BY <1>2, <2>1 DEF RecordActivity, OpenTab
  <2>6. tab'[t] = [at |-> tab'[t].at, seen |-> tab'[t].seen,
                   written |-> tab'[t].written, refreshed |-> tab'[t].refreshed,
                   asking |-> tab'[t].asking, late |-> tab'[t].late]
    BY <1>2, <2>1 DEF RecordActivity, OpenTab
  <2>7. tab'[t] = x
    BY <2>3, <2>4, <2>5, <2>6
  <2> QED BY <2>2, <2>7
<1>5. x \in OpenTab
  BY <1>2, Limits DEF OpenTab
<1>6. (tab[t].asking \/ refreshes) => x.asking
  BY <1>2 DEF OpenTab
<1>7. /\ tab' \in [Tab -> TabState] /\ tab'[t] = x
      /\ \A u \in Tab : u # t => tab'[u] = tab[u]
  <2>1. x \in TabState
    BY <1>5 DEF TabState, OpenTab
  <2> QED BY <1>0, <1>3, <2>1, TabChanges
<1>8. \A u \in Tab : Open(u)' <=> Open(u)
  BY <1>1, <1>5, <1>7 DEF Open, OpenTab
<1>9. /\ stored' \in Nat /\ stored' <= Nothing
      /\ news' \in [Tab -> SUBSET {"written", "removed"}]
      /\ \A u \in Tab : ~Open(u) => news'[u] = news[u]
      /\ \A u \in Tab : "removed" \in news'[u] <=> "removed" \in news[u]
      /\ writes => /\ stored' = 0
                   /\ \A u \in Tab : (u # t /\ Open(u)) => "written" \in news'[u]
      /\ ~writes => UNCHANGED <<stored, news>>
  <2>1. CASE writes
    <3>1. storeActivity(t, 0)
      BY <2>1 DEF RecordActivity
    <3> QED BY <1>0, <2>1, <3>1, StoreFacts, Limits
  <2>2. CASE ~writes
    <3>1. UNCHANGED <<stored, news>>
      BY <2>2 DEF RecordActivity
    <3> QED BY <1>0, <2>2, <3>1, StateFacts DEF BrowserTypeOK
  <2> QED BY <2>1, <2>2
<1>10. BrowserTypeOK'
  BY <1>0, <1>1, <1>7, <1>9, Limits DEF BrowserTypeOK
<1>11. HearsRemoval'
  BY <1>0, <1>8, <1>9, Limits DEF HearsRemoval
<1>12. KnowsStored'
  <2> SUFFICES ASSUME NEW u \in Tab, Open(u)', "written" \notin news'[u]
               PROVE  tab'[u].seen <= stored'
    BY DEF KnowsStored
  <2>1. CASE u = t
    BY <1>5, <1>7, <1>9, <2>1
  <2>2. CASE u # t
    BY <1>0, <1>7, <1>8, <1>9, <2>2 DEF KnowsStored
  <2> QED BY <2>1, <2>2
<1>13. StoredIsRecent'
  <2> SUFFICES ASSUME stored' # Nothing
               PROVE  /\ stored' < 0 + WriteEvery
                      /\ \A u \in Tab : (Open(u)' /\ tab'[u].written < WriteEvery)
                            => stored' <= tab'[u].written
    BY <1>1 DEF StoredIsRecent, Nothing
  <2>1. CASE writes
    <3>1. ASSUME NEW u \in Tab, Open(u)' PROVE tab'[u].written \in Nat
      BY <1>8, <1>10, <3>1, <1>7, <1>5, <1>0, TabFacts, Limits DEF OpenTab
    <3> QED BY <1>9, <2>1, <3>1, Limits
  <2>2. CASE ~writes
    <3>1. stored <= tab[t].written /\ stored \in Nat
      BY <1>0, <1>1, <1>2, <1>9, <2>2, Limits, StateFacts DEF StoredIsRecent
    <3> QED BY <1>0, <1>2, <1>5, <1>7, <1>8, <1>9, <2>2, <3>1, Limits DEF StoredIsRecent
  <2> QED BY <2>1, <2>2
<1>14. RenewalIsRecent'
  <2> SUFFICES ASSUME Valid, ~odd.lost, ~odd.failed
               PROVE  RenewalIsRecent'
    BY <1>1 DEF RenewalIsRecent, Valid
  <2>0. session.renewed \in Nat
    BY <1>0, StateFacts, Limits
  <2>1. Answering' \/ session'.renewed + 1 < quiet' + RefreshEvery + UpdateAge
    <3>1. CASE tab[t].asking \/ refreshes
      BY <1>1, <1>6, <1>7, <1>8, <3>1 DEF Answering
    <3>2. CASE ~tab[t].asking /\ ~refreshes
      <4>1. session.renewed < tab[t].refreshed + UpdateAge
        BY <1>0, <1>1, <1>2, <3>2, Limits DEF RenewalIsRecent
      <4> QED BY <1>1, <1>2, <2>0, <3>2, <4>1, Limits
    <3> QED BY <3>1, <3>2
  <2>2. \A u \in Tab : tab'[u].at = "opening" => session'.renewed < UpdateAge
    BY <1>0, <1>1, <1>5, <1>7 DEF RenewalIsRecent, OpenTab
  <2>3. ASSUME NEW u \in Tab, Open(u)', ~tab'[u].asking, tab'[u].refreshed < RefreshEvery
        PROVE  session'.renewed < tab'[u].refreshed + UpdateAge
    <3>1. CASE u = t
      <4>1. ~tab[t].asking /\ ~refreshes
        BY <1>6, <1>7, <2>3, <3>1
      <4> QED BY <1>0, <1>1, <1>2, <1>5, <1>7, <2>3, <3>1, <4>1 DEF RenewalIsRecent
    <3>2. CASE u # t
      BY <1>0, <1>1, <1>7, <1>8, <2>3, <3>2 DEF RenewalIsRecent
    <3> QED BY <3>1, <3>2
  <2> QED BY <2>1, <2>2, <2>3 DEF RenewalIsRecent
<1>15. LeavingEnds'
  BY <1>0, <1>1, <1>5, <1>7, <1>8, <1>9 DEF LeavingEnds, OpenTab
<1> QED BY <1>10, <1>11, <1>12, <1>13, <1>14, <1>15 DEF BrowserIInv

(* A renewal that was asked for is over: it was made, or lost.             *)
LEMMA AskingEnds ==
  ASSUME BrowserIInv, NEW t \in Tab, Open(t),
         tab' = [tab EXCEPT ![t].asking = FALSE],
         session' \in SessionRow, session'.live = session.live,
         session'.renewed <= session.renewed,
         session'.renewed < UpdateAge \/ odd'.lost, Valid \/ session' = session,
         odd' \in [lost : BOOLEAN, refused : BOOLEAN, failed : BOOLEAN],
         odd.lost => odd'.lost, odd'.failed = odd.failed,
         UNCHANGED <<stored, news, quiet>>
  PROVE  BrowserIInv'
<1>0. BrowserTypeOK /\ HearsRemoval /\ KnowsStored /\ StoredIsRecent
      /\ RenewalIsRecent /\ LeavingEnds
  BY DEF BrowserIInv
<1>1. tab[t] \in OpenTab /\ tab[t].refreshed \in Nat
  BY <1>0, TabFacts, Limits DEF OpenTab
<1>2. PICK x : x = [tab[t] EXCEPT !.asking = FALSE] /\ tab' = [tab EXCEPT ![t] = x]
  BY <1>0 DEF BrowserTypeOK
<1>3. /\ x \in OpenTab /\ ~x.asking
      /\ x.seen = tab[t].seen /\ x.late = tab[t].late
      /\ x.refreshed = tab[t].refreshed /\ x.written = tab[t].written
  BY <1>1, <1>2 DEF OpenTab
<1>4. /\ tab' \in [Tab -> TabState] /\ tab'[t] = x
      /\ \A u \in Tab : u # t => tab'[u] = tab[u]
  <2>1. x \in TabState
    BY <1>3 DEF TabState, OpenTab
  <2> QED BY <1>0, <1>2, <2>1, TabChanges
<1>5. \A u \in Tab : Open(u)' <=> Open(u)
  BY <1>3, <1>4 DEF Open, OpenTab
<1>6. session'.renewed \in Nat /\ session.renewed \in Nat
  BY <1>0, StateFacts, Limits DEF SessionRow
<1>7. BrowserTypeOK'
  BY <1>0, <1>4 DEF BrowserTypeOK, SessionRow
<1>8. HearsRemoval' /\ KnowsStored'
  BY <1>0, <1>3, <1>4, <1>5 DEF HearsRemoval, KnowsStored
<1>9. StoredIsRecent'
  BY <1>0, <1>3, <1>4, <1>5 DEF StoredIsRecent
<1>10. RenewalIsRecent'
  <2> SUFFICES ASSUME Valid', ~odd'.lost, ~odd'.failed
               PROVE  RenewalIsRecent'
    BY DEF RenewalIsRecent
  <2>1. session'.renewed < UpdateAge /\ quiet' \in Nat
    BY <1>0, StateFacts
  <2>2. session'.renewed + 1 < quiet' + RefreshEvery + UpdateAge
    BY <1>6, <2>1, Limits
  <2>3. ASSUME NEW u \in Tab, Open(u)'
        PROVE  session'.renewed < tab'[u].refreshed + UpdateAge
    <3>1. tab[u] \in OpenTab /\ tab'[u].refreshed = tab[u].refreshed
      BY <1>0, <1>3, <1>4, <1>5, <2>3, TabFacts
    <3> QED BY <1>6, <2>1, <3>1, Limits DEF OpenTab
  <2> QED BY <2>1, <2>2, <2>3 DEF RenewalIsRecent
<1>11. LeavingEnds'
  BY <1>0, <1>3, <1>4, <1>5 DEF LeavingEnds, OpenTab
<1> QED BY <1>7, <1>8, <1>9, <1>10, <1>11 DEF BrowserIInv

LEMMA RefreshAnsweredStep ==
  ASSUME BrowserIInv, NEW t \in Tab, RefreshAnswered(t)
  PROVE  BrowserIInv'
<1>0. BrowserTypeOK
  BY DEF BrowserIInv
<1>1. CASE Valid
  <2>1. /\ session' \in SessionRow /\ session'.live = session.live
        /\ session'.renewed < UpdateAge /\ session'.renewed <= session.renewed
    BY <1>0, <1>1, RenewedFacts DEF RefreshAnswered
  <2>2. odd' = odd /\ odd' \in [lost : BOOLEAN, refused : BOOLEAN, failed : BOOLEAN]
    BY <1>0, StateFacts DEF RefreshAnswered
  <2> QED BY <1>1, <2>1, <2>2, AskingEnds DEF RefreshAnswered
<1>2. CASE ~Valid
  BY <1>0, <1>2, StateFacts, LeaveStep DEF RefreshAnswered
<1> QED BY <1>1, <1>2

LEMMA RefreshLostStep ==
  ASSUME BrowserIInv, NEW t \in Tab, RefreshLost(t)
  PROVE  BrowserIInv'
<1>0. BrowserTypeOK
  BY DEF BrowserIInv
<1>1. /\ odd' \in [lost : BOOLEAN, refused : BOOLEAN, failed : BOOLEAN]
      /\ odd'.lost /\ odd'.failed = odd.failed
  BY <1>0, StateFacts DEF RefreshLost
<1>2. session' \in SessionRow /\ session'.renewed <= session.renewed
  BY <1>0, StateFacts, Limits DEF RefreshLost
<1> QED BY <1>1, <1>2, AskingEnds DEF RefreshLost

LEMMA HandleStorageStep ==
  ASSUME BrowserIInv, NEW t \in Tab, HandleStorage(t)
  PROVE  BrowserIInv'
<1>0. BrowserTypeOK /\ HearsRemoval /\ KnowsStored /\ StoredIsRecent
      /\ RenewalIsRecent /\ LeavingEnds
  BY DEF BrowserIInv
<1>1. CASE "removed" \in news[t] /\ HandleRemoved(t)
  BY <1>0, <1>1, StateFacts, LeaveStep DEF HandleStorage, HandleRemoved
<1>2. CASE /\ "written" \in news[t] /\ HandleWritten(t)
           /\ news' = [news EXCEPT ![t] = @ \ {"written"}]
           /\ UNCHANGED stored
  <2>0. Open(t) /\ UNCHANGED <<session, stored, quiet, odd>>
    BY <1>2 DEF HandleStorage
  <2>1. tab[t] \in OpenTab /\ tab[t].seen \in Nat
    BY <1>0, <2>0, TabFacts, Limits DEF OpenTab
  <2>2. PICK x : /\ x = [tab[t] EXCEPT !.seen = IF stored < tab[t].seen THEN stored
                                               ELSE tab[t].seen]
                 /\ tab' = [tab EXCEPT ![t] = x]
    BY <1>0, <1>2 DEF HandleWritten, BrowserTypeOK
  <2>3. /\ x \in OpenTab /\ x.seen <= stored
        /\ x.late = tab[t].late /\ x.asking = tab[t].asking
        /\ x.refreshed = tab[t].refreshed /\ x.written = tab[t].written
    BY <1>0, <2>1, <2>2, StateFacts, Limits DEF OpenTab
  <2>4. /\ tab' \in [Tab -> TabState] /\ tab'[t] = x
        /\ \A u \in Tab : u # t => tab'[u] = tab[u]
    <3>1. x \in TabState
      BY <2>3 DEF TabState, OpenTab
    <3> QED BY <1>0, <2>2, <3>1, TabChanges
  <2>5. \A u \in Tab : Open(u)' <=> Open(u)
    BY <2>0, <2>3, <2>4 DEF Open, OpenTab
  <2>6. /\ news' \in [Tab -> SUBSET {"written", "removed"}]
        /\ \A u \in Tab : "removed" \in news'[u] <=> "removed" \in news[u]
        /\ \A u \in Tab : u # t => news'[u] = news[u]
    BY <1>0, <1>2 DEF BrowserTypeOK
  <2>7. BrowserTypeOK'
    BY <1>0, <2>0, <2>4, <2>6 DEF BrowserTypeOK
  <2>8. HearsRemoval' /\ KnowsStored'
    BY <1>0, <2>0, <2>3, <2>4, <2>5, <2>6 DEF HearsRemoval, KnowsStored, Nothing
  <2>9. StoredIsRecent'
    BY <1>0, <2>0, <2>3, <2>4, <2>5 DEF StoredIsRecent, Nothing
  <2>10. RenewalIsRecent'
    <3>1. Answering => Answering'
      BY <2>0, <2>3, <2>4, <2>5 DEF Answering, Open
    <3>2. \A u \in Tab : tab'[u].at = "opening" => tab[u].at = "opening"
      BY <2>0, <2>3, <2>4 DEF OpenTab
    <3>3. \A u \in Tab : Open(u)' =>
            Open(u) /\ tab'[u].asking = tab[u].asking /\ tab'[u].refreshed = tab[u].refreshed
      BY <2>3, <2>4, <2>5
    <3> QED BY <1>0, <2>0, <3>1, <3>2, <3>3 DEF RenewalIsRecent, Valid
  <2>11. LeavingEnds'
    BY <1>0, <2>0, <2>3, <2>4, <2>5, <2>6 DEF LeavingEnds, OpenTab
  <2> QED BY <2>7, <2>8, <2>9, <2>10, <2>11 DEF BrowserIInv
<1> QED BY <1>1, <1>2 DEF HandleStorage

(* A tab that goes without a word: nobody else is concerned.               *)
LEMMA GoStep ==
  ASSUME BrowserIInv, NEW t \in Tab, Open(t), NEW x \in TabState,
         x.at = "leaving" \/ (x.at = "closed" /\ ~tab[t].asking),
         tab' = [tab EXCEPT ![t] = x], news' = [news EXCEPT ![t] = {}],
         UNCHANGED <<session, stored, quiet, odd>>
  PROVE  BrowserIInv'
<1>0. BrowserTypeOK /\ HearsRemoval /\ KnowsStored /\ StoredIsRecent
      /\ RenewalIsRecent /\ LeavingEnds
  BY DEF BrowserIInv
<1>1. /\ tab' \in [Tab -> TabState] /\ tab'[t] = x /\ ~Open(t)'
      /\ \A u \in Tab : u # t => tab'[u] = tab[u]
  BY <1>0, TabChanges DEF Open
<1>2. /\ news' \in [Tab -> SUBSET {"written", "removed"}]
      /\ news'[t] = {} /\ \A u \in Tab : u # t => news'[u] = news[u]
  BY <1>0 DEF BrowserTypeOK
<1>3. \A u \in Tab : Open(u)' => u # t /\ Open(u)
  BY <1>1 DEF Open
<1>4. BrowserTypeOK'
  BY <1>0, <1>1, <1>2 DEF BrowserTypeOK
<1>5. HearsRemoval' /\ KnowsStored' /\ StoredIsRecent'
  BY <1>0, <1>1, <1>2, <1>3 DEF HearsRemoval, KnowsStored, StoredIsRecent, Open, Nothing
<1>6. RenewalIsRecent'
  <2>1. Answering => Answering'
    BY <1>1 DEF Answering, Open
  <2> QED BY <1>0, <1>1, <1>3, <2>1 DEF RenewalIsRecent, Valid
<1>7. LeavingEnds'
  BY <1>0, <1>1, <1>2, <1>3 DEF LeavingEnds
<1> QED BY <1>4, <1>5, <1>6, <1>7 DEF BrowserIInv

LEMMA LogoutStep ==
  ASSUME BrowserIInv, NEW t \in Tab, Logout(t)
  PROVE  BrowserIInv'
<1>1. [at |-> "leaving", why |-> "asked"] \in TabState
  BY DEF TabState
<1> QED BY <1>1, GoStep DEF Logout

LEMMA CloseTabStep ==
  ASSUME BrowserIInv, NEW t \in Tab, CloseTab(t)
  PROVE  BrowserIInv'
<1>1. Shut \in TabState /\ Shut.at = "closed"
  BY DEF TabState, Shut
<1> QED BY <1>1, GoStep DEF CloseTab

LEMMA LeaveTabStep ==
  ASSUME BrowserIInv, NEW t \in Tab, NEW arrives \in BOOLEAN, LeaveTab(t, arrives)
  PROVE  BrowserIInv'
<1>0. BrowserTypeOK /\ HearsRemoval /\ KnowsStored /\ StoredIsRecent
      /\ RenewalIsRecent /\ LeavingEnds
  BY DEF BrowserIInv
<1>1. /\ tab[t].at = "leaving" /\ quiet' = quiet
      /\ session' = IF arrives THEN Ended ELSE session
      /\ odd' = [odd EXCEPT !.failed = @ \/ ~arrives]
      /\ clearSessionActivity(t) /\ tab' = [tab EXCEPT ![t].at = "left"]
  BY DEF LeaveTab
<1>2. tab[t] \in GoneTab
  BY <1>0, <1>1, TabFacts
<1>3. PICK x : x = [tab[t] EXCEPT !.at = "left"] /\ tab' = [tab EXCEPT ![t] = x]
  BY <1>0, <1>1 DEF BrowserTypeOK
<1>4. x \in TabState /\ x.at = "left"
  BY <1>2, <1>3 DEF GoneTab, TabState
<1>5. /\ tab' \in [Tab -> TabState] /\ tab'[t].at = "left"
      /\ \A u \in Tab : u # t => tab'[u] = tab[u]
  BY <1>0, <1>3, <1>4, TabChanges
<1>6. /\ stored' = Nothing
      /\ news' \in [Tab -> SUBSET {"written", "removed"}]
      /\ news'[t] = {}
      /\ \A u \in Tab : u # t =>
            /\ "written" \in news'[u] <=> "written" \in news[u]
            /\ Open(u) => "removed" \in news'[u]
            /\ ~Open(u) => news'[u] = {}
  BY <1>0, <1>1, ClearFacts
<1>7. /\ odd' \in [lost : BOOLEAN, refused : BOOLEAN, failed : BOOLEAN]
      /\ ~odd'.failed => arrives
  BY <1>0, <1>1, StateFacts
<1>8. session' \in SessionRow /\ (arrives => ~session'.live)
  BY <1>0, <1>1, StateFacts, EndedFacts
<1>9. BrowserTypeOK'
  BY <1>0, <1>1, <1>5, <1>6, <1>7, <1>8, Limits DEF BrowserTypeOK, SessionRow
<1>10. HearsRemoval'
  BY <1>5, <1>6 DEF HearsRemoval, Open
<1>11. KnowsStored'
  <2> SUFFICES ASSUME NEW u \in Tab, Open(u)', "written" \notin news'[u]
               PROVE  tab'[u].seen <= stored'
    BY DEF KnowsStored
  <2>1. u # t /\ tab'[u] = tab[u] /\ Open(u)
    BY <1>5 DEF Open
  <2>2. tab[u].seen \in 0..IdleLimit
    BY <1>0, <2>1, TabFacts DEF OpenTab
  <2> QED BY <1>6, <2>1, <2>2, Limits
<1>12. StoredIsRecent'
  BY <1>6 DEF StoredIsRecent, Nothing
<1>13. RenewalIsRecent'
  BY <1>7, <1>8 DEF RenewalIsRecent, Valid
<1>14. LeavingEnds'
  BY <1>5, <1>6, <1>7, <1>8 DEF LeavingEnds, Open
<1> QED BY <1>9, <1>10, <1>11, <1>12, <1>13, <1>14 DEF BrowserIInv

LEMMA OlderFacts ==
  ASSUME NEW limit \in Nat, NEW age \in 0..limit
  PROVE  /\ Older(age, limit) \in 0..limit
         /\ age <= Older(age, limit) /\ Older(age, limit) <= age + 1
         /\ Older(age, limit) < limit => Older(age, limit) = age + 1
         /\ Older(age, limit) = IF age = limit THEN limit ELSE age + 1
BY DEF Older

LEMMA TickFacts ==
  ASSUME BrowserIInv, Tick
  PROVE  /\ Settled /\ news' = news /\ odd' = odd
         /\ session' \in SessionRow /\ session'.live = session.live
         /\ session'.renewed = Older(session.renewed, IdleLimit)
         /\ quiet' = Older(quiet, IdleLimit)
         /\ stored' = IF stored = Nothing THEN stored ELSE Older(stored, IdleLimit)
         /\ tab' \in [Tab -> TabState]
         /\ \A t \in Tab : ~Open(t) => tab'[t] = tab[t]
         /\ \A t \in Tab : Open(t) =>
                /\ tab'[t] \in OpenTab /\ tab'[t].asking = tab[t].asking
                /\ tab'[t].late = tab[t].late
                /\ tab'[t].seen = Older(tab[t].seen, IdleLimit)
                /\ tab'[t].written = Older(tab[t].written, WriteEvery)
                /\ tab'[t].refreshed = Older(tab[t].refreshed, RefreshEvery)
<1>0. BrowserTypeOK
  BY DEF BrowserIInv
<1>1. session \in SessionRow
  BY <1>0, StateFacts
<1>2. session' \in SessionRow /\ session'.live = session.live
      /\ session'.renewed = Older(session.renewed, IdleLimit)
  <2>1. /\ Older(session.created, AbsoluteLimit) \in 0..AbsoluteLimit
        /\ Older(session.renewed, IdleLimit) \in 0..IdleLimit
    BY <1>1, OlderFacts, Limits DEF SessionRow
  <2> QED BY <1>1, <2>1 DEF Tick, SessionRow
<1>3. ASSUME NEW t \in Tab, Open(t)
      PROVE  /\ tab'[t] \in OpenTab /\ tab'[t].asking = tab[t].asking
             /\ tab'[t].late = tab[t].late
             /\ tab'[t].seen = Older(tab[t].seen, IdleLimit)
             /\ tab'[t].written = Older(tab[t].written, WriteEvery)
             /\ tab'[t].refreshed = Older(tab[t].refreshed, RefreshEvery)
  <2>1. tab[t] \in OpenTab
    BY <1>0, <1>3, TabFacts
  <2>2. /\ Older(tab[t].seen, IdleLimit) \in 0..IdleLimit
        /\ Older(tab[t].written, WriteEvery) \in 0..WriteEvery
        /\ Older(tab[t].refreshed, RefreshEvery) \in 0..RefreshEvery
    BY <2>1, OlderFacts, Limits DEF OpenTab
  <2>3. tab'[t] = [tab[t] EXCEPT !.seen = Older(tab[t].seen, IdleLimit),
                                 !.written = Older(tab[t].written, WriteEvery),
                                 !.refreshed = Older(tab[t].refreshed, RefreshEvery)]
    BY <1>3 DEF Tick
  <2> QED BY <2>1, <2>2, <2>3 DEF OpenTab
<1>4. \A t \in Tab : ~Open(t) => tab'[t] = tab[t]
  BY DEF Tick
<1>5. tab' \in [Tab -> TabState]
  <2>1. \A t \in Tab : tab'[t] \in TabState
    <3>1. ASSUME NEW t \in Tab, Open(t) PROVE tab'[t] \in TabState
      BY <1>3, <3>1 DEF OpenTab, TabState
    <3>2. ASSUME NEW t \in Tab, ~Open(t) PROVE tab'[t] \in TabState
      BY <1>0, <1>4, <3>2, TabFacts
    <3> QED BY <3>1, <3>2
  <2>2. tab' = [t \in Tab |-> tab'[t]]
    BY DEF Tick
  <2> QED BY <2>1, <2>2
<1> QED BY <1>2, <1>3, <1>4, <1>5 DEF Tick

LEMMA TickStep ==
  ASSUME BrowserIInv, Tick
  PROVE  BrowserIInv'
<1>0. BrowserTypeOK /\ HearsRemoval /\ KnowsStored /\ StoredIsRecent
      /\ RenewalIsRecent /\ LeavingEnds
  BY DEF BrowserIInv
<1>1. \A t \in Tab : Open(t)' <=> Open(t)
  BY TickFacts DEF Open, OpenTab
<1>2. /\ session.renewed \in 0..IdleLimit /\ quiet \in 0..IdleLimit
      /\ stored # Nothing => stored \in 0..IdleLimit
  BY <1>0, StateFacts
<1>3. /\ session'.renewed <= session.renewed + 1 /\ session'.renewed \in 0..IdleLimit
      /\ session'.renewed < IdleLimit => session.renewed < IdleLimit
      /\ quiet' \in 0..IdleLimit
      /\ quiet' = IF quiet = IdleLimit THEN IdleLimit ELSE quiet + 1
  BY <1>2, TickFacts, Limits DEF Older
<1>4. /\ stored = Nothing => stored' = Nothing
      /\ stored # Nothing => /\ stored' \in 0..IdleLimit /\ stored' <= stored + 1
                             /\ stored' = IF stored = IdleLimit THEN IdleLimit ELSE stored + 1
  BY <1>2, TickFacts, Limits DEF Older
<1>5. BrowserTypeOK'
  BY <1>0, <1>3, <1>4, TickFacts, StateFacts, Limits DEF BrowserTypeOK, SessionRow
<1>6. HearsRemoval'
  BY <1>0, <1>1, <1>4, TickFacts, Limits DEF HearsRemoval
<1>7. KnowsStored'
  <2> SUFFICES ASSUME NEW t \in Tab, Open(t), "written" \notin news[t]
               PROVE  tab'[t].seen <= stored'
    BY <1>1, TickFacts DEF KnowsStored
  <2>1. tab[t] \in OpenTab /\ tab[t].seen \in 0..IdleLimit /\ tab[t].seen <= stored
    BY <1>0, TabFacts DEF KnowsStored, OpenTab
  <2>2. tab'[t].seen \in 0..IdleLimit
        /\ tab'[t].seen = IF tab[t].seen = IdleLimit THEN IdleLimit ELSE tab[t].seen + 1
    BY <2>1, TickFacts, Limits DEF Older
  <2> QED BY <1>2, <1>4, <2>1, <2>2, Limits
<1>8. StoredIsRecent'
  <2> SUFFICES ASSUME stored # Nothing
               PROVE  /\ stored' < quiet' + WriteEvery
                      /\ \A t \in Tab : (Open(t)' /\ tab'[t].written < WriteEvery)
                            => stored' <= tab'[t].written
    BY <1>4 DEF StoredIsRecent, Nothing
  <2>1. stored < quiet + WriteEvery
    BY <1>0 DEF StoredIsRecent
  <2>2. stored' < quiet' + WriteEvery
    BY <1>2, <1>3, <1>4, <2>1, Limits
  <2>3. ASSUME NEW t \in Tab, Open(t), tab'[t].written < WriteEvery
        PROVE  stored' <= tab'[t].written
    <3>1. tab[t].written \in 0..WriteEvery
      BY <1>0, <2>3, TabFacts DEF OpenTab
    <3>2. tab'[t].written = tab[t].written + 1 /\ tab[t].written < WriteEvery
      BY <2>3, <3>1, TickFacts, Limits DEF Older
    <3>3. stored <= tab[t].written
      BY <1>0, <2>3, <3>2 DEF StoredIsRecent
    <3> QED BY <1>2, <1>4, <3>1, <3>2, <3>3, Limits
  <2> QED BY <1>1, <2>2, <2>3
<1>9. RenewalIsRecent'
  <2> SUFFICES ASSUME Valid', ~odd.lost, ~odd.failed
               PROVE  RenewalIsRecent'
    BY TickFacts DEF RenewalIsRecent
  <2>1. Valid
    BY <1>3, TickFacts DEF Valid
  <2>2. ~Answering
    BY TickFacts DEF Settled, Answering
  <2>3. session'.renewed + 1 < quiet' + RefreshEvery + UpdateAge
    <3>1. session.renewed + 1 < quiet + RefreshEvery + UpdateAge
      BY <1>0, <2>1, <2>2 DEF RenewalIsRecent
    <3>2. session'.renewed < IdleLimit
      BY DEF Valid
    <3> QED BY <1>2, <1>3, <3>1, <3>2, Limits
  <2>4. \A t \in Tab : tab'[t].at # "opening"
    <3>1. \A t \in Tab : Open(t) => tab'[t].at = "open"
      BY <1>1 DEF Open
    <3> QED BY <3>1, TickFacts DEF Settled
  <2>5. ASSUME NEW t \in Tab, Open(t), ~tab'[t].asking, tab'[t].refreshed < RefreshEvery
        PROVE  session'.renewed < tab'[t].refreshed + UpdateAge
    <3>1. tab[t].refreshed \in 0..RefreshEvery
      BY <1>0, <2>5, TabFacts DEF OpenTab
    <3>2. tab'[t].refreshed = tab[t].refreshed + 1 /\ tab[t].refreshed < RefreshEvery
      BY <2>5, <3>1, TickFacts, Limits DEF Older
    <3>3. session.renewed < tab[t].refreshed + UpdateAge
      BY <1>0, <2>1, <2>5, <3>2, TickFacts DEF RenewalIsRecent
    <3> QED BY <1>2, <1>3, <3>1, <3>2, <3>3, Limits
  <2> QED BY <1>1, <2>3, <2>4, <2>5 DEF RenewalIsRecent
<1>10. LeavingEnds'
  <2>1. \A t \in Tab : tab'[t].at = "left" => tab[t].at = "left"
    BY <1>1, TickFacts DEF Open
  <2> QED BY <1>0, <1>1, <2>1, TickFacts DEF LeavingEnds
<1> QED BY <1>5, <1>6, <1>7, <1>8, <1>9, <1>10 DEF BrowserIInv

-----------------------------------------------------------------------------
LEMMA BrowserStart ==
  ASSUME BrowserInit
  PROVE  BrowserIInv
<1>1. \A t \in Tab : tab[t] = Shut /\ tab[t].at = "closed" /\ ~Open(t)
  BY DEF BrowserInit, Shut, Open
<1>2. BrowserTypeOK
  BY Limits DEF BrowserInit, BrowserTypeOK, Shut, TabState, Nothing
<1>3. HearsRemoval /\ KnowsStored /\ StoredIsRecent /\ LeavingEnds
  BY <1>1 DEF BrowserInit, HearsRemoval, KnowsStored, StoredIsRecent, LeavingEnds, Nothing
<1>4. RenewalIsRecent
  BY <1>1, Limits DEF BrowserInit, RenewalIsRecent
<1> QED BY <1>2, <1>3, <1>4 DEF BrowserIInv

(* Whatever tabs, storage events and answers interleave, each tab's view   *)
(* of the activity is bounded by what is stored, what is stored and the    *)
(* renewal of the session are as recent as they must be, and who signs out *)
(* ends the session and is heard by whoever is open.                       *)
THEOREM SessionsAreSound == BrowserSpec => []BrowserIInv
<1>1. BrowserInit => BrowserIInv
  BY BrowserStart
<1>2. BrowserIInv /\ [BrowserNext]_browserVars => BrowserIInv'
  <2> SUFFICES ASSUME BrowserIInv, [BrowserNext]_browserVars PROVE BrowserIInv'
    OBVIOUS
  <2>1. CASE Tick
    BY <2>1, TickStep
  <2>2. CASE Revoke
    BY <2>2, RevokeStep
  <2>3. ASSUME NEW t \in Tab,
               \/ AskToOpen(t) \/ Mount(t) \/ CloseTab(t)
               \/ CheckTimeouts(t) \/ RecordActivity(t) \/ BackgroundCall(t)
               \/ RefreshAnswered(t) \/ RefreshRefused(t) \/ RefreshLost(t)
               \/ HandleStorage(t) \/ Logout(t)
        PROVE  BrowserIInv'
    BY <2>3, AskToOpenStep, MountStep, CloseTabStep, CheckTimeoutsStep,
       RecordActivityStep, BackgroundCallStep, RefreshAnsweredStep, RefusedStep,
       RefreshLostStep, HandleStorageStep, LogoutStep
  <2>4. ASSUME NEW t \in Tab, NEW arrives \in BOOLEAN, LeaveTab(t, arrives)
        PROVE  BrowserIInv'
    BY <2>4, LeaveTabStep
  <2>5. CASE UNCHANGED browserVars
    BY <2>5 DEF browserVars, BrowserIInv, BrowserTypeOK, HearsRemoval, KnowsStored,
       StoredIsRecent, RenewalIsRecent, LeavingEnds, Open, Valid, Answering
  <2> QED BY <2>1, <2>2, <2>3, <2>4, <2>5 DEF BrowserNext
<1> QED BY <1>1, <1>2, PTL DEF BrowserSpec

(* Tabs end together: when everything was heard, no tab goes on after      *)
(* another has left, unless the sign-out did not arrive or the page        *)
(* appeared after it.                                                      *)
THEOREM TabsEndTogether == BrowserSpec => []EndsTogether
<1>1. BrowserIInv => EndsTogether
  BY DEF BrowserIInv, EndsTogether, LeavingEnds, Settled
<1> QED BY <1>1, SessionsAreSound, PTL

(* Only idle sessions end as idle, by the clock of a tab and by that of    *)
(* the server, less the time that the intervals of writing, asking and     *)
(* renewing leave out.                                                     *)
THEOREM OnlyIdleEndsAsIdle == BrowserSpec => IdleIsIdle
<1> DEFINE TabIdle == \A t \in Tab :
              (/\ Open(t) /\ tab[t].seen >= IdleLimit /\ news[t] = {}
               /\ tab'[t].at = "leaving" /\ tab'[t].why = "idle")
                  => quiet + WriteEvery > IdleLimit
           ServerIdle ==
              (/\ Valid /\ session'.live /\ session'.renewed >= IdleLimit
               /\ ~odd.lost /\ ~odd.failed)
                  => quiet' + (RefreshEvery - 1) + (UpdateAge - 1) >= IdleLimit
<1>1. ASSUME BrowserIInv, [BrowserNext]_browserVars
      PROVE  TabIdle /\ ServerIdle
  <2>0. BrowserTypeOK
    BY <1>1 DEF BrowserIInv
  <2>1. TabIdle
    <3> SUFFICES ASSUME NEW t \in Tab, Open(t), tab[t].seen >= IdleLimit, news[t] = {}
                 PROVE  quiet + WriteEvery > IdleLimit
      OBVIOUS
    <3>1. tab[t].seen \in Nat
      BY <2>0, TabFacts, Limits DEF OpenTab
    <3>2. stored # Nothing /\ tab[t].seen <= stored /\ stored < quiet + WriteEvery
      BY <1>1 DEF BrowserIInv, HearsRemoval, KnowsStored, StoredIsRecent
    <3> QED BY <2>0, <3>1, <3>2, StateFacts, Limits
  <2>2. ServerIdle
    <3> SUFFICES ASSUME Valid, session'.live, session'.renewed >= IdleLimit,
                        ~odd.lost, ~odd.failed
                 PROVE  quiet' + (RefreshEvery - 1) + (UpdateAge - 1) >= IdleLimit
      OBVIOUS
    <3>0. session.renewed \in 0..IdleLimit /\ session.renewed < IdleLimit
          /\ quiet \in 0..IdleLimit
      BY <2>0, StateFacts DEF Valid
    <3>1. Tick
      <4>1. session'.renewed # session.renewed
        BY <3>0, Limits
      <4>2. session' # Ended
        BY <2>0, EndedFacts
      <4>3. session' # Renewed(session)
        <5>1. Renewed(session).renewed <= session.renewed
              /\ Renewed(session).renewed \in 0..IdleLimit
          BY <2>0, RenewedFacts DEF SessionRow
        <5>2. Renewed(session).renewed < IdleLimit
          BY <3>0, <5>1, Limits
        <5> QED BY <3>0, <5>1, <5>2, Limits
      <4> QED BY <1>1, <4>1, <4>2, <4>3 DEF BrowserNext, browserVars, Revoke, AskToOpen,
                 Mount, CloseTab, CheckTimeouts, RecordActivity, BackgroundCall,
                 RefreshAnswered, RefreshRefused, RefreshLost, HandleStorage, Logout,
                 LeaveTab
    <3>2. Settled /\ session'.renewed <= session.renewed + 1
          /\ quiet' = IF quiet = IdleLimit THEN IdleLimit ELSE quiet + 1
      BY <1>1, <3>0, <3>1, TickFacts, Limits DEF Older
    <3>3. session.renewed + 1 < quiet + RefreshEvery + UpdateAge
      BY <1>1, <3>2 DEF BrowserIInv, RenewalIsRecent, Settled, Answering
    <3>4. session'.renewed \in Nat
      BY <1>1, <3>1, TickFacts, Limits DEF SessionRow
    <3> QED BY <3>0, <3>2, <3>3, <3>4, Limits
  <2> QED BY <2>1, <2>2
<1>2. BrowserIInv /\ [BrowserNext]_browserVars =>
        /\ \A t \in Tab :
             (/\ Open(t) /\ tab[t].seen >= IdleLimit /\ news[t] = {}
              /\ tab'[t].at = "leaving" /\ tab'[t].why = "idle")
                 => quiet + WriteEvery > IdleLimit
        /\ (/\ Valid /\ session'.live /\ session'.renewed >= IdleLimit
            /\ ~odd.lost /\ ~odd.failed)
                 => quiet' + (RefreshEvery - 1) + (UpdateAge - 1) >= IdleLimit
  BY <1>1
<1> QED BY <1>2, SessionsAreSound, PTL DEF BrowserSpec, IdleIsIdle

-----------------------------------------------------------------------------
(* Prospects, customers and requests                                       *)

(* Rows and requests name customers that were registered.                  *)
Referenced ==
    /\ \A p \in DOMAIN prospects : Kept(p) =>
        \/ prospects[p].customer = 0
        \/ /\ prospects[p].customer \in DOMAIN customers
           /\ Registered(prospects[p].customer)
    /\ \A r \in Agent : agent[r].at \in {"linking", "marking"} =>
        agent[r].customer \in DOMAIN customers

(* Nobody had the number of a new customer when it was looked for.         *)
NumberIsFree ==
    \A r \in Agent : agent[r].at = "inserting" =>
        /\ agent[r].checked <= Len(customers)
        /\ \A c \in 1..agent[r].checked :
            Registered(c) => customers[c].number # agent[r].number

(* An import reads the rows before it inserts its own.                     *)
RowsFollow ==
    \A p \in DOMAIN prospects :
        (Kept(p) /\ prospects[p].by # Blank) => prospects[p].read < p

SameKey(x, y) == duplicateKeys(x) \cap duplicateKeys(y) # {}

(* A row that an import read, or inserted itself.                          *)
Before(p, r) ==
    \/ p <= agent[r].read
    \/ prospects[p].by = r /\ prospects[p].read = agent[r].read

(* What an import has left to insert repeats none of these, nor itself.    *)
RestIsNew ==
    \A r \in Agent : agent[r].at = "importing" =>
        /\ agent[r].read <= Len(prospects)
        /\ \A k \in DOMAIN agent[r].todo : \A p \in DOMAIN prospects :
            (Kept(p) /\ ~prospects[p].edited /\ Before(p, r))
                => ~SameKey(prospects[p].who, agent[r].todo[k])
        /\ \A k, l \in DOMAIN agent[r].todo :
            k # l => ~SameKey(agent[r].todo[k], agent[r].todo[l])

ProspectsIInv ==
    /\ ProspectsTypeOK /\ Referenced
    /\ NumberIsFree /\ OneCustomerPerNumber
    /\ RowsFollow /\ RestIsNew /\ NoRowTwice

LEMMA Sizes ==
  /\ ChunkSize \in Nat /\ 0 < ChunkSize
  /\ MaxProspects \in Nat /\ MaxCustomers \in Nat
  /\ Blank \notin Agent /\ Files \subseteq Seq(People)
BY ProspectsAssumption DEF ProspectsAssumption

LEMMA RowFacts ==
  ASSUME ProspectsTypeOK
  PROVE  /\ Len(prospects) \in Nat /\ DOMAIN prospects = 1..Len(prospects)
         /\ Len(customers) \in Nat /\ DOMAIN customers = 1..Len(customers)
         /\ \A p \in DOMAIN prospects : prospects[p] \in ProspectRow \cup {Removed}
         /\ \A p \in DOMAIN prospects : Kept(p) => prospects[p] \in ProspectRow
         /\ \A c \in DOMAIN customers : customers[c] \in CustomerRow \cup {Removed}
         /\ \A c \in DOMAIN customers : Registered(c) => customers[c] \in CustomerRow
BY DEF ProspectsTypeOK, Kept, Registered

LEMMA RowIsKept ==
  ASSUME NEW row \in ProspectRow
  PROVE  row # Removed
<1>1. row.status \in {"OPEN", "CONVERTED"}
  BY DEF ProspectRow
<1> QED BY <1>1 DEF Removed

LEMMA AgentFacts ==
  ASSUME ProspectsTypeOK, NEW r \in Agent
  PROVE  /\ agent[r] \in AgentState
         /\ agent[r].at = "saving" => agent[r].prospect \in Nat /\ agent[r].who \in People
         /\ agent[r].at = "checking" => /\ agent[r].prospect \in Nat
                                        /\ agent[r].type \in DocumentType
                                        /\ agent[r].number \in Number
         /\ agent[r].at = "inserting" => /\ agent[r].prospect \in Nat
                                         /\ agent[r].type \in DocumentType
                                         /\ agent[r].number \in Number
                                         /\ agent[r].checked \in Nat
         /\ agent[r].at \in {"linking", "marking"} =>
                agent[r].prospect \in Nat /\ agent[r].customer \in Nat
         /\ agent[r].at = "importing" => agent[r].todo \in Seq(People) /\ agent[r].read \in Nat
<1>1. agent[r] \in AgentState
  BY DEF ProspectsTypeOK
<1> QED BY <1>1 DEF AgentState

LEMMA AgentMoves ==
  ASSUME ProspectsTypeOK, NEW r \in Agent, NEW state, AgentAt(r, state)
  PROVE  /\ agent'[r] = state
         /\ \A s \in Agent : s # r => agent'[s] = agent[s]
         /\ state \in AgentState => agent' \in [Agent -> AgentState]
BY DEF ProspectsTypeOK, AgentAt

LEMMA RestingIsTyped == Resting \in AgentState
BY DEF Resting, AgentState

(* A request moves on; no row changes.                                     *)
LEMMA OnlyAgent ==
  ASSUME ProspectsIInv, NEW r \in Agent, NEW state \in AgentState, AgentAt(r, state),
         UNCHANGED <<prospects, customers>>,
         state.at \in {"linking", "marking"} => state.customer \in DOMAIN customers,
         state.at = "inserting" =>
            /\ state.checked <= Len(customers)
            /\ \A c \in 1..state.checked :
                Registered(c) => customers[c].number # state.number,
         state.at # "importing"
  PROVE  ProspectsIInv'
<1>0. /\ ProspectsTypeOK /\ Referenced
      /\ NumberIsFree /\ OneCustomerPerNumber
      /\ RowsFollow /\ RestIsNew /\ NoRowTwice
  BY DEF ProspectsIInv
<1>1. /\ agent' \in [Agent -> AgentState] /\ agent'[r] = state
      /\ \A s \in Agent : s # r => agent'[s] = agent[s]
  BY <1>0, AgentMoves
<1>2. ProspectsTypeOK'
  BY <1>0, <1>1 DEF ProspectsTypeOK, Kept, Registered
<1>3. Referenced'
  BY <1>0, <1>1 DEF Referenced, Kept, Registered
<1>4. NumberIsFree' /\ OneCustomerPerNumber'
  BY <1>0, <1>1 DEF NumberIsFree, OneCustomerPerNumber, Registered
<1>5. RowsFollow' /\ NoRowTwice'
  BY <1>0 DEF RowsFollow, NoRowTwice, Kept
<1>6. RestIsNew'
  BY <1>0, <1>1 DEF RestIsNew, Kept, Before
<1> QED BY <1>2, <1>3, <1>4, <1>5, <1>6 DEF ProspectsIInv

-----------------------------------------------------------------------------
(* Rows that are edited, marked or removed                                 *)

(* A row that changes: removed, edited, or the same person's as before.    *)
Harmless(p) ==
    \/ prospects'[p] = Removed
    \/ /\ prospects'[p] \in ProspectRow
       /\ prospects'[p].by = Blank /\ prospects'[p].edited
    \/ /\ Kept(p) /\ prospects'[p] \in ProspectRow
       /\ prospects'[p].who = prospects[p].who
       /\ prospects'[p].by = prospects[p].by
       /\ prospects'[p].read = prospects[p].read
       /\ prospects'[p].edited = prospects[p].edited

LEMMA RowsStay ==
  ASSUME ProspectsTypeOK, RowsFollow, RestIsNew, NoRowTwice,
         prospects' \in Seq(ProspectRow \cup {Removed}),
         Len(prospects') = Len(prospects),
         \A p \in DOMAIN prospects : Harmless(p),
         \A s \in Agent : agent'[s] = agent[s] \/ agent'[s] = Resting
  PROVE  RowsFollow' /\ RestIsNew' /\ NoRowTwice'
<1>1. /\ Len(prospects) \in Nat /\ DOMAIN prospects = 1..Len(prospects)
      /\ DOMAIN prospects' = 1..Len(prospects)
  BY RowFacts
<1>2. \A p \in DOMAIN prospects : (Kept(p)' /\ prospects'[p].by # Blank) =>
        /\ Kept(p) /\ prospects'[p].who = prospects[p].who
        /\ prospects'[p].by = prospects[p].by
        /\ prospects'[p].read = prospects[p].read
        /\ prospects'[p].edited = prospects[p].edited
  BY DEF Harmless, Kept
<1>3. \A p \in DOMAIN prospects : (Kept(p)' /\ ~prospects'[p].edited) =>
        /\ Kept(p) /\ prospects'[p].who = prospects[p].who
        /\ prospects'[p].by = prospects[p].by
        /\ prospects'[p].read = prospects[p].read
        /\ prospects'[p].edited = prospects[p].edited
  BY DEF Harmless, Kept
<1>4. RowsFollow'
  BY <1>1, <1>2 DEF RowsFollow
<1>5. RestIsNew'
  <2> SUFFICES ASSUME NEW r \in Agent, agent'[r].at = "importing"
               PROVE  /\ agent'[r].read <= Len(prospects')
                      /\ \A k \in DOMAIN agent'[r].todo : \A p \in DOMAIN prospects' :
                          (Kept(p)' /\ ~prospects'[p].edited /\ Before(p, r)')
                              => ~SameKey(prospects'[p].who, agent'[r].todo[k])
                      /\ \A k, l \in DOMAIN agent'[r].todo :
                          k # l => ~SameKey(agent'[r].todo[k], agent'[r].todo[l])
    BY DEF RestIsNew
  <2>1. agent'[r] = agent[r]
    BY DEF Resting
  <2>2. ASSUME NEW p \in DOMAIN prospects, Kept(p)', ~prospects'[p].edited,
               Before(p, r)'
        PROVE  Kept(p) /\ ~prospects[p].edited /\ Before(p, r)
               /\ prospects'[p].who = prospects[p].who
    BY <1>3, <2>1, <2>2 DEF Before
  <2> QED BY <1>1, <2>1, <2>2 DEF RestIsNew
<1>6. NoRowTwice'
  <2> SUFFICES ASSUME NEW q \in DOMAIN prospects, NEW p \in 1..(q - 1),
                      Kept(p)', Kept(q)', prospects'[q].by # Blank, ~prospects'[p].edited,
                      duplicateKeys(prospects'[p].who)
                          \cap duplicateKeys(prospects'[q].who) # {}
               PROVE  /\ prospects'[q].read < p
                      /\ <<prospects'[p].by, prospects'[p].read>>
                            # <<prospects'[q].by, prospects'[q].read>>
    BY <1>1 DEF NoRowTwice
  <2>1. p \in DOMAIN prospects
    BY <1>1
  <2> QED BY <1>2, <1>3, <2>1 DEF NoRowTwice
<1> QED BY <1>4, <1>5, <1>6

(* Customers that stay, or are removed.                                    *)
LEMMA CustomersStay ==
  ASSUME ProspectsTypeOK, NumberIsFree, OneCustomerPerNumber,
         Len(customers') = Len(customers), customers' \in Seq(CustomerRow \cup {Removed}),
         \A c \in DOMAIN customers : customers'[c] = customers[c] \/ customers'[c] = Removed,
         \A s \in Agent : agent'[s] = agent[s] \/ agent'[s] = Resting
  PROVE  NumberIsFree' /\ OneCustomerPerNumber'
<1>1. /\ Len(customers) \in Nat /\ DOMAIN customers = 1..Len(customers)
      /\ DOMAIN customers' = 1..Len(customers)
  BY RowFacts
<1>2. \A c \in DOMAIN customers : Registered(c)' =>
        Registered(c) /\ customers'[c] = customers[c]
  BY DEF Registered
<1>3. NumberIsFree'
  <2> SUFFICES ASSUME NEW r \in Agent, agent'[r].at = "inserting"
               PROVE  /\ agent'[r].checked <= Len(customers)
                      /\ \A c \in 1..agent'[r].checked :
                            Registered(c)' => customers'[c].number # agent'[r].number
    BY DEF NumberIsFree
  <2>1. agent'[r] = agent[r]
    BY DEF Resting
  <2>2. agent[r].checked \in Nat /\ agent[r].checked <= Len(customers)
    BY <2>1, AgentFacts DEF NumberIsFree
  <2> QED BY <1>1, <1>2, <2>1, <2>2 DEF NumberIsFree
<1>4. OneCustomerPerNumber'
  <2> SUFFICES ASSUME NEW d \in DOMAIN customers, NEW c \in 1..(d - 1),
                      Registered(c)', Registered(d)',
                      customers'[c].number = customers'[d].number
               PROVE  /\ customers'[d].checked < c
                      /\ customers'[c].type # customers'[d].type
    BY <1>1 DEF OneCustomerPerNumber
  <2>1. c \in DOMAIN customers
    BY <1>1
  <2> QED BY <1>2, <2>1 DEF OneCustomerPerNumber
<1> QED BY <1>3, <1>4

LEMMA RowChanges ==
  ASSUME ProspectsTypeOK, NEW p, NEW row \in ProspectRow \cup {Removed},
         prospects' = [prospects EXCEPT ![p] = row]
  PROVE  /\ prospects' \in Seq(ProspectRow \cup {Removed})
         /\ Len(prospects') = Len(prospects)
         /\ p \in DOMAIN prospects => prospects'[p] = row
         /\ \A q \in DOMAIN prospects : q # p => prospects'[q] = prospects[q]
<1>1. prospects \in Seq(ProspectRow \cup {Removed})
  BY DEF ProspectsTypeOK
<1>2. CASE p \in DOMAIN prospects
  <2>1. p \in 1..Len(prospects) /\ DOMAIN prospects = 1..Len(prospects)
    BY <1>2, RowFacts
  <2>2. /\ [prospects EXCEPT ![p] = row] \in Seq(ProspectRow \cup {Removed})
        /\ Len([prospects EXCEPT ![p] = row]) = Len(prospects)
    BY <1>1, <2>1, ExceptSeq
  <2> QED BY <1>2, <2>2
<1>3. CASE p \notin DOMAIN prospects
  <2>1. prospects' = prospects
    BY <1>1, <1>3
  <2> QED BY <1>1, <1>3, <2>1
<1> QED BY <1>2, <1>3

LEMMA SameIsHarmless ==
  ASSUME ProspectsTypeOK, NEW p \in DOMAIN prospects, prospects'[p] = prospects[p]
  PROVE  Harmless(p)
BY RowFacts DEF Harmless, Kept

LEMMA SaveEditStep ==
  ASSUME ProspectsIInv, NEW r \in Agent, SaveEdit(r)
  PROVE  ProspectsIInv'
<1>0. /\ ProspectsTypeOK /\ Referenced
      /\ NumberIsFree /\ OneCustomerPerNumber
      /\ RowsFollow /\ RestIsNew /\ NoRowTwice
  BY DEF ProspectsIInv
<1> DEFINE p == agent[r].prospect
<1>1. /\ agent' \in [Agent -> AgentState] /\ agent'[r] = Resting
      /\ \A s \in Agent : agent'[s] = agent[s] \/ agent'[s] = Resting
      /\ customers' = customers
  BY <1>0, AgentMoves, RestingIsTyped DEF SaveEdit
<1>2. agent[r].who \in People
  BY <1>0, AgentFacts DEF SaveEdit
<1>3. /\ prospects' \in Seq(ProspectRow \cup {Removed})
      /\ Len(prospects') = Len(prospects)
      /\ \A q \in DOMAIN prospects : Harmless(q)
      /\ \A q \in DOMAIN prospects : Kept(q)' =>
            Kept(q) /\ prospects'[q].customer = prospects[q].customer
  <2>1. CASE p \in DOMAIN prospects /\ Kept(p)
    <3>1. PICK row : /\ row = [prospects[p] EXCEPT !.who = agent[r].who, !.status = "OPEN",
                                  !.by = Blank, !.read = 0, !.edited = TRUE]
                     /\ prospects' = [prospects EXCEPT ![p] = row]
      BY <2>1 DEF SaveEdit
    <3>2. prospects[p] \in ProspectRow
      BY <1>0, <2>1, RowFacts
    <3>3. /\ row \in ProspectRow /\ row.by = Blank /\ row.edited
          /\ row.customer = prospects[p].customer
      BY <1>2, <3>1, <3>2 DEF ProspectRow
    <3>4. /\ prospects' \in Seq(ProspectRow \cup {Removed})
          /\ Len(prospects') = Len(prospects) /\ prospects'[p] = row
          /\ \A q \in DOMAIN prospects : q # p => prospects'[q] = prospects[q]
      BY <1>0, <2>1, <3>1, <3>3, RowChanges
    <3>5. \A q \in DOMAIN prospects : Harmless(q)
      BY <1>0, <3>3, <3>4, SameIsHarmless DEF Harmless
    <3> QED BY <2>1, <3>3, <3>4, <3>5 DEF Kept
  <2>2. CASE p \notin DOMAIN prospects \/ ~Kept(p)
    <3>1. prospects' = prospects
      BY <1>0, <2>2 DEF SaveEdit, ProspectsTypeOK
    <3>2. \A q \in DOMAIN prospects : Harmless(q)
      BY <1>0, <3>1, SameIsHarmless
    <3> QED BY <1>0, <3>1, <3>2 DEF ProspectsTypeOK, Kept
  <2> QED BY <2>1, <2>2
<1>4. RowsFollow' /\ RestIsNew' /\ NoRowTwice'
  BY <1>0, <1>1, <1>3, RowsStay
<1>5. NumberIsFree' /\ OneCustomerPerNumber'
  BY <1>0, <1>1, CustomersStay DEF ProspectsTypeOK
<1>6. Referenced'
  BY <1>0, <1>1, <1>3, RowFacts DEF Referenced, Registered, Resting
<1>7. ProspectsTypeOK'
  BY <1>0, <1>1, <1>3, <1>6, RowFacts DEF ProspectsTypeOK, Referenced
<1> QED BY <1>4, <1>5, <1>6, <1>7 DEF ProspectsIInv

LEMMA RemoveProspectStep ==
  ASSUME ProspectsIInv, NEW r \in Agent, RemoveProspect(r)
  PROVE  ProspectsIInv'
<1>0. /\ ProspectsTypeOK /\ Referenced
      /\ NumberIsFree /\ OneCustomerPerNumber
      /\ RowsFollow /\ RestIsNew /\ NoRowTwice
  BY DEF ProspectsIInv
<1> DEFINE p == agent[r].prospect
<1>1. /\ agent' \in [Agent -> AgentState] /\ agent'[r] = Resting
      /\ \A s \in Agent : agent'[s] = agent[s] \/ agent'[s] = Resting
      /\ customers' = customers
  BY <1>0, AgentMoves, RestingIsTyped DEF RemoveProspect
<1>2. /\ prospects' \in Seq(ProspectRow \cup {Removed})
      /\ Len(prospects') = Len(prospects)
      /\ p \in DOMAIN prospects => prospects'[p] = Removed
      /\ \A q \in DOMAIN prospects : q # p => prospects'[q] = prospects[q]
  BY <1>0, RowChanges DEF RemoveProspect
<1>3. /\ \A q \in DOMAIN prospects : Harmless(q)
      /\ \A q \in DOMAIN prospects : Kept(q)' =>
            Kept(q) /\ prospects'[q].customer = prospects[q].customer
  BY <1>0, <1>2, SameIsHarmless DEF Harmless, Kept
<1>4. RowsFollow' /\ RestIsNew' /\ NoRowTwice'
  BY <1>0, <1>1, <1>2, <1>3, RowsStay
<1>5. NumberIsFree' /\ OneCustomerPerNumber'
  BY <1>0, <1>1, CustomersStay DEF ProspectsTypeOK
<1>6. Referenced'
  BY <1>0, <1>1, <1>2, <1>3, RowFacts DEF Referenced, Registered, Resting
<1>7. ProspectsTypeOK'
  BY <1>0, <1>1, <1>2, <1>6, RowFacts DEF ProspectsTypeOK, Referenced
<1> QED BY <1>4, <1>5, <1>6, <1>7 DEF ProspectsIInv

LEMMA MarkConvertedStep ==
  ASSUME ProspectsIInv, NEW r \in Agent, MarkConverted(r)
  PROVE  ProspectsIInv'
<1>0. /\ ProspectsTypeOK /\ Referenced
      /\ NumberIsFree /\ OneCustomerPerNumber
      /\ RowsFollow /\ RestIsNew /\ NoRowTwice
  BY DEF ProspectsIInv
<1> DEFINE p == agent[r].prospect
           c == agent[r].customer
<1>1. /\ agent' \in [Agent -> AgentState] /\ agent'[r] = Resting
      /\ \A s \in Agent : agent'[s] = agent[s] \/ agent'[s] = Resting
      /\ customers' = customers
  BY <1>0, AgentMoves, RestingIsTyped DEF MarkConverted
<1>2. c \in Nat /\ c \in DOMAIN customers
  BY <1>0, AgentFacts DEF MarkConverted, Referenced
<1>3. /\ prospects' \in Seq(ProspectRow \cup {Removed})
      /\ Len(prospects') = Len(prospects)
      /\ \A q \in DOMAIN prospects : Harmless(q)
      /\ \A q \in DOMAIN prospects : Kept(q)' =>
            /\ Kept(q)
            /\ \/ prospects'[q].customer = prospects[q].customer
               \/ prospects'[q].customer = c /\ Registered(c)
  <2>1. CASE p \in DOMAIN prospects /\ Kept(p) /\ Registered(c)
    <3>1. PICK row : /\ row = [prospects[p] EXCEPT !.status = "CONVERTED",
                                                   !.customer = c]
                     /\ prospects' = [prospects EXCEPT ![p] = row]
      BY <1>0, <2>1 DEF MarkConverted, ProspectsTypeOK
    <3>2. prospects[p] \in ProspectRow
      BY <1>0, <2>1, RowFacts
    <3>3. /\ row \in ProspectRow /\ row.customer = c
          /\ row.who = prospects[p].who /\ row.by = prospects[p].by
          /\ row.read = prospects[p].read /\ row.edited = prospects[p].edited
      BY <1>2, <3>1, <3>2 DEF ProspectRow
    <3>4. /\ prospects' \in Seq(ProspectRow \cup {Removed})
          /\ Len(prospects') = Len(prospects) /\ prospects'[p] = row
          /\ \A q \in DOMAIN prospects : q # p => prospects'[q] = prospects[q]
      BY <1>0, <2>1, <3>1, <3>3, RowChanges
    <3>5. \A q \in DOMAIN prospects : Harmless(q)
      BY <1>0, <2>1, <3>3, <3>4, SameIsHarmless DEF Harmless
    <3> QED BY <2>1, <3>3, <3>4, <3>5 DEF Kept
  <2>2. CASE p \notin DOMAIN prospects \/ ~Kept(p) \/ ~Registered(c)
    <3>1. prospects' = prospects
      BY <1>0, <2>2 DEF MarkConverted, ProspectsTypeOK
    <3>2. \A q \in DOMAIN prospects : Harmless(q)
      BY <1>0, <3>1, SameIsHarmless
    <3> QED BY <1>0, <3>1, <3>2 DEF ProspectsTypeOK, Kept
  <2> QED BY <2>1, <2>2
<1>4. RowsFollow' /\ RestIsNew' /\ NoRowTwice'
  BY <1>0, <1>1, <1>3, RowsStay
<1>5. NumberIsFree' /\ OneCustomerPerNumber'
  BY <1>0, <1>1, CustomersStay DEF ProspectsTypeOK
<1>6. Referenced'
  <2>1. DOMAIN prospects' = DOMAIN prospects
    BY <1>0, <1>3, RowFacts
  <2>2. ASSUME NEW q \in DOMAIN prospects', Kept(q)'
        PROVE  \/ prospects'[q].customer = 0
               \/ /\ prospects'[q].customer \in DOMAIN customers
                  /\ Registered(prospects'[q].customer)
    <3>1. CASE prospects'[q].customer = prospects[q].customer
      BY <1>0, <1>3, <2>1, <2>2, <3>1 DEF Referenced
    <3>2. CASE prospects'[q].customer = c /\ Registered(c)
      BY <1>2, <3>2
    <3> QED BY <1>3, <2>1, <2>2, <3>1, <3>2
  <2>3. ASSUME NEW s \in Agent, agent'[s].at \in {"linking", "marking"}
        PROVE  agent'[s].customer \in DOMAIN customers
    BY <1>0, <1>1, <2>3 DEF Referenced, Resting
  <2> QED BY <1>1, <2>2, <2>3 DEF Referenced, Registered
<1>7. ProspectsTypeOK'
  BY <1>0, <1>1, <1>3, <1>6, RowFacts DEF ProspectsTypeOK, Referenced
<1> QED BY <1>4, <1>5, <1>6, <1>7 DEF ProspectsIInv

LEMMA RemoveCustomerStep ==
  ASSUME ProspectsIInv, NEW c \in DOMAIN customers, RemoveCustomer(c)
  PROVE  ProspectsIInv'
<1>0. /\ ProspectsTypeOK /\ Referenced
      /\ NumberIsFree /\ OneCustomerPerNumber
      /\ RowsFollow /\ RestIsNew /\ NoRowTwice
  BY DEF ProspectsIInv
<1>1. /\ customers' \in Seq(CustomerRow \cup {Removed}) /\ Len(customers') = Len(customers)
      /\ DOMAIN customers' = DOMAIN customers
      /\ \A d \in DOMAIN customers : customers'[d] = IF d = c THEN Removed ELSE customers[d]
  <2>1. customers \in Seq(CustomerRow \cup {Removed}) /\ c \in 1..Len(customers)
    BY <1>0, RowFacts DEF ProspectsTypeOK
  <2>2. customers' = [customers EXCEPT ![c] = Removed]
    BY DEF RemoveCustomer
  <2>3. [customers EXCEPT ![c] = Removed] \in Seq(CustomerRow \cup {Removed})
        /\ Len([customers EXCEPT ![c] = Removed]) = Len(customers)
    BY <2>1, ExceptSeq
  <2> QED BY <2>1, <2>2, <2>3
<1>2. \A p \in DOMAIN prospects : prospects'[p] =
        IF Kept(p) /\ prospects[p].customer = c
        THEN [prospects[p] EXCEPT !.customer = 0] ELSE prospects[p]
  BY DEF RemoveCustomer
<1>3. ASSUME NEW p \in DOMAIN prospects
      PROVE  /\ prospects'[p] \in ProspectRow \cup {Removed}
             /\ Harmless(p)
             /\ Kept(p)' => /\ Kept(p) /\ prospects'[p].customer # c
                            /\ \/ prospects'[p].customer = 0
                               \/ prospects'[p].customer = prospects[p].customer
  <2>1. CASE Kept(p) /\ prospects[p].customer = c
    <3>1. prospects[p] \in ProspectRow
      BY <1>0, <2>1, RowFacts
    <3>2. PICK row : row = [prospects[p] EXCEPT !.customer = 0] /\ prospects'[p] = row
      BY <1>2, <2>1
    <3>3. /\ row \in ProspectRow /\ row.customer = 0
          /\ row.who = prospects[p].who /\ row.by = prospects[p].by
          /\ row.read = prospects[p].read /\ row.edited = prospects[p].edited
      BY <3>1, <3>2 DEF ProspectRow
    <3>4. c # 0
      BY <1>0, RowFacts
    <3> QED BY <2>1, <3>2, <3>3, <3>4 DEF Harmless, Kept
  <2>2. CASE ~(Kept(p) /\ prospects[p].customer = c)
    <3>1. prospects'[p] = prospects[p]
      BY <1>2, <2>2
    <3> QED BY <1>0, <2>2, <3>1, RowFacts, SameIsHarmless DEF Kept
  <2> QED BY <2>1, <2>2
<1>4. prospects' \in Seq(ProspectRow \cup {Removed}) /\ Len(prospects') = Len(prospects)
  <2>1. prospects' = [p \in 1..Len(prospects) |-> prospects'[p]]
    BY <1>0, RowFacts DEF RemoveCustomer
  <2>2. Len(prospects) \in Nat /\ DOMAIN prospects = 1..Len(prospects)
    BY <1>0, RowFacts
  <2> QED BY <1>3, <2>1, <2>2
<1>5. agent' = agent
  BY DEF RemoveCustomer
<1>6. RowsFollow' /\ RestIsNew' /\ NoRowTwice'
  BY <1>0, <1>3, <1>4, <1>5, RowsStay
<1>7. NumberIsFree' /\ OneCustomerPerNumber'
  BY <1>0, <1>1, <1>5, CustomersStay
<1>8. Referenced'
  <2>1. ASSUME NEW p \in DOMAIN prospects, prospects'[p] # Removed
        PROVE  \/ prospects'[p].customer = 0
               \/ /\ prospects'[p].customer \in DOMAIN customers
                  /\ customers'[prospects'[p].customer] # Removed
    <3>1. /\ Kept(p) /\ prospects'[p].customer # c
          /\ \/ prospects'[p].customer = 0
             \/ prospects'[p].customer = prospects[p].customer
      BY <1>3, <2>1 DEF Kept
    <3> QED BY <1>0, <1>1, <3>1 DEF Referenced, Registered
  <2>2. DOMAIN prospects' = DOMAIN prospects
    BY <1>0, <1>4, RowFacts
  <2> QED BY <1>0, <1>1, <1>5, <2>1, <2>2 DEF Referenced, Registered, Kept
<1>9. ProspectsTypeOK'
  BY <1>0, <1>1, <1>4, <1>5, <1>8 DEF ProspectsTypeOK, Referenced, Registered, Kept
<1> QED BY <1>6, <1>7, <1>8, <1>9 DEF ProspectsIInv

-----------------------------------------------------------------------------
(* Requests that look and wait                                             *)

LEMMA BeginEditStep ==
  ASSUME ProspectsIInv, NEW r \in Agent, NEW p \in DOMAIN prospects, NEW who \in People,
         BeginEdit(r, p, who)
  PROVE  ProspectsIInv'
<1>1. p \in Nat
  BY RowFacts DEF ProspectsIInv
<1>2. [at |-> "saving", prospect |-> p, who |-> who] \in AgentState
  BY <1>1 DEF AgentState
<1> QED BY <1>2, OnlyAgent DEF BeginEdit

LEMMA BeginRemovalStep ==
  ASSUME ProspectsIInv, NEW r \in Agent, NEW p \in DOMAIN prospects, BeginRemoval(r, p)
  PROVE  ProspectsIInv'
<1>1. p \in Nat
  BY RowFacts DEF ProspectsIInv
<1>2. [at |-> "removing", prospect |-> p] \in AgentState
  BY <1>1 DEF AgentState
<1> QED BY <1>2, OnlyAgent DEF BeginRemoval

LEMMA BeginLinkingStep ==
  ASSUME ProspectsIInv, NEW r \in Agent, NEW p \in DOMAIN prospects,
         NEW c \in DOMAIN customers, BeginLinking(r, p, c)
  PROVE  ProspectsIInv'
<1>1. p \in Nat /\ c \in Nat
  BY RowFacts DEF ProspectsIInv
<1>2. [at |-> "linking", prospect |-> p, customer |-> c] \in AgentState
  BY <1>1 DEF AgentState
<1> QED BY <1>2, OnlyAgent DEF BeginLinking

LEMMA BeginCreationStep ==
  ASSUME ProspectsIInv, NEW r \in Agent, NEW p \in DOMAIN prospects \cup {0},
         NEW type \in DocumentType, NEW number \in Number,
         BeginCreation(r, p, type, number)
  PROVE  ProspectsIInv'
<1>1. p \in Nat
  BY RowFacts DEF ProspectsIInv
<1>2. [at |-> "checking", prospect |-> p, type |-> type, number |-> number]
          \in AgentState
  BY <1>1 DEF AgentState
<1> QED BY <1>2, OnlyAgent DEF BeginCreation

LEMMA CheckNumberStep ==
  ASSUME ProspectsIInv, NEW r \in Agent, CheckNumber(r)
  PROVE  ProspectsIInv'
<1> DEFINE a == agent[r]
           next == [at |-> "inserting", prospect |-> a.prospect, type |-> a.type,
                    number |-> a.number, checked |-> Len(customers)]
<1>0. ProspectsTypeOK
  BY DEF ProspectsIInv
<1>1. UNCHANGED <<prospects, customers>> /\ a.at = "checking"
  BY DEF CheckNumber
<1>2. CASE NumberKnown(a.type, a.number)
  <2>1. AgentAt(r, Resting)
    BY <1>2 DEF CheckNumber
  <2> QED BY <1>1, <2>1, RestingIsTyped, OnlyAgent DEF Resting
<1>3. CASE ~NumberKnown(a.type, a.number)
  <2>1. AgentAt(r, next)
    BY <1>3 DEF CheckNumber
  <2>2. next \in AgentState
    BY <1>0, <1>1, AgentFacts, RowFacts DEF AgentState
  <2>3. \A c \in 1..Len(customers) : Registered(c) => customers[c].number # a.number
    BY <1>0, <1>3, RowFacts DEF NumberKnown
  <2>4. Len(customers) \in Nat
    BY <1>0, RowFacts
  <2> QED BY <1>1, <2>1, <2>2, <2>3, <2>4, OnlyAgent
<1> QED BY <1>2, <1>3

LEMMA CustomerExistsStep ==
  ASSUME ProspectsIInv, NEW r \in Agent, CustomerExists(r)
  PROVE  ProspectsIInv'
<1>0. ProspectsTypeOK /\ Referenced
  BY DEF ProspectsIInv
<1>1. UNCHANGED <<prospects, customers>> /\ agent[r].at = "linking"
  BY DEF CustomerExists
<1>2. CASE Registered(agent[r].customer)
  <2>1. PICK next : next = [agent[r] EXCEPT !.at = "marking"] /\ AgentAt(r, next)
    BY <1>2 DEF CustomerExists
  <2>2. agent[r] \in AgentState
    BY <1>0, AgentFacts
  <2>3. next \in AgentState /\ next.at = "marking" /\ next.customer = agent[r].customer
    BY <1>1, <2>1, <2>2 DEF AgentState
  <2>4. agent[r].customer \in DOMAIN customers
    BY <1>0, <1>1 DEF Referenced
  <2> QED BY <1>1, <2>1, <2>3, <2>4, OnlyAgent
<1>3. CASE ~Registered(agent[r].customer)
  <2>1. AgentAt(r, Resting)
    BY <1>3 DEF CustomerExists
  <2> QED BY <1>1, <2>1, RestingIsTyped, OnlyAgent DEF Resting
<1> QED BY <1>2, <1>3

LEMMA InterruptedStep ==
  ASSUME ProspectsIInv, NEW r \in Agent, Interrupted(r)
  PROVE  ProspectsIInv'
BY RestingIsTyped, OnlyAgent DEF Interrupted, Resting

LEMMA InsertCustomerStep ==
  ASSUME ProspectsIInv, NEW r \in Agent, InsertCustomer(r)
  PROVE  ProspectsIInv'
<1> DEFINE a == agent[r]
           taken == \E c \in DOMAIN customers :
                        /\ Registered(c) /\ customers[c].type = a.type
                        /\ customers[c].number = a.number
           row == [type |-> a.type, number |-> a.number, checked |-> a.checked]
           next == IF a.prospect = 0 THEN Resting
                   ELSE [at |-> "marking", prospect |-> a.prospect,
                         customer |-> Len(customers) + 1]
<1>0. /\ ProspectsTypeOK /\ Referenced
      /\ NumberIsFree /\ OneCustomerPerNumber
      /\ RowsFollow /\ RestIsNew /\ NoRowTwice
  BY DEF ProspectsIInv
<1>1. prospects' = prospects /\ a.at = "inserting"
  BY DEF InsertCustomer
<1>2. CASE taken
  <2>1. AgentAt(r, Resting) /\ customers' = customers
    BY <1>2 DEF InsertCustomer
  <2> QED BY <1>1, <2>1, RestingIsTyped, OnlyAgent DEF Resting
<1>3. CASE ~taken
  <2>1. /\ Len(customers) < MaxCustomers
        /\ customers' = Append(customers, row) /\ AgentAt(r, next)
    BY <1>3 DEF InsertCustomer
  <2>2. /\ a.prospect \in Nat /\ a.type \in DocumentType /\ a.number \in Number
        /\ a.checked \in Nat /\ a.checked <= Len(customers)
    BY <1>0, <1>1, AgentFacts DEF NumberIsFree
  <2>3. row \in CustomerRow /\ row # Removed
    BY <2>2 DEF CustomerRow, Removed
  <2>4. /\ Len(customers) \in Nat /\ DOMAIN customers = 1..Len(customers)
        /\ customers \in Seq(CustomerRow \cup {Removed})
    BY <1>0, RowFacts DEF ProspectsTypeOK
  <2>5. /\ customers' \in Seq(CustomerRow \cup {Removed})
        /\ Len(customers') = Len(customers) + 1
        /\ DOMAIN customers' = 1..(Len(customers) + 1)
        /\ customers'[Len(customers) + 1] = row
        /\ \A c \in DOMAIN customers : customers'[c] = customers[c]
    BY <2>1, <2>3, <2>4
  <2>6. /\ next \in AgentState /\ next.at \in {"idle", "marking"}
        /\ next.at = "marking" => next.customer = Len(customers) + 1
    BY <2>2, <2>4 DEF AgentState, Resting
  <2>7. /\ agent' \in [Agent -> AgentState] /\ agent'[r] = next
        /\ \A s \in Agent : s # r => agent'[s] = agent[s]
    BY <1>0, <2>1, <2>6, AgentMoves
  <2>8. Referenced'
    BY <1>0, <1>1, <2>4, <2>5, <2>6, <2>7 DEF Referenced, Registered, Kept
  <2>9. ProspectsTypeOK'
    <3>1. Len(customers') <= MaxCustomers
      BY <2>1, <2>4, <2>5, Sizes
    <3> QED BY <1>0, <1>1, <2>5, <2>7, <2>8, <3>1 DEF ProspectsTypeOK, Referenced, Kept, Registered
  <2>10. NumberIsFree'
    <3> SUFFICES ASSUME NEW s \in Agent, agent'[s].at = "inserting"
                 PROVE  /\ agent'[s].checked <= Len(customers')
                        /\ \A c \in 1..agent'[s].checked :
                             Registered(c)' => customers'[c].number # agent'[s].number
      BY DEF NumberIsFree
    <3>1. agent'[s] = agent[s]
      BY <2>6, <2>7
    <3>2. agent[s].checked \in Nat /\ agent[s].checked <= Len(customers)
      BY <1>0, <3>1, AgentFacts DEF NumberIsFree
    <3> QED BY <1>0, <2>4, <2>5, <3>1, <3>2 DEF NumberIsFree, Registered
  <2>11. OneCustomerPerNumber'
    <3> SUFFICES ASSUME NEW d \in DOMAIN customers', NEW c \in 1..(d - 1),
                        Registered(c)', Registered(d)',
                        customers'[c].number = customers'[d].number
                 PROVE  /\ customers'[d].checked < c
                        /\ customers'[c].type # customers'[d].type
      BY DEF OneCustomerPerNumber
    <3>1. c \in DOMAIN customers /\ customers'[c] = customers[c] /\ Registered(c)
      BY <2>4, <2>5 DEF Registered
    <3>2. CASE d = Len(customers) + 1
      <4>1. customers'[d] = row
        BY <2>5, <3>2
      <4>2. ~(c \in 1..a.checked)
        BY <1>0, <1>1, <3>1, <4>1 DEF NumberIsFree
      <4> QED BY <1>3, <2>2, <2>4, <3>1, <4>1, <4>2
    <3>3. CASE d # Len(customers) + 1
      <4>1. d \in DOMAIN customers
        BY <2>4, <2>5, <3>3
      <4>2. customers'[d] = customers[d] /\ Registered(d)
        BY <2>5, <4>1 DEF Registered
      <4> QED BY <1>0, <3>1, <4>1, <4>2 DEF OneCustomerPerNumber
    <3> QED BY <3>2, <3>3
  <2>12. RowsFollow' /\ NoRowTwice'
    BY <1>0, <1>1 DEF RowsFollow, NoRowTwice, Kept
  <2>13. RestIsNew'
    BY <1>0, <1>1, <2>6, <2>7 DEF RestIsNew, Kept, Before
  <2> QED BY <2>8, <2>9, <2>10, <2>11, <2>12, <2>13 DEF ProspectsIInv
<1> QED BY <1>2, <1>3

-----------------------------------------------------------------------------
(* Rows that are added                                                     *)

LEMMA RowsAreAdded ==
  ASSUME ProspectsTypeOK, NEW rows \in Seq(ProspectRow), prospects' = prospects \o rows
  PROVE  /\ prospects' \in Seq(ProspectRow \cup {Removed})
         /\ Len(prospects') = Len(prospects) + Len(rows)
         /\ \A p \in DOMAIN prospects : prospects'[p] = prospects[p]
         /\ \A k \in 1..Len(rows) : prospects'[Len(prospects) + k] = rows[k]
<1>1. rows \in Seq(ProspectRow \cup {Removed}) /\ Len(rows) \in Nat
  OBVIOUS
<1>2. prospects \in Seq(ProspectRow \cup {Removed})
      /\ Len(prospects) \in Nat /\ DOMAIN prospects = 1..Len(prospects)
  BY RowFacts DEF ProspectsTypeOK
<1>3. /\ prospects' \in Seq(ProspectRow \cup {Removed})
      /\ Len(prospects') = Len(prospects) + Len(rows)
      /\ \A i \in 1..(Len(prospects) + Len(rows)) : prospects'[i] =
            IF i <= Len(prospects) THEN prospects[i] ELSE rows[i - Len(prospects)]
  BY <1>1, <1>2, ConcatProperties
<1>4. ASSUME NEW k \in 1..Len(rows)
      PROVE  prospects'[Len(prospects) + k] = rows[k]
  <2>1. /\ Len(prospects) + k \in 1..(Len(prospects) + Len(rows))
        /\ ~(Len(prospects) + k <= Len(prospects))
        /\ (Len(prospects) + k) - Len(prospects) = k
    BY <1>1, <1>2
  <2> QED BY <1>3, <2>1
<1>5. \A p \in DOMAIN prospects : prospects'[p] = prospects[p]
  BY <1>1, <1>2, <1>3
<1> QED BY <1>3, <1>4, <1>5

LEMMA AddProspectStep ==
  ASSUME ProspectsIInv, NEW who \in People, AddProspect(who)
  PROVE  ProspectsIInv'
<1>0. /\ ProspectsTypeOK /\ Referenced
      /\ NumberIsFree /\ OneCustomerPerNumber
      /\ RowsFollow /\ RestIsNew /\ NoRowTwice
  BY DEF ProspectsIInv
<1> DEFINE row == NewProspect(who, Blank, 0)
<1>n. PICK n : n = Len(prospects) + 1
  OBVIOUS
<1>1. row \in ProspectRow /\ row.by = Blank /\ row.read = 0 /\ row.customer = 0
      /\ row.edited = FALSE
  BY DEF NewProspect, ProspectRow
<1>2. UNCHANGED <<customers, agent>> /\ Len(prospects) < MaxProspects
  BY DEF AddProspect
<1>3. /\ Len(prospects) \in Nat /\ DOMAIN prospects = 1..Len(prospects)
      /\ prospects \in Seq(ProspectRow \cup {Removed})
  BY <1>0, RowFacts DEF ProspectsTypeOK
<1> HIDE DEF row
<1>4. /\ prospects' \in Seq(ProspectRow \cup {Removed})
      /\ Len(prospects') = n /\ DOMAIN prospects' = 1..n
      /\ prospects'[n] = row
      /\ \A p \in DOMAIN prospects : prospects'[p] = prospects[p]
  BY <1>n, <1>1, <1>3 DEF AddProspect, row
<1>5. \A p \in DOMAIN prospects' : p = n \/ p \in DOMAIN prospects
  BY <1>n, <1>3, <1>4
<1>6. Referenced'
  <2>1. \A p \in DOMAIN prospects' : Kept(p)' =>
            prospects'[p].customer = 0 \/ p \in DOMAIN prospects
    BY <1>1, <1>4, <1>5
  <2> QED BY <1>0, <1>2, <1>4, <2>1 DEF Referenced, Kept, Registered
<1>7. ProspectsTypeOK'
  BY <1>n, <1>0, <1>2, <1>3, <1>4, <1>6, Sizes DEF ProspectsTypeOK, Referenced, Kept, Registered
<1>8. NumberIsFree' /\ OneCustomerPerNumber'
  BY <1>0, <1>2 DEF NumberIsFree, OneCustomerPerNumber, Registered
<1>9. RowsFollow'
  BY <1>n, <1>0, <1>1, <1>3, <1>4, <1>5 DEF RowsFollow, Kept
<1>10. RestIsNew'
  <2> SUFFICES ASSUME NEW r \in Agent, agent[r].at = "importing"
               PROVE  /\ agent[r].read <= Len(prospects')
                      /\ \A k \in DOMAIN agent[r].todo : \A p \in DOMAIN prospects' :
                          (Kept(p)' /\ ~prospects'[p].edited /\ Before(p, r)')
                              => ~SameKey(prospects'[p].who, agent[r].todo[k])
                      /\ \A k, l \in DOMAIN agent[r].todo :
                          k # l => ~SameKey(agent[r].todo[k], agent[r].todo[l])
    BY <1>2 DEF RestIsNew
  <2>1. agent[r].read \in Nat /\ agent[r].read <= Len(prospects)
    BY <1>0, AgentFacts DEF RestIsNew
  <2>2. ~Before(n, r)'
    <3>1. row.by # r
      BY <1>1, Sizes
    <3> QED BY <1>n, <1>2, <1>3, <1>4, <2>1, <3>1 DEF Before
  <2>3. \A p \in DOMAIN prospects : (Kept(p)' <=> Kept(p)) /\ (Before(p, r)' <=> Before(p, r))
    BY <1>2, <1>4 DEF Kept, Before
  <2>4. ASSUME NEW k \in DOMAIN agent[r].todo, NEW p \in DOMAIN prospects',
               Kept(p)', ~prospects'[p].edited, Before(p, r)'
        PROVE  ~SameKey(prospects'[p].who, agent[r].todo[k])
    <3>1. p \in DOMAIN prospects
      BY <1>5, <2>2, <2>4
    <3> QED BY <1>0, <1>4, <2>3, <2>4, <3>1 DEF RestIsNew
  <2> QED BY <1>n, <1>0, <1>3, <1>4, <2>1, <2>4 DEF RestIsNew
<1>11. NoRowTwice'
  <2> SUFFICES ASSUME NEW q \in DOMAIN prospects', NEW p \in 1..(q - 1),
                      Kept(p)', Kept(q)', prospects'[q].by # Blank, ~prospects'[p].edited,
                      duplicateKeys(prospects'[p].who)
                          \cap duplicateKeys(prospects'[q].who) # {}
               PROVE  /\ prospects'[q].read < p
                      /\ <<prospects'[p].by, prospects'[p].read>>
                            # <<prospects'[q].by, prospects'[q].read>>
    BY DEF NoRowTwice
  <2>1. q \in DOMAIN prospects /\ p \in DOMAIN prospects
    BY <1>n, <1>1, <1>3, <1>4, <1>5
  <2>2. prospects'[q] = prospects[q] /\ prospects'[p] = prospects[p]
    BY <1>4, <2>1
  <2> QED BY <1>0, <2>1, <2>2 DEF NoRowTwice, Kept
<1> QED BY <1>6, <1>7, <1>8, <1>9, <1>10, <1>11 DEF ProspectsIInv

-----------------------------------------------------------------------------
(* Files                                                                   *)

(* New rows are like none of the table and like none of each other.        *)
LEMMA NewRowsAreNew ==
  ASSUME NEW file \in Seq(People)
  PROVE  LET new == NewRows(file, existingKeys(file)) IN
         /\ new \subseteq DOMAIN file /\ Cardinality(new) \in Nat
         /\ \A i \in new : \A p \in DOMAIN prospects :
                Kept(p) => ~SameKey(prospects[p].who, file[i])
         /\ \A i, j \in new : i # j => ~SameKey(file[i], file[j])
<1> DEFINE existing == existingKeys(file)
           new == NewRows(file, existing)
           before(i) == UNION {duplicateKeys(file[j]) : j \in 1..(i - 1)}
<1>1. Len(file) \in Nat /\ DOMAIN file = 1..Len(file)
  OBVIOUS
<1>2. \A i \in new : /\ i \in DOMAIN file
                     /\ duplicateKeys(file[i]) \cap existing = {}
                     /\ duplicateKeys(file[i]) \cap before(i) = {}
  BY DEF NewRows
<1>3. Cardinality(new) \in Nat
  <2>1. IsFiniteSet(1..Len(file)) /\ new \subseteq 1..Len(file)
    BY <1>1, <1>2, FS_Interval
  <2> QED BY <2>1, FS_Subset, FS_CardinalityType
<1>4. ASSUME NEW i \in new, NEW p \in DOMAIN prospects, Kept(p)
      PROVE  ~SameKey(prospects[p].who, file[i])
  <2> SUFFICES ASSUME NEW key \in duplicateKeys(prospects[p].who),
                      key \in duplicateKeys(file[i])
               PROVE  FALSE
    BY DEF SameKey
  <2>1. \/ /\ file[i].document # Blank
           /\ prospects[p].who.document = file[i].document
        \/ file[i].mail # Blank /\ prospects[p].who.mail = file[i].mail
    BY DEF duplicateKeys
  <2>2. key \in existing
    BY <1>2, <1>4, <2>1 DEF existingKeys
  <2> QED BY <1>2, <2>2
<1>5. ASSUME NEW i \in new, NEW j \in new, j < i
      PROVE  ~SameKey(file[i], file[j])
  <2>1. j \in 1..(i - 1)
    BY <1>1, <1>2, <1>5
  <2>2. duplicateKeys(file[j]) \subseteq before(i)
    BY <2>1
  <2> QED BY <1>2, <2>2 DEF SameKey
<1>6. \A i, j \in new : i # j => ~SameKey(file[i], file[j])
  <2> SUFFICES ASSUME NEW i \in new, NEW j \in new, i # j
               PROVE  ~SameKey(file[i], file[j])
    OBVIOUS
  <2>1. j < i \/ i < j
    BY <1>1, <1>2
  <2> QED BY <1>5, <2>1 DEF SameKey
<1> QED BY <1>2, <1>3, <1>4, <1>6

LEMMA BeginImportStep ==
  ASSUME ProspectsIInv, NEW r \in Agent, NEW file \in Files, BeginImport(r, file)
  PROVE  ProspectsIInv'
<1> DEFINE new == NewRows(file, existingKeys(file))
<1>0. /\ ProspectsTypeOK /\ Referenced
      /\ NumberIsFree /\ OneCustomerPerNumber
      /\ RowsFollow /\ RestIsNew /\ NoRowTwice
  BY DEF ProspectsIInv
<1>1. file \in Seq(People)
  BY Sizes
<1>2. /\ new \subseteq DOMAIN file /\ Cardinality(new) \in Nat
      /\ \A i \in new : \A p \in DOMAIN prospects :
             Kept(p) => ~SameKey(prospects[p].who, file[i])
      /\ \A i, j \in new : i # j => ~SameKey(file[i], file[j])
  BY <1>1, NewRowsAreNew
<1>3. UNCHANGED <<prospects, customers>>
  BY DEF BeginImport
<1>4. PICK places \in [1..Cardinality(new) -> new] :
        /\ Ascending(places)
        /\ AgentAt(r, [at |-> "importing", read |-> Len(prospects),
                       todo |-> [k \in DOMAIN places |-> file[places[k]]]])
  BY DEF BeginImport
<1> HIDE DEF new
<1>5. PICK todo : todo = [k \in 1..Cardinality(new) |-> file[places[k]]]
  OBVIOUS
<1>6. todo \in Seq(People) /\ DOMAIN todo = 1..Cardinality(new)
  <2>1. \A k \in 1..Cardinality(new) : file[places[k]] \in People
    BY <1>1, <1>2
  <2> QED BY <1>2, <1>5, <2>1
<1>7. /\ Len(prospects) \in Nat /\ DOMAIN prospects = 1..Len(prospects)
  BY <1>0, RowFacts
<1>8. PICK state : /\ state = [at |-> "importing", read |-> Len(prospects), todo |-> todo]
                   /\ AgentAt(r, state)
  BY <1>4, <1>5
<1>9. state \in AgentState /\ state.at = "importing"
      /\ state.read = Len(prospects) /\ state.todo = todo
  BY <1>6, <1>7, <1>8 DEF AgentState
<1>10. /\ agent' \in [Agent -> AgentState] /\ agent'[r] = state
       /\ \A s \in Agent : s # r => agent'[s] = agent[s]
  BY <1>0, <1>8, <1>9, AgentMoves
<1>11. \A k \in DOMAIN todo : todo[k] = file[places[k]] /\ places[k] \in new
  BY <1>5, <1>6
<1>12. \A k, l \in DOMAIN todo : k # l => ~SameKey(todo[k], todo[l])
  <2> SUFFICES ASSUME NEW k \in DOMAIN todo, NEW l \in DOMAIN todo, k # l
               PROVE  ~SameKey(todo[k], todo[l])
    OBVIOUS
  <2>1. places[k] \in Nat /\ places[l] \in Nat
    BY <1>1, <1>2, <1>11
  <2>2. places[k] # places[l]
    <3>1. k < l \/ l < k
      BY <1>2, <1>6
    <3>2. places[k] < places[l] \/ places[l] < places[k]
      BY <1>4, <1>6, <3>1 DEF Ascending
    <3> QED BY <2>1, <3>2
  <2> QED BY <1>2, <1>11, <2>2
<1>13. ProspectsTypeOK' /\ Referenced'
  BY <1>0, <1>3, <1>9, <1>10 DEF ProspectsTypeOK, Referenced, Kept, Registered
<1>14. NumberIsFree' /\ OneCustomerPerNumber'
  BY <1>0, <1>3, <1>9, <1>10 DEF NumberIsFree, OneCustomerPerNumber, Registered
<1>15. RowsFollow' /\ NoRowTwice'
  BY <1>0, <1>3 DEF RowsFollow, NoRowTwice, Kept
<1>16. RestIsNew'
  <2> SUFFICES ASSUME NEW s \in Agent, agent'[s].at = "importing"
               PROVE  /\ agent'[s].read <= Len(prospects')
                      /\ \A k \in DOMAIN agent'[s].todo : \A p \in DOMAIN prospects' :
                          (Kept(p)' /\ ~prospects'[p].edited /\ Before(p, s)')
                              => ~SameKey(prospects'[p].who, agent'[s].todo[k])
                      /\ \A k, l \in DOMAIN agent'[s].todo :
                          k # l => ~SameKey(agent'[s].todo[k], agent'[s].todo[l])
    BY DEF RestIsNew
  <2>1. CASE s = r
    <3>1. \A k \in DOMAIN todo : \A p \in DOMAIN prospects :
            Kept(p) => ~SameKey(prospects[p].who, todo[k])
      BY <1>2, <1>11
    <3> QED BY <1>3, <1>7, <1>9, <1>10, <1>12, <2>1, <3>1 DEF Kept
  <2>2. CASE s # r
    BY <1>0, <1>3, <1>10, <2>2 DEF RestIsNew, Kept, Before
  <2> QED BY <2>1, <2>2
<1> QED BY <1>13, <1>14, <1>15, <1>16 DEF ProspectsIInv

LEMMA LengthOfRest ==
  ASSUME NEW size \in Nat, NEW length \in Nat, size <= length, size # length
  PROVE  /\ size + 1 <= length /\ length - (size + 1) + 1 = length - size
         /\ length - size \in Nat
         /\ \A k \in Nat : (size + 1) + k - 1 = size + k
OBVIOUS

LEMMA InsertChunkStep ==
  ASSUME ProspectsIInv, NEW r \in Agent, InsertChunk(r)
  PROVE  ProspectsIInv'
<1>0. /\ ProspectsTypeOK /\ Referenced
      /\ NumberIsFree /\ OneCustomerPerNumber
      /\ RowsFollow /\ RestIsNew /\ NoRowTwice
  BY DEF ProspectsIInv
<1>1. PICK todo, read, n : todo = agent[r].todo /\ read = agent[r].read /\ n = Len(prospects)
  OBVIOUS
<1>2. /\ agent[r].at = "importing" /\ customers' = customers
      /\ todo \in Seq(People) /\ read \in Nat /\ read <= n
      /\ Len(todo) \in Nat /\ DOMAIN todo = 1..Len(todo)
      /\ n \in Nat /\ DOMAIN prospects = 1..n
  BY <1>0, <1>1, AgentFacts, RowFacts DEF InsertChunk, RestIsNew
<1>3. PICK size : size = IF Len(todo) < ChunkSize THEN Len(todo) ELSE ChunkSize
  OBVIOUS
<1>4. size \in Nat /\ size <= Len(todo)
  BY <1>2, <1>3, Sizes
<1>5. /\ n + size <= MaxProspects
      /\ prospects' = prospects \o [k \in 1..size |-> NewProspect(todo[k], r, read)]
      /\ AgentAt(r, IF size = Len(todo) THEN Resting
                    ELSE [agent[r] EXCEPT !.todo = SubSeq(todo, size + 1, Len(todo))])
  BY <1>1, <1>3 DEF InsertChunk
<1>6. PICK rows : rows = [k \in 1..size |-> NewProspect(todo[k], r, read)]
  OBVIOUS
<1>7. /\ rows \in Seq(ProspectRow) /\ Len(rows) = size
      /\ \A k \in 1..size :
            /\ rows[k].who = todo[k] /\ rows[k].by = r
            /\ rows[k].read = read /\ rows[k].customer = 0
            /\ rows[k] # Removed
  <2>1. ASSUME NEW k \in 1..size
        PROVE  /\ rows[k] \in ProspectRow
               /\ rows[k].who = todo[k] /\ rows[k].by = r
               /\ rows[k].read = read /\ rows[k].customer = 0
    <3>1. todo[k] \in People
      BY <1>2, <1>4
    <3>2. rows[k] = NewProspect(todo[k], r, read)
      BY <1>6
    <3> QED BY <1>2, <3>1, <3>2 DEF NewProspect, ProspectRow
  <2>2. DOMAIN rows = 1..size
    BY <1>6
  <2>3. rows \in Seq(ProspectRow) /\ Len(rows) = size
    <3>1. rows \in [1..size -> ProspectRow]
      BY <1>6, <2>1, <2>2
    <3> QED BY <1>4, <2>2, <3>1
  <2> QED BY <2>1, <2>3, RowIsKept
<1>8. /\ prospects' \in Seq(ProspectRow \cup {Removed})
      /\ Len(prospects') = n + size /\ DOMAIN prospects' = 1..(n + size)
      /\ \A p \in 1..n : prospects'[p] = prospects[p]
      /\ \A k \in 1..size : prospects'[n + k] = rows[k]
  <2>1. prospects' = prospects \o rows
    BY <1>5, <1>6
  <2>2. /\ prospects' \in Seq(ProspectRow \cup {Removed})
        /\ Len(prospects') = Len(prospects) + Len(rows)
        /\ \A p \in DOMAIN prospects : prospects'[p] = prospects[p]
        /\ \A k \in 1..Len(rows) : prospects'[Len(prospects) + k] = rows[k]
    BY <1>0, <1>7, <2>1, RowsAreAdded
  <2>3. Len(prospects') = n + size /\ DOMAIN prospects' = 1..Len(prospects')
    BY <1>1, <1>7, <2>2
  <2> QED BY <1>1, <1>2, <1>7, <2>2, <2>3
<1>9. \A k \in 1..size :
        /\ prospects'[n + k].who = todo[k] /\ prospects'[n + k].by = r
        /\ prospects'[n + k].read = read /\ prospects'[n + k].customer = 0
        /\ prospects'[n + k] # Removed
  BY <1>7, <1>8
<1>10. \A p \in DOMAIN prospects' : p \in 1..n \/ \E k \in 1..size : p = n + k
  <2> SUFFICES ASSUME NEW p \in DOMAIN prospects', p \notin 1..n
               PROVE  \E k \in 1..size : p = n + k
    OBVIOUS
  <2>1. p - n \in 1..size /\ p = n + (p - n)
    BY <1>2, <1>4, <1>8
  <2> QED BY <2>1
(* The request rests, or goes on with the rest of its rows.                *)
<1>11. PICK state \in AgentState :
        /\ agent' \in [Agent -> AgentState] /\ agent'[r] = state
        /\ \A s \in Agent : s # r => agent'[s] = agent[s]
        /\ state.at \in {"idle", "importing"}
        /\ state.at = "importing" =>
              /\ state.read = read
              /\ \A k \in DOMAIN state.todo : /\ size + k \in DOMAIN todo /\ k \in Nat
                                              /\ k # 0 /\ state.todo[k] = todo[size + k]
  <2>1. CASE size = Len(todo)
    <3>1. AgentAt(r, Resting) /\ Resting.at = "idle"
      BY <1>5, <2>1 DEF Resting
    <3> QED BY <1>0, <3>1, RestingIsTyped, AgentMoves
  <2>2. CASE size # Len(todo)
    <3>1. PICK rest : rest = SubSeq(todo, size + 1, Len(todo))
      OBVIOUS
    <3>2. /\ rest \in Seq(People) /\ Len(rest) = Len(todo) - size
          /\ \A k \in 1..(Len(todo) - size) : rest[k] = todo[size + k]
      <4>1. \A i \in (size + 1)..Len(todo) : todo[i] \in People
        BY <1>2, <1>4
      <4>2. /\ rest \in Seq(People)
            /\ Len(rest) = IF size + 1 <= Len(todo) THEN Len(todo) - (size + 1) + 1 ELSE 0
            /\ \A k \in 1..(Len(todo) - (size + 1) + 1) : rest[k] = todo[(size + 1) + k - 1]
        BY <1>2, <1>4, <3>1, <4>1, SubSeqProperties
      <4>3. /\ size + 1 <= Len(todo) /\ Len(todo) - (size + 1) + 1 = Len(todo) - size
            /\ Len(todo) - size \in Nat
            /\ \A k \in Nat : (size + 1) + k - 1 = size + k
        BY <1>2, <1>4, <2>2, LengthOfRest
      <4>4. ASSUME NEW k \in 1..(Len(todo) - size)
            PROVE  rest[k] = todo[size + k]
        <5>1. k \in Nat /\ rest[k] = todo[(size + 1) + k - 1]
          BY <4>2, <4>3
        <5> QED BY <4>3, <5>1
      <4> QED BY <4>2, <4>3, <4>4
    <3>3. PICK state : /\ state = [agent[r] EXCEPT !.todo = rest]
                       /\ AgentAt(r, state)
      BY <1>5, <2>2, <3>1
    <3>4. agent[r] \in AgentState
      BY <1>0, AgentFacts
    <3>5. /\ state \in AgentState /\ state.at = "importing"
          /\ state.read = read /\ state.todo = rest
      BY <1>1, <1>2, <3>2, <3>3, <3>4 DEF AgentState
    <3>6. \A k \in DOMAIN rest : /\ size + k \in DOMAIN todo /\ k \in Nat
                                 /\ k # 0 /\ rest[k] = todo[size + k]
      BY <1>2, <1>4, <3>2
    <3>7. /\ agent' \in [Agent -> AgentState] /\ agent'[r] = state
          /\ \A s \in Agent : s # r => agent'[s] = agent[s]
      BY <1>0, <3>3, <3>5, AgentMoves
    <3> QED BY <3>5, <3>6, <3>7
  <2> QED BY <2>1, <2>2
<1>12. Referenced'
  <2>1. ASSUME NEW p \in DOMAIN prospects', Kept(p)'
        PROVE  \/ prospects'[p].customer = 0
               \/ /\ prospects'[p].customer \in DOMAIN customers
                  /\ customers[prospects'[p].customer] # Removed
    <3>1. CASE p \in 1..n
      BY <1>0, <1>2, <1>8, <2>1, <3>1 DEF Referenced, Kept, Registered
    <3>2. CASE \E k \in 1..size : p = n + k
      BY <1>9, <3>2
    <3> QED BY <1>10, <3>1, <3>2
  <2> QED BY <1>0, <1>2, <1>11, <2>1 DEF Referenced, Kept, Registered
<1>13. ProspectsTypeOK'
  BY <1>0, <1>2, <1>5, <1>8, <1>11, <1>12 DEF ProspectsTypeOK, Referenced, Kept, Registered
<1>14. NumberIsFree' /\ OneCustomerPerNumber'
  BY <1>0, <1>2, <1>11 DEF NumberIsFree, OneCustomerPerNumber, Registered
<1>15. RowsFollow'
  <2> SUFFICES ASSUME NEW p \in DOMAIN prospects', Kept(p)', prospects'[p].by # Blank
               PROVE  prospects'[p].read < p
    BY DEF RowsFollow
  <2>1. CASE p \in 1..n
    BY <1>0, <1>2, <1>8, <2>1 DEF RowsFollow, Kept
  <2>2. CASE \E k \in 1..size : p = n + k
    BY <1>2, <1>9, <2>2
  <2> QED BY <1>10, <2>1, <2>2
<1>16. \A k, l \in DOMAIN todo : k # l => ~SameKey(todo[k], todo[l])
  BY <1>0, <1>1, <1>2 DEF RestIsNew
<1>17. \A k \in DOMAIN todo : \A p \in 1..n :
         (Kept(p) /\ ~prospects[p].edited /\ Before(p, r)) => ~SameKey(prospects[p].who, todo[k])
  BY <1>0, <1>1, <1>2 DEF RestIsNew
<1>18. RestIsNew'
  <2> SUFFICES ASSUME NEW s \in Agent, agent'[s].at = "importing"
               PROVE  /\ agent'[s].read <= Len(prospects')
                      /\ \A k \in DOMAIN agent'[s].todo : \A p \in DOMAIN prospects' :
                          (Kept(p)' /\ ~prospects'[p].edited /\ Before(p, s)')
                              => ~SameKey(prospects'[p].who, agent'[s].todo[k])
                      /\ \A k, l \in DOMAIN agent'[s].todo :
                          k # l => ~SameKey(agent'[s].todo[k], agent'[s].todo[l])
    BY DEF RestIsNew
  <2>1. CASE s = r
    <3>1. /\ agent'[s] = state /\ state.read = read
          /\ \A k \in DOMAIN state.todo : /\ size + k \in DOMAIN todo /\ k \in Nat
                                          /\ k # 0 /\ state.todo[k] = todo[size + k]
      BY <1>11, <2>1
    <3>2. ASSUME NEW k \in DOMAIN state.todo, NEW p \in DOMAIN prospects',
                 Kept(p)', ~prospects'[p].edited, Before(p, s)'
          PROVE  ~SameKey(prospects'[p].who, state.todo[k])
      <4>1. CASE p \in 1..n
        <5>1. Kept(p) /\ ~prospects[p].edited /\ Before(p, r)
              /\ prospects'[p].who = prospects[p].who
          BY <1>1, <1>8, <2>1, <3>1, <3>2, <4>1 DEF Kept, Before
        <5> QED BY <1>17, <3>1, <4>1, <5>1
      <4>2. CASE \E j \in 1..size : p = n + j
        <5>1. PICK j \in 1..size : p = n + j
          BY <4>2
        <5>2. prospects'[p].who = todo[j] /\ j \in DOMAIN todo /\ j # size + k
          BY <1>2, <1>4, <1>9, <3>1, <5>1
        <5> QED BY <1>16, <3>1, <5>2
      <4> QED BY <1>10, <4>1, <4>2
    <3>3. \A k, l \in DOMAIN state.todo : k # l => ~SameKey(state.todo[k], state.todo[l])
      BY <1>4, <1>16, <3>1
    <3>4. read <= Len(prospects')
      BY <1>2, <1>4, <1>8
    <3> QED BY <3>1, <3>2, <3>3, <3>4
  <2>2. CASE s # r
    <3>1. agent'[s] = agent[s]
      BY <1>11, <2>2
    <3>2. agent[s].read \in Nat /\ agent[s].read <= n
      BY <1>0, <1>1, <3>1, AgentFacts DEF RestIsNew
    <3>3. ASSUME NEW k \in DOMAIN agent[s].todo, NEW p \in DOMAIN prospects',
                 Kept(p)', ~prospects'[p].edited, Before(p, s)'
          PROVE  ~SameKey(prospects'[p].who, agent[s].todo[k])
      <4>1. p \in 1..n
        <5> SUFFICES ASSUME NEW j \in 1..size, p = n + j PROVE FALSE
          BY <1>10
        <5> QED BY <1>2, <1>9, <2>2, <3>1, <3>2, <3>3 DEF Before
      <4>2. Kept(p) /\ ~prospects[p].edited /\ Before(p, s)
            /\ prospects'[p].who = prospects[p].who
        BY <1>8, <3>1, <3>3, <4>1 DEF Kept, Before
      <4> QED BY <1>0, <1>2, <3>1, <4>1, <4>2 DEF RestIsNew
    <3>4. agent[s].read <= Len(prospects')
      BY <1>2, <1>4, <1>8, <3>2
    <3> QED BY <1>0, <3>1, <3>3, <3>4 DEF RestIsNew
  <2> QED BY <2>1, <2>2
<1>19. NoRowTwice'
  <2> SUFFICES ASSUME NEW q \in DOMAIN prospects', NEW p \in 1..(q - 1),
                      Kept(p)', Kept(q)', prospects'[q].by # Blank, ~prospects'[p].edited,
                      SameKey(prospects'[p].who, prospects'[q].who)
               PROVE  /\ prospects'[q].read < p
                      /\ <<prospects'[p].by, prospects'[p].read>>
                            # <<prospects'[q].by, prospects'[q].read>>
    BY DEF NoRowTwice, SameKey
  <2>1. p \in DOMAIN prospects' /\ q \in Nat /\ p < q
    BY <1>2, <1>4, <1>8
  <2>2. CASE q \in 1..n
    <3>1. p \in 1..n /\ q \in DOMAIN prospects
      BY <1>2, <2>1, <2>2
    <3>2. prospects'[p] = prospects[p] /\ prospects'[q] = prospects[q]
      BY <1>8, <2>2, <3>1
    <3> QED BY <1>0, <3>1, <3>2 DEF NoRowTwice, SameKey, Kept
  <2>3. CASE \E k \in 1..size : q = n + k
    <3>1. PICK k \in 1..size : q = n + k
      BY <2>3
    <3>2. /\ prospects'[q].who = todo[k] /\ prospects'[q].by = r
          /\ prospects'[q].read = read /\ k \in DOMAIN todo
      <4>1. k \in DOMAIN todo
        BY <1>2, <1>4
      <4> QED BY <1>9, <3>1, <4>1
    <3>3. CASE p \in 1..n
      <4>1. prospects'[p] = prospects[p] /\ Kept(p) /\ ~prospects[p].edited
        BY <1>8, <3>3 DEF Kept
      <4>2. ~Before(p, r)
        BY <1>17, <3>2, <3>3, <4>1
      <4>3. p \in Nat /\ ~(p <= read)
        BY <1>1, <3>3, <4>2 DEF Before
      <4>4. ~(prospects[p].by = r /\ prospects[p].read = read)
        BY <1>1, <4>2 DEF Before
      <4> QED BY <1>2, <3>2, <4>1, <4>3, <4>4
    <3>4. CASE \E j \in 1..size : p = n + j
      <4>1. PICK j \in 1..size : p = n + j
        BY <3>4
      <4>2. prospects'[p].who = todo[j] /\ j \in DOMAIN todo /\ j # k
        BY <1>2, <1>4, <1>9, <2>1, <3>1, <4>1
      <4> QED BY <1>16, <3>2, <4>2
    <3> QED BY <1>10, <2>1, <3>3, <3>4
  <2> QED BY <1>10, <2>2, <2>3
<1> QED BY <1>12, <1>13, <1>14, <1>15, <1>18, <1>19 DEF ProspectsIInv

LEMMA ProspectsStart == ProspectsInit => ProspectsIInv
<1> SUFFICES ASSUME ProspectsInit PROVE ProspectsIInv
  OBVIOUS
<1>1. prospects = <<>> /\ customers = <<>> /\ agent = [r \in Agent |-> Resting]
  BY DEF ProspectsInit
<1>2. \A r \in Agent : agent[r] = Resting /\ agent[r].at = "idle"
  BY <1>1 DEF Resting
<1>3. agent \in [Agent -> AgentState]
  BY <1>1, RestingIsTyped
<1>4. DOMAIN prospects = {} /\ DOMAIN customers = {}
  BY <1>1
<1>5. Len(prospects) = 0 /\ Len(customers) = 0
  BY <1>1
<1>6. /\ prospects \in Seq(ProspectRow \cup {Removed})
      /\ customers \in Seq(CustomerRow \cup {Removed})
  BY <1>1
<1>7. ProspectsTypeOK
  BY <1>3, <1>4, <1>5, <1>6, Sizes DEF ProspectsTypeOK
<1>8. Referenced /\ NumberIsFree /\ RestIsNew
  BY <1>2, <1>4 DEF Referenced, NumberIsFree, RestIsNew
<1>9. OneCustomerPerNumber /\ RowsFollow /\ NoRowTwice
  BY <1>4 DEF OneCustomerPerNumber, RowsFollow, NoRowTwice
<1> QED BY <1>7, <1>8, <1>9 DEF ProspectsIInv

(* Whatever requests are served together, whichever fail and however often *)
(* the process restarts: what the requests in progress rely on stays true  *)
(* of the rows.                                                            *)
THEOREM ProspectsAreSound == ProspectsSpec => []ProspectsIInv
<1>1. ProspectsIInv /\ [ProspectsNext]_prospectVars => ProspectsIInv'
  <2> SUFFICES ASSUME ProspectsIInv, [ProspectsNext]_prospectVars
               PROVE  ProspectsIInv'
    OBVIOUS
  <2>1. ASSUME NEW who \in People, AddProspect(who)
        PROVE  ProspectsIInv'
    BY <2>1, AddProspectStep
  <2>2. ASSUME NEW c \in DOMAIN customers, RemoveCustomer(c)
        PROVE  ProspectsIInv'
    BY <2>2, RemoveCustomerStep
  <2>3. ASSUME NEW r \in Agent, NEW p \in DOMAIN prospects, BeginRemoval(r, p)
        PROVE  ProspectsIInv'
    BY <2>3, BeginRemovalStep
  <2>4. ASSUME NEW r \in Agent, NEW p \in DOMAIN prospects, NEW who \in People,
               BeginEdit(r, p, who)
        PROVE  ProspectsIInv'
    BY <2>4, BeginEditStep
  <2>5. ASSUME NEW r \in Agent, NEW p \in DOMAIN prospects, NEW c \in DOMAIN customers,
               BeginLinking(r, p, c)
        PROVE  ProspectsIInv'
    BY <2>5, BeginLinkingStep
  <2>6. ASSUME NEW r \in Agent, NEW p \in DOMAIN prospects \cup {0},
               NEW type \in DocumentType, NEW number \in Number,
               BeginCreation(r, p, type, number)
        PROVE  ProspectsIInv'
    BY <2>6, BeginCreationStep
  <2>7. ASSUME NEW r \in Agent, NEW file \in Files, BeginImport(r, file)
        PROVE  ProspectsIInv'
    BY <2>7, BeginImportStep
  <2>8. ASSUME NEW r \in Agent,
               SaveEdit(r) \/ RemoveProspect(r) \/ CheckNumber(r) \/ InsertCustomer(r)
        PROVE  ProspectsIInv'
    BY <2>8, SaveEditStep, RemoveProspectStep, CheckNumberStep, InsertCustomerStep
  <2>9. ASSUME NEW r \in Agent,
               CustomerExists(r) \/ MarkConverted(r) \/ InsertChunk(r) \/ Interrupted(r)
        PROVE  ProspectsIInv'
    BY <2>9, CustomerExistsStep, MarkConvertedStep, InsertChunkStep, InterruptedStep
  <2>10. CASE UNCHANGED prospectVars
    BY <2>10 DEF prospectVars, ProspectsIInv, ProspectsTypeOK, Referenced, NumberIsFree,
        OneCustomerPerNumber, RowsFollow, RestIsNew, NoRowTwice, Before, Kept, Registered
  <2> QED BY <2>1, <2>2, <2>3, <2>4, <2>5, <2>6, <2>7, <2>8, <2>9, <2>10 DEF ProspectsNext
<1> QED BY <1>1, ProspectsStart, PTL DEF ProspectsSpec

(* Conversions, the panel and n8n give two customers one number only when  *)
(* the second was being created as the first was inserted, and then under  *)
(* documents of different types.                                           *)
THEOREM OneNumberOneCustomer == ProspectsSpec => []OneCustomerPerNumber
<1>1. ProspectsIInv => OneCustomerPerNumber
  BY DEF ProspectsIInv
<1> QED BY <1>1, ProspectsAreSound, PTL

(* However often files are uploaded, of whatever length and in whatever    *)
(* chunks, whole or interrupted, together or one after another, nobody is  *)
(* imported beside a row with the same key that was there before.          *)
THEOREM NobodyTwice == ProspectsSpec => []NoRowTwice
<1>1. ProspectsIInv => NoRowTwice
  BY DEF ProspectsIInv
<1> QED BY <1>1, ProspectsAreSound, PTL

-----------------------------------------------------------------------------
(* The composition                                                         *)

(* A step of the composition is one of a part, for which the others wait.  *)
LEMMA OrdersAndAccrualsStep ==
  [OrdersAndAccrualsNext]_<<moving, orderVars, vars, prospectVars, browserVars>> =>
    /\ [OrdersNext]_orderVars /\ [Next]_vars
    /\ [ProspectsNext]_prospectVars /\ [BrowserNext]_browserVars
BY DEF OrdersAndAccrualsNext

(* Whatever is proved of the parts holds of what MCOrdersAndAccruals runs: *)
(* seen from any of them, a behaviour of the composition is one of the     *)
(* part.                                                                   *)
THEOREM OrdersAndAccrualsAreTheirParts ==
  OrdersAndAccrualsSpec => OrdersSpec /\ Spec /\ ProspectsSpec /\ BrowserSpec
<1>1. OrdersAndAccrualsInit => OrdersInit /\ Init /\ ProspectsInit /\ BrowserInit
  BY DEF OrdersAndAccrualsInit
<1> QED BY <1>1, OrdersAndAccrualsStep, PTL
           DEF OrdersAndAccrualsSpec, OrdersSpec, Spec, ProspectsSpec, BrowserSpec

(* Orders, prospects, files and tabs have the declared shapes.             *)
THEOREM OrdersAndTabsTypes == OrdersAndAccrualsSpec => []OrdersAndTabsTypeOK
<1>1. OrdersIInv /\ ProspectsIInv /\ BrowserIInv => OrdersAndTabsTypeOK
  BY DEF OrdersIInv, ProspectsIInv, BrowserIInv, OrdersAndTabsTypeOK
<1> QED BY <1>1, OrdersAndAccrualsAreTheirParts, OrdersAreSound, ProspectsAreSound,
           SessionsAreSound, PTL
=============================================================================
