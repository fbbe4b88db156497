---------------------------- MODULE BrowserSession ----------------------------
(***************************************************************************)
(* A session of one browser and the tabs that share it.                    *)
(*                                                                         *)
(*   apps/web/src/auth/useSessionSecurity.ts                               *)
(*   apps/web/src/shell/AppShell.tsx (logout)                              *)
(*   apps/api/src/auth/auth.guard.ts, auth.service.ts (session)            *)
(*                                                                         *)
(* Moments are ages: how long ago something happened, up to the limit that *)
(* it is compared with.  Every tab keeps the moment of the last activity   *)
(* it knows of and tells the others through localStorage, whose events     *)
(* reach them later; the server keeps the moment of the last renewal.  The *)
(* clock is coarse: answers and events arrive before it moves on.          *)
(***************************************************************************)
EXTENDS Naturals, FiniteSets

CONSTANTS
    Tab,
    WriteEvery,     \* ACTIVITY_WRITE_INTERVAL_MS
    RefreshEvery,   \* SESSION_REFRESH_INTERVAL_MS
    UpdateAge,      \* updateAge: younger renewals are not renewed
    IdleLimit,      \* IDLE_TIMEOUT_MS, and expiresIn of the server
    AbsoluteLimit   \* ABSOLUTE_TIMEOUT_MS of the tab and of the server

BrowserAssumption ==
    {WriteEvery, RefreshEvery, UpdateAge, IdleLimit, AbsoluteLimit}
        \subseteq Nat \ {0}
ASSUME BrowserAssumption

VARIABLES
    session,    \* the row of sessions, and the ages of its creation and renewal
    tab,        \* what each tab knows
    stored,     \* the activity in localStorage, or Nothing
    news,       \* storage events that a tab has not handled
    quiet,      \* the age of the last activity in any tab
    odd         \* what happened that documents do not speak of

browserVars == <<session, tab, stored, news, quiet, odd>>

Nothing == IdleLimit + 1
Shut == [at |-> "closed"]
Open(t) == tab[t].at = "open"
TabState ==
    [at : {"closed", "opening"}] \cup
    [at : {"leaving", "left"},
     why : {"absolute", "idle", "signed-out", "asked"}] \cup
    [at : {"open"}, seen : 0..IdleLimit, written : 0..WriteEvery,
     refreshed : 0..RefreshEvery, asking : BOOLEAN, late : BOOLEAN]

BrowserInit ==
    /\ session = [live |-> TRUE, created |-> 0, renewed |-> 0]
    /\ tab = [t \in Tab |-> Shut]
    /\ stored = Nothing
    /\ news = [t \in Tab |-> {}]
    /\ quiet = 0
    /\ odd = [lost |-> FALSE, refused |-> FALSE, failed |-> FALSE]

-----------------------------------------------------------------------------
(* The server *)

Valid == session.live /\ session.renewed < IdleLimit
(* getSession renews what was renewed long enough ago.                     *)
Renewed(s) == IF s.renewed >= UpdateAge THEN [s EXCEPT !.renewed = 0] ELSE s
Ended == [session EXCEPT !.live = FALSE]

(* A request of a page, through the guard, which knows the absolute limit. *)
BackgroundCall(t) ==
    /\ Open(t) /\ Valid
    /\ session' =
            IF session.created >= AbsoluteLimit THEN Ended ELSE Renewed(session)
    /\ UNCHANGED <<tab, stored, news, quiet, odd>>

(* An administrator changes the user's access.                             *)
Revoke ==
    /\ session.live
    /\ session' = Ended
    /\ UNCHANGED <<tab, stored, news, quiet, odd>>

-----------------------------------------------------------------------------
(* The tabs *)

(* Events of localStorage reach every tab but the one that wrote.          *)
Told(t, event) ==
    [u \in Tab |-> IF u # t /\ Open(u) THEN news[u] \cup {event} ELSE news[u]]
storeActivity(t, age) == stored' = age /\ news' = Told(t, "written")
(* Nothing is told of a key that was not there.                            *)
clearSessionActivity(t) ==
    IF stored = Nothing THEN stored' = stored /\ news' = [news EXCEPT ![t] = {}]
    ELSE stored' = Nothing /\ news' = [Told(t, "removed") EXCEPT ![t] = {}]

endSession(t, why) ==
    /\ tab' = [tab EXCEPT ![t] = [at |-> "leaving", why |-> why]]
    /\ clearSessionActivity(t)

AskToOpen(t) ==
    /\ tab[t].at \in {"closed", "left"} /\ Valid
    /\ session' = Renewed(session)
    /\ tab' = [tab EXCEPT ![t] = [at |-> "opening"]]
    /\ UNCHANGED <<stored, news, quiet, odd>>

(* The page appears; it takes the activity that another tab has stored.    *)
Mount(t) ==
    /\ tab[t].at = "opening"
    /\ tab' = [tab EXCEPT ![t] =
            [at |-> "open", seen |-> IF stored = Nothing THEN 0 ELSE stored,
             written |-> WriteEvery, refreshed |-> 0, asking |-> FALSE,
             late |-> ~session.live]]
    /\ IF stored = Nothing THEN storeActivity(t, 0) /\ quiet' = 0
       ELSE UNCHANGED <<stored, news, quiet>>
    /\ UNCHANGED <<session, odd>>

hasExpired(t) == session.created >= AbsoluteLimit \/ tab[t].seen >= IdleLimit
Reason == IF session.created >= AbsoluteLimit THEN "absolute" ELSE "idle"

(* checkTimeouts, every fifteen seconds                                    *)
CheckTimeouts(t) ==
    /\ Open(t) /\ hasExpired(t)
    /\ endSession(t, Reason)
    /\ UNCHANGED <<session, quiet, odd>>

(* recordActivity: a key, a pointer, a tab that is looked at again.        *)
RecordActivity(t) ==
    /\ Open(t) /\ ~hasExpired(t)
    /\ LET refreshes == tab[t].refreshed >= RefreshEvery
           writes == tab[t].written >= WriteEvery
       IN  /\ tab' = [tab EXCEPT
                ![t].seen = 0,
                ![t].asking = @ \/ refreshes,
                ![t].refreshed = IF refreshes THEN 0 ELSE @,
                ![t].written = IF writes THEN 0 ELSE @]
           /\ IF writes THEN storeActivity(t, 0) ELSE UNCHANGED <<stored, news>>
    /\ quiet' = 0
    /\ UNCHANGED <<session, odd>>

(* The answer to refreshServerSession: without a session, it was idle.     *)
RefreshAnswered(t) ==
    /\ Open(t) /\ tab[t].asking
    /\ IF Valid THEN /\ session' = Renewed(session)
                     /\ tab' = [tab EXCEPT ![t].asking = FALSE]
                     /\ UNCHANGED <<stored, news>>
       ELSE endSession(t, "idle") /\ UNCHANGED session
    /\ UNCHANGED <<quiet, odd>>

(* An error status has no data either.                                     *)
RefreshRefused(t) ==
    /\ Open(t) /\ tab[t].asking
    /\ endSession(t, "idle")
    /\ odd' = [odd EXCEPT !.refused = TRUE]
    /\ UNCHANGED <<session, quiet>>

RefreshLost(t) ==
    /\ Open(t) /\ tab[t].asking
    /\ odd' = [odd EXCEPT !.lost = TRUE]
    /\ tab' = [tab EXCEPT ![t].asking = FALSE]
    /\ UNCHANGED <<session, stored, news, quiet>>

SlipHandleWritten(t) == UNCHANGED tab
SlipHandleRemoved(t) ==
    UNCHANGED <<tab, stored>> /\ news' = [news EXCEPT ![t] = @ \ {"removed"}]

(* handleStorage: what is stored by now counts, or that it was removed.    *)
HandleWritten(t) ==
    tab' = [tab EXCEPT ![t].seen = IF stored < @ THEN stored ELSE @]
HandleRemoved(t) == endSession(t, "signed-out")

HandleStorage(t) ==
    /\ Open(t)
    /\ \/ /\ "written" \in news[t]
          /\ HandleWritten(t)
          /\ news' = [news EXCEPT ![t] = @ \ {"written"}]
          /\ UNCHANGED stored
       \/ "removed" \in news[t] /\ HandleRemoved(t)
    /\ UNCHANGED <<session, quiet, odd>>

(* The button.  What the tab still does until it leaves, logout undoes.    *)
Logout(t) ==
    /\ Open(t)
    /\ tab' = [tab EXCEPT ![t] = [at |-> "leaving", why |-> "asked"]]
    /\ news' = [news EXCEPT ![t] = {}]
    /\ UNCHANGED <<session, stored, quiet, odd>>

(* signOut was processed, or (failed) did not arrive; then `finally'.      *)
LeaveTab(t, arrives) ==
    /\ tab[t].at = "leaving"
    /\ session' = IF arrives THEN Ended ELSE session
    /\ odd' = [odd EXCEPT !.failed = @ \/ ~arrives]
    /\ clearSessionActivity(t)
    /\ tab' = [tab EXCEPT ![t].at = "left"]
    /\ UNCHANGED quiet

(* A renewal that was asked for is answered or lost before that.           *)
CloseTab(t) ==
    /\ Open(t) /\ ~tab[t].asking
    /\ tab' = [tab EXCEPT ![t] = Shut]
    /\ news' = [news EXCEPT ![t] = {}]
    /\ UNCHANGED <<session, stored, quiet, odd>>

-----------------------------------------------------------------------------
Older(age, limit) == IF age < limit THEN age + 1 ELSE limit

Settled ==
    \A t \in Tab :
        /\ tab[t].at \notin {"opening", "leaving"}
        /\ Open(t) => news[t] = {} /\ ~tab[t].asking /\ ~hasExpired(t)

(* Time passes when everything that was due has happened.                  *)
Tick ==
    /\ Settled
    /\ session' = [session EXCEPT !.created = Older(@, AbsoluteLimit),
                                  !.renewed = Older(@, IdleLimit)]
    /\ tab' = [t \in Tab |-> IF ~Open(t) THEN tab[t] ELSE
            [tab[t] EXCEPT !.seen = Older(@, IdleLimit),
                           !.written = Older(@, WriteEvery),
                           !.refreshed = Older(@, RefreshEvery)]]
    /\ stored' = IF stored = Nothing THEN stored ELSE Older(stored, IdleLimit)
    /\ quiet' = Older(quiet, IdleLimit)
    /\ UNCHANGED <<news, odd>>

BrowserNext ==
    \/ Tick \/ Revoke
    \/ \E t \in Tab :
        \/ AskToOpen(t) \/ Mount(t) \/ CloseTab(t)
        \/ CheckTimeouts(t) \/ RecordActivity(t) \/ BackgroundCall(t)
        \/ RefreshAnswered(t) \/ RefreshRefused(t) \/ RefreshLost(t)
        \/ HandleStorage(t) \/ Logout(t)
        \/ \E arrives \in BOOLEAN : LeaveTab(t, arrives)

BrowserSpec == BrowserInit /\ [][BrowserNext]_browserVars

-----------------------------------------------------------------------------
(* What tabs, storage and server keep has the declared shapes.             *)
BrowserTypeOK ==
    /\ session \in
        [live : BOOLEAN, created : 0..AbsoluteLimit, renewed : 0..IdleLimit]
    /\ tab \in [Tab -> TabState]
    /\ stored \in 0..Nothing
    /\ news \in [Tab -> SUBSET {"written", "removed"}]
    /\ quiet \in 0..IdleLimit
    /\ odd \in [lost : BOOLEAN, refused : BOOLEAN, failed : BOOLEAN]

(* Only idle sessions end as idle.  By its own clock a tab that heard what *)
(* the others wrote ends only when no tab saw any activity for the limit,  *)
(* less what they need not write; the server lets the session expire only  *)
(* after the limit less the time in which renewals are neither asked for   *)
(* nor made, if every renewal and sign-out arrived.                        *)
IdleIsIdle ==
    [][/\ \A t \in Tab :
            (/\ Open(t) /\ tab[t].seen >= IdleLimit /\ news[t] = {}
             /\ tab'[t].at = "leaving" /\ tab'[t].why = "idle")
                => quiet + WriteEvery > IdleLimit
       /\ (/\ Valid /\ session'.live /\ session'.renewed >= IdleLimit
           /\ ~odd.lost /\ ~odd.failed)
                => quiet' + (RefreshEvery - 1) + (UpdateAge - 1) >= IdleLimit
      ]_browserVars

(* Tabs end together: when everything was heard, no tab goes on after      *)
(* another has left, unless the sign-out did not arrive or the page        *)
(* appeared after it.                                                      *)
EndsTogether ==
    Settled => \A t, u \in Tab :
        (tab[t].at = "left" /\ Open(u)) => odd.failed \/ tab[u].late
=============================================================================
