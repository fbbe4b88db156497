---------------------------- MODULE ProviderToken ----------------------------
(***************************************************************************)
(* The access token of a provider, and the calls that need it.             *)
(*                                                                         *)
(*   apps/api/src/integrations/puntos-colombia/                            *)
(*       puntos-colombia-token.service.ts, puntos-colombia.service.ts      *)
(*   apps/api/src/integrations/siigo/siigo-token.service.ts,               *)
(*       siigo.service.ts                                                  *)
(*                                                                         *)
(* Puntos Colombia and Siigo have the same protocol.  One row of           *)
(* integration_tokens keeps the token.  A call that finds it unusable, or  *)
(* whose request is rejected, asks for a renewal; a renewal in progress is *)
(* shared through refreshPromise, a variable of the process.               *)
(* Tokens are numbered in the order in which the provider issued them.     *)
(***************************************************************************)
EXTENDS Naturals, FiniteSets

CONSTANTS
    Caller,       \* calls to the provider that may be in progress together
    MaxTokens,    \* bound: tokens the provider issues
    NoCaller      \* refreshPromise = null

ASSUME TokenAssumption ==
    /\ MaxTokens \in Nat
    /\ NoCaller \notin Caller

Token == 1..MaxTokens
NoToken == 0

VARIABLES
    stored,          \* the token in integration_tokens
    usable,          \* tokens further from their expiry than the margin
    issued,          \* how many tokens the provider has issued
    caller,          \* where each call is
    renewal,         \* performRefresh, as started by each call
    refreshPromise   \* the call whose renewal the others join

tokenVars ==
    <<stored, usable, issued, caller, renewal, refreshPromise>>

(* "found": the row was read; "joined": waits for refreshPromise.  A call  *)
(* sends its request at most twice, the second time after a renewal.       *)
CallerState ==
    [at : {"idle", "found", "joined"}, token : Token \cup {NoToken},
     renewed : BOOLEAN] \cup
    [at : {"send"}, token : Token, renewed : BOOLEAN]
RenewalState ==
    [at : {"none", "find", "found", "post", "save"},
     rejected : Token \cup {NoToken}, seen : Token \cup {NoToken},
     token : Token \cup {NoToken}]

AtRest == [at |-> "idle", token |-> NoToken, renewed |-> FALSE]
NoRenewal ==
    [at |-> "none", rejected |-> NoToken, seen |-> NoToken, token |-> NoToken]

TokenInit ==
    /\ stored = NoToken
    /\ usable = {}
    /\ issued = 0
    /\ caller = [c \in Caller |-> AtRest]
    /\ renewal = [c \in Caller |-> NoRenewal]
    /\ refreshPromise = NoCaller

IsUsable(t) == t \in usable

-----------------------------------------------------------------------------
(* getAccessToken                                                          *)

FindToken(c) ==
    /\ caller[c].at = "idle"
    /\ caller' = [caller EXCEPT ![c] =
            [at |-> "found", token |-> stored, renewed |-> FALSE]]
    /\ UNCHANGED <<stored, usable, issued, renewal, refreshPromise>>

UseStoredToken(c) ==
    /\ caller[c].at = "found"
    /\ IsUsable(caller[c].token)
    /\ caller' = [caller EXCEPT ![c].at = "send"]
    /\ UNCHANGED <<stored, usable, issued, renewal, refreshPromise>>

(* Nobody joins: every call that needs a token renews it.                  *)
SlipStartRenewal(c, rejected) ==
    /\ renewal' = [renewal EXCEPT ![c] =
            [at |-> "find", rejected |-> rejected, seen |-> NoToken,
             token |-> NoToken]]
    /\ refreshPromise' = c

(* A call joins the renewal in progress, or starts one and is its owner:   *)
(* the promise is tested and set without an await in between.              *)
StartRenewal(c, rejected) ==
    IF refreshPromise # NoCaller
    THEN UNCHANGED <<renewal, refreshPromise>>
    ELSE /\ renewal' = [renewal EXCEPT ![c] =
                [at |-> "find", rejected |-> rejected, seen |-> NoToken,
                 token |-> NoToken]]
         /\ refreshPromise' = c

NeedToken(c) ==
    /\ caller[c].at = "found"
    /\ ~IsUsable(caller[c].token)
    /\ StartRenewal(c, NoToken)
    /\ caller' = [caller EXCEPT ![c].at = "joined"]
    /\ UNCHANGED <<stored, usable, issued>>

-----------------------------------------------------------------------------
(* The request itself                                                      *)

Answered(c) ==
    /\ caller[c].at = "send"
    /\ caller' = [caller EXCEPT ![c] = AtRest]
    /\ UNCHANGED <<stored, usable, issued, renewal, refreshPromise>>

(* A 401 or 403, whatever its cause: the first one asks for a renewal.     *)
Rejected(c) ==
    /\ caller[c].at = "send"
    /\ ~caller[c].renewed
    /\ StartRenewal(c, caller[c].token)
    /\ caller' = [caller EXCEPT ![c].at = "joined", ![c].renewed = TRUE]
    /\ UNCHANGED <<stored, usable, issued>>

-----------------------------------------------------------------------------
(* performRefresh                                                          *)

FindAgain(c) ==
    /\ renewal[c].at = "find"
    /\ renewal' = [renewal EXCEPT ![c].at = "found", ![c].seen = stored]
    /\ UNCHANGED <<stored, usable, issued, caller, refreshPromise>>

(* Without wasAlreadyReplaced.                                             *)
SlipStillGood(c) == IsUsable(renewal[c].seen)

(* The stored token does: nobody was rejected with it.                     *)
StillGood(c) ==
    /\ IsUsable(renewal[c].seen)
    /\ \/ renewal[c].rejected = NoToken
       \/ renewal[c].rejected # renewal[c].seen

(* Everybody who waits for the renewal continues with its token, or fails  *)
(* when t is NoToken; the owner forgets the promise.                       *)
Settle(c, t) ==
    /\ renewal' = [renewal EXCEPT ![c] = NoRenewal]
    /\ refreshPromise' = IF refreshPromise = c THEN NoCaller ELSE refreshPromise
    /\ caller' = [d \in Caller |->
            IF caller[d].at # "joined" THEN caller[d]
            ELSE IF t = NoToken THEN AtRest
            ELSE [caller[d] EXCEPT !.at = "send", !.token = t]]

AlreadyReplaced(c) ==
    /\ renewal[c].at = "found"
    /\ StillGood(c)
    /\ Settle(c, renewal[c].seen)
    /\ UNCHANGED <<stored, usable, issued>>

PostLogin(c) ==
    /\ renewal[c].at = "found"
    /\ ~StillGood(c)
    /\ renewal' = [renewal EXCEPT ![c].at = "post"]
    /\ UNCHANGED <<stored, usable, issued, caller, refreshPromise>>

LoginAnswered(c) ==
    /\ renewal[c].at = "post"
    /\ issued < MaxTokens
    /\ issued' = issued + 1
    /\ usable' = usable \cup {issued + 1}
    /\ renewal' = [renewal EXCEPT ![c].at = "save", ![c].token = issued + 1]
    /\ UNCHANGED <<stored, caller, refreshPromise>>

(* No token: refused, invalid or lost answer, time limit.                  *)
LoginFails(c) ==
    /\ renewal[c].at = "post"
    /\ Settle(c, NoToken)
    /\ UNCHANGED <<stored, usable, issued>>

SaveToken(c) ==
    /\ renewal[c].at = "save"
    /\ stored' = renewal[c].token
    /\ Settle(c, renewal[c].token)
    /\ UNCHANGED <<usable, issued>>

SaveFails(c) ==
    /\ renewal[c].at = "save"
    /\ Settle(c, NoToken)
    /\ UNCHANGED <<stored, usable, issued>>

-----------------------------------------------------------------------------
(* Time and the process                                                    *)

Ages(t) ==
    /\ t \in usable
    /\ usable' = usable \ {t}
    /\ UNCHANGED <<stored, issued, caller, renewal, refreshPromise>>

TokenRestart ==
    /\ caller' = [c \in Caller |-> AtRest]
    /\ renewal' = [c \in Caller |-> NoRenewal]
    /\ refreshPromise' = NoCaller
    /\ UNCHANGED <<stored, usable, issued>>

CallerStep(c) ==
    \/ UseStoredToken(c) \/ NeedToken(c) \/ Answered(c) \/ Rejected(c)
    \/ FindAgain(c) \/ AlreadyReplaced(c) \/ PostLogin(c)
    \/ LoginAnswered(c) \/ LoginFails(c) \/ SaveToken(c) \/ SaveFails(c)

TokenNext ==
    \/ \E c \in Caller : FindToken(c) \/ CallerStep(c)
    \/ \E t \in Token : Ages(t)
    \/ TokenRestart

TokenSpec == TokenInit /\ [][TokenNext]_tokenVars
(* Timers bound every wait of a call, so it takes its next step.           *)
TokenFairSpec == TokenSpec /\ \A c \in Caller : WF_tokenVars(CallerStep(c))

-----------------------------------------------------------------------------
(* Properties                                                              *)

(* Row, promise, calls and renewals have the declared shapes.              *)
TokenTypeOK ==
    /\ stored \in Token \cup {NoToken}
    /\ usable \subseteq Token
    /\ issued \in Token \cup {0}
    /\ caller \in [Caller -> CallerState]
    /\ renewal \in [Caller -> RenewalState]
    /\ refreshPromise \in Caller \cup {NoCaller}

(* A login is never made to replace a token that was replaced already: as  *)
(* long as it lasts, the table holds what performRefresh read.             *)
LoginReplacesStored ==
    \A c \in Caller :
        renewal[c].at \in {"found", "post", "save"} => renewal[c].seen = stored

(* A rejected call is repeated with the token it was rejected with only    *)
(* when it joined a renewal that was not about that token.                 *)
RetryIsRenewed ==
    [][\A c \in Caller :
            /\ caller[c].at = "joined" /\ caller[c].renewed
            /\ caller'[c].at = "send" /\ caller'[c].token = caller[c].token
            => /\ refreshPromise # c
               /\ renewal[refreshPromise].rejected # caller[c].token]_tokenVars

(* Why the two hold: one renewal runs at a time, that of the call which    *)
(* refreshPromise names and which waits for it; ...                        *)
OneRenewal ==
    /\ \A c \in Caller : renewal[c].at # "none" => refreshPromise = c
    /\ \A c \in Caller : refreshPromise = c => caller[c].at = "joined"
    /\ \A c \in Caller : caller[c].at = "found" => ~caller[c].renewed

(* ... it is about the token that call was rejected with; ...              *)
OwnRejection ==
    \A c \in Caller : refreshPromise = c /\ caller[c].renewed =>
        renewal[c].at # "none" /\ renewal[c].rejected = caller[c].token

(* ... and its new token is newer than every other one.                    *)
NewTokenIsNew ==
    /\ stored <= issued
    /\ \A c \in Caller : caller[c].token <= issued /\ renewal[c].seen <= issued
    /\ \A c \in Caller : renewal[c].at = "save" =>
        /\ renewal[c].token = issued /\ stored < issued
        /\ \A d \in Caller : caller[d].token < renewal[c].token
TokenIInv ==
    TokenTypeOK /\ OneRenewal /\ LoginReplacesStored /\ OwnRejection /\ NewTokenIsNew

(* Every call ends, whatever the provider answers and whichever renewals   *)
(* it waits for.                                                           *)
CallsEnd == \A c \in Caller : caller[c].at # "idle" ~> caller[c].at = "idle"
=============================================================================
