----------------------------- MODULE ServicesProofs -----------------------------
(* Proofs about the services that MCServices puts together, for every value *)
(* of their constants: ProviderToken, Shipments and CustomerSync here, and  *)
(* then what their composition with redemptions and amounts keeps.          *)
EXTENDS MCServices, PointsRedemptionsProofs, OrderAmountsProofs

-----------------------------------------------------------------------------
(* Calls and renewals of the token                                         *)

CallFields == [at : {"idle", "found", "joined", "send"}, token : Token \cup {NoToken},
               renewed : BOOLEAN]

LEMMA CallFacts ==
  ASSUME TokenTypeOK, NEW c \in Caller
  PROVE  /\ caller[c] \in CallFields
         /\ caller[c].at = "send" => caller[c].token \in Token
<1>1. caller[c] \in CallerState
  BY DEF TokenTypeOK
<1> QED BY <1>1 DEF CallerState, CallFields

LEMMA CallIsTyped ==
  ASSUME NEW call \in CallFields, call.at = "send" => call.token \in Token
  PROVE  call \in CallerState
BY DEF CallFields, CallerState

LEMMA RenewalFacts ==
  ASSUME TokenTypeOK, NEW c \in Caller
  PROVE  renewal[c] \in RenewalState
BY DEF TokenTypeOK

(* One call changes and no renewal does.                                   *)
LEMMA CallMoves ==
  ASSUME TokenIInv, NEW c \in Caller, NEW call \in CallFields,
         caller' = [caller EXCEPT ![c] = call],
         caller[c].at # "joined", call.at # "joined",
         call.at = "send" => call.token \in Token,
         call.at = "found" => ~call.renewed,
         call.token = caller[c].token \/ call.token = NoToken \/ call.token = stored,
         UNCHANGED <<stored, usable, issued, renewal, refreshPromise>>
  PROVE  TokenIInv'
<1>1. TokenTypeOK /\ OneRenewal /\ LoginReplacesStored /\ OwnRejection /\ NewTokenIsNew
  BY DEF TokenIInv
<1>2. call \in CallerState
  BY CallIsTyped
<1>3. /\ caller' \in [Caller -> CallerState] /\ caller'[c] = call
      /\ \A d \in Caller : d # c => caller'[d] = caller[d]
  BY <1>1, <1>2 DEF TokenTypeOK
<1>4. TokenTypeOK'
  BY <1>1, <1>3 DEF TokenTypeOK
<1>5. refreshPromise # c
  BY <1>1 DEF OneRenewal
<1>6. OneRenewal' /\ OwnRejection' /\ LoginReplacesStored'
  BY <1>1, <1>3, <1>5 DEF OneRenewal, OwnRejection, LoginReplacesStored
<1>7. NewTokenIsNew'
  <2>1. /\ stored \in Nat /\ issued \in Nat /\ stored <= issued
        /\ call.token \in Nat /\ caller[c].token \in Nat
    BY <1>1, TokenAssumption, CallFacts DEF TokenTypeOK, Token, NoToken, CallFields, NewTokenIsNew
  <2>2. call.token <= issued
    BY <1>1, <2>1 DEF NewTokenIsNew, NoToken
  <2>3. ASSUME NEW d \in Caller, renewal[d].at = "save"
        PROVE  call.token < renewal[d].token
    <3>1. /\ renewal[d].token = issued /\ caller[c].token < renewal[d].token
          /\ stored < renewal[d].token
      BY <1>1, <2>3 DEF NewTokenIsNew
    <3> QED BY <2>1, <3>1 DEF NoToken
  <2> QED BY <1>1, <1>3, <2>2, <2>3 DEF NewTokenIsNew
<1> QED BY <1>4, <1>6, <1>7 DEF TokenIInv

LEMMA FindTokenStep ==
  ASSUME TokenIInv, NEW c \in Caller, FindToken(c)
  PROVE  TokenIInv'
<1> DEFINE call == [at |-> "found", token |-> stored, renewed |-> FALSE]
<1>1. TokenTypeOK
  BY DEF TokenIInv
<1>2. call \in CallFields
  BY <1>1 DEF TokenTypeOK, CallFields
<1>3. PICK it \in CallFields : it = call
  BY <1>2
<1> QED BY <1>3, CallMoves DEF FindToken

LEMMA UseTokenStep ==
  ASSUME TokenIInv, NEW c \in Caller, UseStoredToken(c)
  PROVE  TokenIInv'
<1>1. TokenTypeOK /\ caller[c] \in CallFields /\ caller[c].token \in Token
  BY CallFacts DEF TokenIInv, TokenTypeOK, UseStoredToken, IsUsable
<1>2. PICK it : it = [caller[c] EXCEPT !.at = "send"]
  OBVIOUS
<1>3. it \in CallFields /\ it.at = "send" /\ it.token = caller[c].token
  BY <1>1, <1>2 DEF CallFields
<1>4. caller' = [caller EXCEPT ![c] = it]
  BY <1>2 DEF UseStoredToken
<1> QED BY <1>1, <1>3, <1>4, CallMoves DEF UseStoredToken

LEMMA AnsweredCallStep ==
  ASSUME TokenIInv, NEW c \in Caller, Answered(c)
  PROVE  TokenIInv'
<1>1. AtRest \in CallFields /\ AtRest.at = "idle" /\ AtRest.token = NoToken
  BY DEF AtRest, CallFields
<1> QED BY <1>1, CallMoves DEF Answered

(* A call waits for a renewal: its own, if there is no other.              *)
LEMMA CallWaits ==
  ASSUME TokenIInv, NEW c \in Caller, NEW call \in CallFields,
         NEW rejected \in Token \cup {NoToken},
         caller' = [caller EXCEPT ![c] = call], StartRenewal(c, rejected),
         caller[c].at \in {"found", "send"}, call.at = "joined",
         call.token = caller[c].token, call.renewed => rejected = caller[c].token,
         UNCHANGED <<stored, usable, issued>>
  PROVE  TokenIInv'
<1>1. TokenTypeOK /\ OneRenewal /\ LoginReplacesStored /\ OwnRejection /\ NewTokenIsNew
  BY DEF TokenIInv
<1>2. call \in CallerState
  BY CallIsTyped
<1>3. /\ caller' \in [Caller -> CallerState] /\ caller'[c] = call
      /\ \A d \in Caller : d # c => caller'[d] = caller[d]
  BY <1>1, <1>2 DEF TokenTypeOK
<1>4. refreshPromise # c
  BY <1>1 DEF OneRenewal
<1>5. PICK new : new = [at |-> "find", rejected |-> rejected, seen |-> NoToken, token |-> NoToken]
  OBVIOUS
<1>6. /\ new \in RenewalState /\ new.at = "find" /\ new.rejected = rejected /\ new.seen = 0
  BY <1>5 DEF RenewalState, NoToken
<1>7. \/ /\ refreshPromise # NoCaller
         /\ renewal' = renewal /\ refreshPromise' = refreshPromise
      \/ /\ refreshPromise = NoCaller /\ refreshPromise' = c
         /\ renewal' = [renewal EXCEPT ![c] = new]
  BY <1>5 DEF StartRenewal
<1>8. CASE /\ refreshPromise # NoCaller
           /\ renewal' = renewal /\ refreshPromise' = refreshPromise
  <2>1. TokenTypeOK'
    BY <1>1, <1>3, <1>8 DEF TokenTypeOK
  <2>2. OneRenewal' /\ OwnRejection' /\ LoginReplacesStored' /\ NewTokenIsNew'
    BY <1>1, <1>3, <1>4, <1>8 DEF OneRenewal, OwnRejection, LoginReplacesStored, NewTokenIsNew
  <2> QED BY <2>1, <2>2 DEF TokenIInv
<1>9. CASE /\ refreshPromise = NoCaller /\ refreshPromise' = c
           /\ renewal' = [renewal EXCEPT ![c] = new]
  <2>1. /\ renewal' \in [Caller -> RenewalState] /\ renewal'[c] = new
        /\ \A d \in Caller : d # c => renewal'[d] = renewal[d]
    BY <1>1, <1>6, <1>9 DEF TokenTypeOK
  <2>2. TokenTypeOK'
    BY <1>1, <1>3, <1>9, <2>1 DEF TokenTypeOK
  <2>3. \A d \in Caller : renewal[d].at = "none"
    BY <1>1, <1>9, TokenAssumption DEF OneRenewal
  <2>4. \A d \in Caller : d # c => renewal'[d].at = "none"
    BY <2>1, <2>3
  <2>5. OneRenewal'
    BY <1>1, <1>3, <1>9, <2>1, <2>4, TokenAssumption DEF OneRenewal
  <2>6. OwnRejection' /\ LoginReplacesStored'
    BY <1>3, <1>6, <1>9, <2>1, <2>4 DEF OwnRejection, LoginReplacesStored
  <2>7. NewTokenIsNew'
    <3>1. issued \in Nat
      BY <1>1, TokenAssumption DEF TokenTypeOK, Token
    <3> QED BY <1>1, <1>3, <1>6, <2>1, <2>4, <3>1 DEF NewTokenIsNew
  <2> QED BY <2>2, <2>5, <2>6, <2>7 DEF TokenIInv
<1> QED BY <1>7, <1>8, <1>9

LEMMA NeedTokenStep ==
  ASSUME TokenIInv, NEW c \in Caller, NeedToken(c)
  PROVE  TokenIInv'
<1>1. /\ caller[c] \in CallFields /\ caller[c].at = "found" /\ ~caller[c].renewed
  BY CallFacts DEF TokenIInv, OneRenewal, NeedToken
<1>2. PICK it : it = [caller[c] EXCEPT !.at = "joined"]
  OBVIOUS
<1>3. /\ it \in CallFields /\ it.at = "joined" /\ it.token = caller[c].token
      /\ it.renewed = caller[c].renewed
  BY <1>1, <1>2 DEF CallFields
<1>4. caller' = [caller EXCEPT ![c] = it]
  BY <1>2 DEF NeedToken
<1>5. StartRenewal(c, NoToken) /\ UNCHANGED <<stored, usable, issued>>
  BY DEF NeedToken
<1> QED BY <1>1, <1>3, <1>4, <1>5, CallWaits

LEMMA RejectedStep ==
  ASSUME TokenIInv, NEW c \in Caller, Rejected(c)
  PROVE  TokenIInv'
<1>1. /\ caller[c] \in CallFields /\ caller[c].at = "send" /\ caller[c].token \in Token
      /\ caller \in [Caller -> CallerState]
  BY CallFacts DEF TokenIInv, TokenTypeOK, Rejected
<1>2. PICK it : it = [caller[c] EXCEPT !.at = "joined", !.renewed = TRUE]
  OBVIOUS
<1>3. it \in CallFields /\ it.at = "joined" /\ it.token = caller[c].token
  BY <1>1, <1>2 DEF CallFields
<1>4. caller' = [caller EXCEPT ![c] = it]
  BY <1>1, <1>2 DEF Rejected
<1>5. StartRenewal(c, caller[c].token) /\ UNCHANGED <<stored, usable, issued>>
  BY DEF Rejected
<1> QED BY <1>1, <1>3, <1>4, <1>5, CallWaits

(* A renewal goes on; at the end of its login it has the newest token.     *)
LEMMA RenewalMoves ==
  ASSUME TokenIInv, NEW c \in Caller, NEW new \in RenewalState,
         renewal[c].at # "none", renewal' = [renewal EXCEPT ![c] = new],
         new.at # "none", new.rejected = renewal[c].rejected,
         new.seen = stored, new.at # "save" \/ (new.token = issued' /\ issued < issued'),
         issued' = issued \/ issued' = issued + 1, issued' <= MaxTokens, usable' \subseteq Token,
         UNCHANGED <<stored, caller, refreshPromise>>
  PROVE  TokenIInv'
<1>1. TokenTypeOK /\ OneRenewal /\ LoginReplacesStored /\ OwnRejection /\ NewTokenIsNew
  BY DEF TokenIInv
<1>2. /\ renewal' \in [Caller -> RenewalState] /\ renewal'[c] = new
      /\ \A d \in Caller : d # c => renewal'[d] = renewal[d]
  BY <1>1 DEF TokenTypeOK
<1>3. \A d \in Caller : d # c => renewal'[d].at = "none"
  BY <1>1, <1>2 DEF OneRenewal
<1>4. /\ issued \in Nat /\ stored \in Nat /\ issued' \in Nat /\ issued <= issued'
      /\ issued' \in Token \cup {0} /\ \A d \in Caller : caller[d].token \in Nat
  BY <1>1, TokenAssumption, CallFacts DEF TokenTypeOK, Token, NoToken, CallFields
<1>5. \A d \in Caller : renewal[d].seen \in Nat
  BY <1>1, RenewalFacts DEF RenewalState, Token, NoToken
<1>6. TokenTypeOK'
  BY <1>1, <1>2, <1>4 DEF TokenTypeOK
<1>7. OneRenewal' /\ OwnRejection' /\ LoginReplacesStored'
  BY <1>1, <1>2, <1>3 DEF OneRenewal, OwnRejection, LoginReplacesStored
<1>8. NewTokenIsNew'
  <2>1. stored <= issued' /\ \A d \in Caller : caller[d].token <= issued'
    BY <1>1, <1>4 DEF NewTokenIsNew
  <2>2. \A d \in Caller : renewal'[d].seen <= issued'
    BY <1>1, <1>2, <1>4, <1>5, <2>1 DEF NewTokenIsNew
  <2>3. new.at = "save" => /\ new.token = issued' /\ stored < issued'
                          /\ \A d \in Caller : caller[d].token < new.token
    BY <1>1, <1>4 DEF NewTokenIsNew
  <2> QED BY <1>2, <1>3, <2>1, <2>2, <2>3 DEF NewTokenIsNew
<1> QED BY <1>6, <1>7, <1>8 DEF TokenIInv

LEMMA RenewalSteps ==
  ASSUME TokenIInv, NEW c \in Caller, FindAgain(c) \/ PostLogin(c) \/ LoginAnswered(c)
  PROVE  TokenIInv'
<1>1. /\ TokenTypeOK /\ LoginReplacesStored /\ renewal[c] \in RenewalState
      /\ renewal \in [Caller -> RenewalState]
      /\ stored \in Token \cup {NoToken} /\ usable \subseteq Token
      /\ issued \in Nat /\ issued <= MaxTokens /\ MaxTokens \in Nat
  BY TokenAssumption DEF TokenIInv, TokenTypeOK, Token
<1>2. CASE FindAgain(c)
  <2>1. PICK it : it = [renewal[c] EXCEPT !.at = "found", !.seen = stored]
    OBVIOUS
  <2>2. /\ it \in RenewalState /\ it.at = "found" /\ it.seen = stored
        /\ it.rejected = renewal[c].rejected
    BY <1>1, <2>1 DEF RenewalState
  <2>3. renewal' = [renewal EXCEPT ![c] = it]
    BY <1>1, <1>2, <2>1 DEF FindAgain
  <2>4. /\ renewal[c].at # "none" /\ UNCHANGED <<stored, caller, refreshPromise>>
        /\ issued' = issued /\ usable' = usable
    BY <1>2 DEF FindAgain
  <2> QED BY <1>1, <2>2, <2>3, <2>4, RenewalMoves
<1>3. CASE PostLogin(c)
  <2>1. PICK it : it = [renewal[c] EXCEPT !.at = "post"]
    OBVIOUS
  <2>2. /\ it \in RenewalState /\ it.at = "post" /\ it.seen = renewal[c].seen
        /\ it.rejected = renewal[c].rejected
    BY <1>1, <2>1 DEF RenewalState
  <2>3. renewal' = [renewal EXCEPT ![c] = it] /\ renewal[c].seen = stored
    BY <1>1, <1>3, <2>1 DEF PostLogin, LoginReplacesStored
  <2>4. /\ renewal[c].at # "none" /\ UNCHANGED <<stored, caller, refreshPromise>>
        /\ issued' = issued /\ usable' = usable
    BY <1>3 DEF PostLogin
  <2> QED BY <1>1, <2>2, <2>3, <2>4, RenewalMoves
<1>4. CASE LoginAnswered(c)
  <2>1. PICK it : it = [renewal[c] EXCEPT !.at = "save", !.token = issued + 1]
    OBVIOUS
  <2>2. issued + 1 \in Token /\ issued < MaxTokens
    BY <1>1, <1>4 DEF LoginAnswered, Token
  <2>3. /\ it \in RenewalState /\ it.at = "save" /\ it.seen = renewal[c].seen
        /\ it.rejected = renewal[c].rejected /\ it.token = issued + 1
    BY <1>1, <2>1, <2>2 DEF RenewalState
  <2>4. renewal' = [renewal EXCEPT ![c] = it] /\ renewal[c].seen = stored
    BY <1>1, <1>4, <2>1 DEF LoginAnswered, LoginReplacesStored
  <2>5. /\ renewal[c].at # "none" /\ UNCHANGED <<stored, caller, refreshPromise>>
        /\ issued' = issued + 1 /\ usable' \subseteq Token
    BY <1>1, <1>4, <2>2 DEF LoginAnswered
  <2>6. issued' <= MaxTokens /\ issued < issued'
    BY <1>1, <2>2, <2>5
  <2> QED BY <1>1, <2>3, <2>4, <2>5, <2>6, RenewalMoves
<1> QED BY <1>2, <1>3, <1>4

(* A renewal ends, and with it every wait.                                 *)
LEMMA RenewalEnds ==
  ASSUME TokenIInv, NEW c \in Caller, NEW t \in Token \cup {NoToken},
         renewal[c].at # "none", Settle(c, t), t <= issued,
         stored' \in Token \cup {NoToken}, stored' <= issued, UNCHANGED <<usable, issued>>
  PROVE  TokenIInv'
<1>1. TokenTypeOK /\ OneRenewal /\ LoginReplacesStored /\ OwnRejection /\ NewTokenIsNew
  BY DEF TokenIInv
<1>2. /\ renewal' = [renewal EXCEPT ![c] = NoRenewal] /\ refreshPromise' = NoCaller
      /\ \A d \in Caller : d # c => renewal[d].at = "none"
  BY <1>1 DEF Settle, OneRenewal
<1>3. NoRenewal \in RenewalState /\ NoRenewal.at = "none" /\ NoRenewal.seen = 0
  BY DEF NoRenewal, RenewalState, NoToken
<1>4. /\ renewal' \in [Caller -> RenewalState]
      /\ \A d \in Caller : renewal'[d].at = "none" /\ (renewal'[d].seen = renewal[d].seen \/ renewal'[d].seen = 0)
  BY <1>1, <1>2, <1>3 DEF TokenTypeOK
<1>5. ASSUME NEW d \in Caller
      PROVE  /\ caller'[d] \in CallerState /\ caller'[d].at # "joined"
             /\ caller'[d].at = "found" => ~caller'[d].renewed
             /\ caller'[d].token <= issued
  <2>1. caller[d] \in CallFields /\ caller[d].token <= issued /\ issued \in Nat
    BY <1>1, CallFacts, TokenAssumption DEF NewTokenIsNew, TokenTypeOK, Token
  <2>2. CASE caller[d].at # "joined"
    BY <1>1, <2>2 DEF Settle, TokenTypeOK, OneRenewal, NewTokenIsNew
  <2>3. CASE caller[d].at = "joined" /\ t = NoToken
    <3>1. caller'[d] = AtRest
      BY <2>3 DEF Settle
    <3> QED BY <2>1, <3>1 DEF AtRest, CallerState, NoToken
  <2>4. CASE caller[d].at = "joined" /\ t # NoToken
    <3>1. caller'[d] = [caller[d] EXCEPT !.at = "send", !.token = t]
      BY <2>4 DEF Settle
    <3> QED BY <2>1, <2>4, <3>1 DEF CallFields, CallerState
  <2> QED BY <2>2, <2>3, <2>4
<1>6. TokenTypeOK'
  <2>1. caller' \in [Caller -> CallerState]
    BY <1>5 DEF Settle
  <2> QED BY <1>1, <1>2, <1>4, <2>1 DEF TokenTypeOK
<1>7. OneRenewal' /\ OwnRejection' /\ LoginReplacesStored'
  BY <1>2, <1>4, <1>5, TokenAssumption DEF OneRenewal, OwnRejection, LoginReplacesStored
<1>8. NewTokenIsNew'
  <2>1. issued \in Nat
    BY <1>1, TokenAssumption DEF TokenTypeOK, Token
  <2> QED BY <1>1, <1>4, <1>5, <2>1 DEF NewTokenIsNew
<1> QED BY <1>6, <1>7, <1>8 DEF TokenIInv

LEMMA EndingSteps ==
  ASSUME TokenIInv, NEW c \in Caller,
         AlreadyReplaced(c) \/ LoginFails(c) \/ SaveToken(c) \/ SaveFails(c)
  PROVE  TokenIInv'
<1>1. /\ TokenTypeOK /\ NewTokenIsNew /\ renewal[c] \in RenewalState
      /\ issued \in Nat /\ stored \in Token \cup {NoToken} /\ stored \in Nat
      /\ NoToken \in Token \cup {NoToken} /\ NoToken <= issued /\ stored <= issued
  BY TokenAssumption DEF TokenIInv, TokenTypeOK, Token, NoToken, NewTokenIsNew
<1>2. CASE AlreadyReplaced(c)
  <2>1. renewal[c].seen \in Token \cup {NoToken} /\ renewal[c].seen <= issued
    BY <1>1 DEF RenewalState, NewTokenIsNew
  <2> QED BY <1>1, <1>2, <2>1, RenewalEnds DEF AlreadyReplaced
<1>3. CASE LoginFails(c)
  BY <1>1, <1>3, RenewalEnds DEF LoginFails
<1>4. CASE SaveToken(c)
  <2>1. renewal[c].token \in Token \cup {NoToken} /\ renewal[c].token = issued
    BY <1>1, <1>4 DEF RenewalState, NewTokenIsNew, SaveToken
  <2> QED BY <1>1, <1>4, <2>1, RenewalEnds DEF SaveToken
<1>5. CASE SaveFails(c)
  BY <1>1, <1>5, RenewalEnds DEF SaveFails
<1> QED BY <1>2, <1>3, <1>4, <1>5

LEMMA TokenRestartStep ==
  ASSUME TokenIInv, TokenRestart
  PROVE  TokenIInv'
<1>1. TokenTypeOK /\ NewTokenIsNew
  BY DEF TokenIInv
<1>2. /\ NoRenewal \in RenewalState /\ NoRenewal.at = "none" /\ NoRenewal.seen = 0
      /\ AtRest \in CallerState /\ AtRest.at = "idle" /\ AtRest.token = 0
  BY DEF NoRenewal, RenewalState, NoToken, AtRest, CallerState
<1>3. \A c \in Caller : renewal'[c] = NoRenewal /\ caller'[c] = AtRest
  BY DEF TokenRestart
<1>4. TokenTypeOK'
  BY <1>1, <1>2 DEF TokenTypeOK, TokenRestart
<1>5. issued \in Nat
  BY <1>1, TokenAssumption DEF TokenTypeOK, Token
<1>6. OneRenewal' /\ OwnRejection' /\ LoginReplacesStored' /\ NewTokenIsNew'
  BY <1>1, <1>2, <1>3, <1>5, TokenAssumption
     DEF TokenRestart, OneRenewal, OwnRejection, LoginReplacesStored, NewTokenIsNew
<1> QED BY <1>4, <1>6 DEF TokenIInv

(* The inductive invariant: one renewal at a time, about the token its     *)
(* owner was rejected with, and its token newer than all the others.       *)
THEOREM TokensAreSound == TokenSpec => []TokenIInv
<1>1. TokenInit => TokenIInv
  <2>1. /\ NoRenewal \in RenewalState /\ NoRenewal.at = "none" /\ NoRenewal.seen = 0
        /\ AtRest \in CallerState /\ AtRest.at = "idle" /\ AtRest.token = 0
    BY DEF NoRenewal, RenewalState, NoToken, AtRest, CallerState
  <2> QED BY <2>1, TokenAssumption DEF TokenInit, TokenIInv, TokenTypeOK, OneRenewal,
        OwnRejection, LoginReplacesStored, NewTokenIsNew, NoToken
<1>2. TokenIInv /\ [TokenNext]_tokenVars => TokenIInv'
  <2>1. SUFFICES ASSUME TokenIInv, [TokenNext]_tokenVars PROVE TokenIInv'
    OBVIOUS
  <2>2. ASSUME NEW c \in Caller, FindToken(c) \/ CallerStep(c) PROVE TokenIInv'
    BY <2>1, <2>2, FindTokenStep, UseTokenStep, NeedTokenStep, AnsweredCallStep, RejectedStep,
       RenewalSteps, EndingSteps DEF CallerStep
  <2>3. ASSUME NEW t \in Token, Ages(t) PROVE TokenIInv'
    BY <2>1, <2>3 DEF Ages, TokenIInv, TokenTypeOK, OneRenewal, OwnRejection,
       LoginReplacesStored, NewTokenIsNew
  <2>4. CASE TokenRestart
    BY <2>1, <2>4, TokenRestartStep
  <2>5. CASE UNCHANGED tokenVars
    BY <2>1, <2>5 DEF tokenVars, TokenIInv, TokenTypeOK, OneRenewal, OwnRejection,
       LoginReplacesStored, NewTokenIsNew
  <2> QED BY <2>1, <2>2, <2>3, <2>4, <2>5 DEF TokenNext
<1> QED BY <1>1, <1>2, PTL DEF TokenSpec

(* No login replaces a token that was replaced already.                    *)
THEOREM LoginsAreNeeded == TokenSpec => []LoginReplacesStored
<1>1. TokenIInv => LoginReplacesStored
  BY DEF TokenIInv
<1> QED BY <1>1, TokensAreSound, PTL

(* A rejected call is repeated with the token it was rejected with only    *)
(* after a renewal of somebody else, about another token.                  *)
RepeatedInVain(c) ==
  /\ caller[c].at = "joined" /\ caller[c].renewed
  /\ caller'[c].at = "send" /\ caller'[c].token = caller[c].token

LEMMA SettledInVain ==
  ASSUME TokenIInv, NEW o \in Caller, NEW t \in Token \cup {NoToken}, Settle(o, t),
         renewal[o].at # "none", NEW c \in Caller, RepeatedInVain(c)
  PROVE  /\ t = caller[c].token /\ refreshPromise = o /\ t # NoToken
         /\ c = o => renewal[o].rejected = t
<1>1. refreshPromise = o
  BY DEF TokenIInv, OneRenewal
<1>2. t # NoToken
  BY DEF Settle, RepeatedInVain, AtRest
<1>3. caller'[c] = [caller[c] EXCEPT !.at = "send", !.token = t] /\ caller[c] \in CallFields
  BY <1>2, CallFacts DEF Settle, RepeatedInVain, TokenIInv
<1>4. t = caller[c].token
  BY <1>3 DEF RepeatedInVain, CallFields
<1> QED BY <1>1, <1>2, <1>4 DEF TokenIInv, OwnRejection, RepeatedInVain

THEOREM RetriesAreRenewed == TokenSpec => RetryIsRenewed
<1>1. ASSUME TokenIInv, TokenNext, NEW c \in Caller, RepeatedInVain(c)
      PROVE  refreshPromise # c /\ renewal[refreshPromise].rejected # caller[c].token
  <2>1. /\ TokenTypeOK /\ NewTokenIsNew /\ caller[c] \in CallFields
        /\ \A d \in Caller : renewal[d] \in RenewalState
    BY <1>1, CallFacts, RenewalFacts DEF TokenIInv
  <2>2. PICK o \in Caller :
            AlreadyReplaced(o) \/ LoginFails(o) \/ SaveToken(o) \/ SaveFails(o)
    <3>1. caller'[c] # caller[c]
      BY <1>1 DEF RepeatedInVain
    <3>2. ~(\E t \in Token : Ages(t)) /\ ~TokenRestart
      BY <1>1, <3>1 DEF Ages, TokenRestart, RepeatedInVain, AtRest
    <3>3. ASSUME NEW d \in Caller
          PROVE  /\ ~FindAgain(d) /\ ~PostLogin(d) /\ ~LoginAnswered(d)
                 /\ ~FindToken(d) /\ ~UseStoredToken(d) /\ ~NeedToken(d)
                 /\ ~Answered(d) /\ ~Rejected(d)
      <4>1. ~FindAgain(d) /\ ~PostLogin(d) /\ ~LoginAnswered(d)
        BY <3>1 DEF FindAgain, PostLogin, LoginAnswered
      <4>2. CASE d # c
        BY <2>1, <3>1, <4>1, <4>2
           DEF TokenTypeOK, FindToken, UseStoredToken, NeedToken, Answered, Rejected
      <4>3. CASE d = c
        BY <1>1, <4>1, <4>3
           DEF RepeatedInVain, FindToken, UseStoredToken, NeedToken, Answered, Rejected
      <4> QED BY <4>2, <4>3
    <3> QED BY <1>1, <3>2, <3>3 DEF TokenNext, CallerStep
  <2>3. ~LoginFails(o) /\ ~SaveFails(o)
    BY <1>1, SettledInVain DEF LoginFails, SaveFails
  <2>4. CASE AlreadyReplaced(o)
    <3>1. /\ renewal[o].seen = caller[c].token /\ refreshPromise = o
          /\ renewal[o].seen # NoToken
          /\ c = o => renewal[o].rejected = renewal[o].seen
      BY <1>1, <2>1, <2>4, SettledInVain DEF AlreadyReplaced, RenewalState
    <3> QED BY <2>4, <3>1 DEF AlreadyReplaced, StillGood
  <2>5. CASE SaveToken(o)
    <3>1. renewal[o].token = caller[c].token
      BY <1>1, <2>1, <2>5, SettledInVain DEF SaveToken, RenewalState
    <3>2. caller[c].token < renewal[o].token /\ caller[c].token \in Nat
      BY <2>1, <2>5, TokenAssumption DEF SaveToken, NewTokenIsNew, CallFields, Token, NoToken
    <3> QED BY <3>1, <3>2
  <2> QED BY <2>2, <2>3, <2>4, <2>5
<1>2. TokenIInv /\ [TokenNext]_tokenVars =>
        [\A c \in Caller :
            /\ caller[c].at = "joined" /\ caller[c].renewed
            /\ caller'[c].at = "send" /\ caller'[c].token = caller[c].token
            => /\ refreshPromise # c
               /\ renewal[refreshPromise].rejected # caller[c].token]_tokenVars
  BY <1>1 DEF RepeatedInVain
<1> QED BY <1>2, TokensAreSound, PTL DEF TokenSpec, RetryIsRenewed

-----------------------------------------------------------------------------
(* Shipments: the call of a request for a store                            *)

LEMMA ErrandFacts ==
  ASSUME ShipmentsTypeOK, NEW r \in Shipper, NEW s \in Shop
  PROVE  /\ errand[r][s] \in Errand
         /\ errand[r][s] = NoErrand <=> errand[r][s].at = "none"
         /\ errand[r][s].at = "call" =>
                errand[r][s] \in [at : {"call"}, shipment : Assignment, again : BOOLEAN]
<1>1. errand[r][s] \in Errand
  BY DEF ShipmentsTypeOK
<1> QED BY <1>1 DEF Errand, NoErrand

(* What is recorded of an errand of the only request that works for s.     *)
GoodEnd(s, state) ==
  /\ storeSyncs'[s] = "SYNCED" => tracked'[s] = shipment /\ state = NoErrand
  /\ storeSyncs'[s] = "SYNCING" =>
        /\ state.at = "call" => state.shipment = shipment
        /\ state.at = "ok" => tracked'[s] = shipment

ErrandGoesOn(r, s, state) ==
  /\ ErrandAt(r, s, state) /\ state \in Errand /\ errand[r][s] # NoErrand
  /\ UNCHANGED <<parcelOf, shipment, shipper, doubtful>>
  /\ storeSyncs' \in [Shop -> SyncStatus] /\ tracked' \in [Shop -> Assignment]
  /\ \A k \in Shop : k # s => storeSyncs'[k] = storeSyncs[k] /\ tracked'[k] = tracked[k]
  /\ shipment = 0 => storeSyncs' = NoRows
  /\ lateShipments' \subseteq StoreCall /\ shipMishaps' \in 0..MaxShipMishaps
  /\ shipMishaps' = 0 => shipMishaps = 0 /\ lateShipments' = lateShipments
  /\ shipMishaps = 0 /\ s \notin doubtful /\ InStep(s) => GoodEnd(s, state)

LEMMA ErrandMoves ==
  ASSUME ShipmentsIInv, NEW r \in Shipper, NEW s \in Shop, NEW state, ErrandGoesOn(r, s, state)
  PROVE  ShipmentsIInv'
<1> USE DEF ErrandGoesOn
<1>1. /\ ShipmentsTypeOK /\ ErrandsAreWorked
      /\ shipMishaps = 0 => lateShipments = {} /\ \A k \in Shop : k \notin doubtful => InStep(k)
  BY DEF ShipmentsIInv
<1>2. /\ errand' \in [Shipper -> [Shop -> Errand]] /\ errand'[r][s] = state
      /\ \A o \in Shipper, k \in Shop : o # r \/ k # s => errand'[o][k] = errand[o][k]
  BY <1>1 DEF ShipmentsTypeOK, ErrandAt
<1>3. ShipmentsTypeOK'
  BY <1>1, <1>2 DEF ShipmentsTypeOK
<1>4. ErrandsAreWorked'
  <2>1. shipper[r].at = "work" /\ shipper' = shipper
    BY <1>1 DEF ErrandsAreWorked
  <2>2. SUFFICES ASSUME NEW o \in Shipper, shipper[o].at # "work", NEW k \in Shop
                 PROVE  errand'[o][k] = NoErrand
    BY <2>1 DEF ErrandsAreWorked
  <2> QED BY <1>1, <1>2, <2>1, <2>2 DEF ErrandsAreWorked
<1>5. ASSUME NEW k \in Shop, k # s, InStep(k) PROVE InStep(k)'
  <2>1. \A o \in Shipper : errand'[o][k] = errand[o][k]
    BY <1>2, <1>5
  <2> QED BY <1>5, <2>1 DEF InStep, WorksFor
<1>6. ASSUME InStep(s), GoodEnd(s, state) PROVE InStep(s)'
  <2>1. WorksFor(r, s) /\ \A o \in Shipper : o # r => ~WorksFor(o, s)
    BY <1>6 DEF InStep, WorksFor
  <2>2. \A o \in Shipper : o # r =>
            /\ errand'[o][s] = NoErrand
            /\ ~(shipper[o].at = "load" /\ s \in shipper[o].claimed)
    <3>1. \A o \in Shipper : o # r => errand'[o][s] = errand[o][s]
      BY <1>2
    <3> QED BY <2>1, <3>1 DEF WorksFor
  <2>3. shipper[r].at # "load" /\ shipper' = shipper
    BY <1>1 DEF ErrandsAreWorked
  <2>4. \A o \in Shipper : WorksFor(o, s)' => o = r /\ state # NoErrand
    BY <1>2, <2>2, <2>3 DEF WorksFor
  <2>5. \A o \in Shipper : o # r => errand'[o][s].at = "none"
    BY <2>2 DEF NoErrand
  <2> QED BY <1>2, <1>6, <2>4, <2>5 DEF InStep, GoodEnd
<1> QED BY <1>1, <1>3, <1>4, <1>5, <1>6 DEF ShipmentsIInv

LEMMA RepeatedFacts ==
  ASSUME ShipmentsTypeOK, NEW r \in Shipper, NEW s \in Shop, errand[r][s].at = "call",
         ErrandAt(r, s, [at |-> "fail"]) \/ Repeated(r, s)
  PROVE  \E state \in Errand :
            /\ ErrandAt(r, s, state) /\ state.at \in {"fail", "call"}
            /\ state.at = "call" => state.shipment = errand[r][s].shipment
<1>1. errand[r][s] \in [at : {"call"}, shipment : Assignment, again : BOOLEAN]
  BY ErrandFacts
<1>2. [at |-> "fail"] \in Errand
  BY DEF Errand
<1>3. PICK again : again = [errand[r][s] EXCEPT !.again = TRUE]
  OBVIOUS
<1>4. again \in Errand /\ again.at = "call" /\ again.shipment = errand[r][s].shipment
  BY <1>1, <1>3 DEF Errand
<1>5. ErrandAt(r, s, [at |-> "fail"]) \/ ErrandAt(r, s, again)
  BY <1>3 DEF Repeated
<1> QED BY <1>2, <1>4, <1>5

LEMMA CallSteps ==
  ASSUME ShipmentsIInv, NEW r \in Shipper, NEW s \in Shop,
         StoreTakesShipment(r, s) \/ StoreAnswerLost(r, s) \/ StoreRefuses(r, s)
            \/ StoreTimesOut(r, s)
  PROVE  ShipmentsIInv'
<1>1. /\ ShipmentsTypeOK /\ errand[r][s].at = "call" /\ errand[r][s] # NoErrand
      /\ errand[r][s] \in [at : {"call"}, shipment : Assignment, again : BOOLEAN]
      /\ UNCHANGED <<parcelOf, shipment, storeSyncs, shipper, doubtful>>
  BY ErrandFacts DEF ShipmentsIInv, StoreTakesShipment, StoreAnswerLost, StoreRefuses,
     StoreTimesOut, NoErrand
<1>2. \/ StoreTimesOut(r, s)
      \/ shipMishaps' = shipMishaps /\ lateShipments' = lateShipments
  BY DEF StoreTakesShipment, StoreAnswerLost, StoreRefuses
<1>3. tracked' = tracked \/ tracked' = [tracked EXCEPT ![s] = errand[r][s].shipment]
  BY DEF StoreTakesShipment, StoreAnswerLost, StoreRefuses, StoreTimesOut
<1>4. /\ storeSyncs' \in [Shop -> SyncStatus] /\ tracked' \in [Shop -> Assignment]
      /\ \A k \in Shop : k # s => storeSyncs'[k] = storeSyncs[k] /\ tracked'[k] = tracked[k]
      /\ shipment = 0 => storeSyncs' = NoRows
      /\ shipMishaps \in 0..MaxShipMishaps
  BY <1>1, <1>3 DEF ShipmentsTypeOK
<1>5. /\ lateShipments' \subseteq StoreCall /\ shipMishaps' \in 0..MaxShipMishaps
      /\ shipMishaps' = 0 => shipMishaps = 0 /\ lateShipments' = lateShipments
  <2>1. CASE StoreTimesOut(r, s)
    <3>1. [store |-> s, shipment |-> errand[r][s].shipment] \in StoreCall
      BY <1>1 DEF StoreCall
    <3>2. shipMishaps < MaxShipMishaps /\ shipMishaps' = shipMishaps + 1
      BY <2>1 DEF StoreTimesOut, ShipMishap
    <3>3. lateShipments' \subseteq StoreCall
      BY <1>1, <2>1, <3>1 DEF StoreTimesOut, ShipmentsTypeOK
    <3> QED BY <1>4, <3>2, <3>3, ShipmentsAssumption
  <2>2. CASE shipMishaps' = shipMishaps /\ lateShipments' = lateShipments
    BY <1>1, <1>4, <2>2 DEF ShipmentsTypeOK
  <2> QED BY <1>2, <2>1, <2>2
<1>6. PICK state \in Errand :
        /\ ErrandAt(r, s, state) /\ state.at \in {"fail", "call", "ok"}
        /\ state.at = "call" => state.shipment = errand[r][s].shipment
        /\ state.at = "ok" => tracked'[s] = errand[r][s].shipment
  <2>1. CASE StoreTakesShipment(r, s)
    <3>1. [at |-> "ok"] \in Errand
      BY DEF Errand
    <3>2. tracked'[s] = errand[r][s].shipment
      BY <1>1, <2>1 DEF StoreTakesShipment, ShipmentsTypeOK
    <3> QED BY <2>1, <3>1, <3>2 DEF StoreTakesShipment
  <2>2. CASE StoreAnswerLost(r, s) \/ StoreRefuses(r, s) \/ StoreTimesOut(r, s)
    BY <1>1, <2>2, RepeatedFacts DEF StoreAnswerLost, StoreRefuses, StoreTimesOut
  <2> QED BY <2>1, <2>2
<1>7. ASSUME InStep(s) PROVE GoodEnd(s, state)
  <2>1. storeSyncs'[s] = storeSyncs[s] /\ WorksFor(r, s)
    BY <1>1 DEF WorksFor
  <2> QED BY <1>1, <1>6, <1>7, <2>1 DEF InStep, GoodEnd
<1>8. ErrandGoesOn(r, s, state)
  BY <1>1, <1>4, <1>5, <1>6, <1>7 DEF ErrandGoesOn
<1> QED BY <1>8, ErrandMoves

LEMMA MarkSteps ==
  ASSUME ShipmentsIInv, NEW r \in Shipper, NEW s \in Shop,
         MarkShipment(r, s) \/ MarkShipmentFails(r, s)
  PROVE  ShipmentsIInv'
<1>1. /\ ShipmentsTypeOK /\ errand[r][s].at \in {"ok", "fail"} /\ errand[r][s] # NoErrand
      /\ UNCHANGED <<parcelOf, shipment, shipper, tracked, lateShipments, doubtful>>
      /\ NoErrand \in Errand /\ [at |-> "fail"] \in Errand
  BY DEF ShipmentsIInv, MarkShipment, MarkShipmentFails, NoErrand, Errand
<1>2. /\ tracked' \in [Shop -> Assignment] /\ lateShipments' \subseteq StoreCall
      /\ storeSyncs \in [Shop -> SyncStatus] /\ (shipment = 0 => storeSyncs = NoRows)
      /\ shipMishaps \in 0..MaxShipMishaps /\ shipMishaps' \in 0..MaxShipMishaps
      /\ shipMishaps' = 0 => shipMishaps = 0
  BY <1>1, ShipmentsAssumption DEF ShipmentsTypeOK, MarkShipment, MarkShipmentFails, ShipMishap
<1>3. CASE MarkShipment(r, s)
  <2>1. /\ Marked(r, s) \in SyncStatus
        /\ Marked(r, s) = "SYNCED" => storeSyncs[s] = "SYNCED" \/
              (storeSyncs[s] = "SYNCING" /\ errand[r][s].at = "ok")
        /\ storeSyncs[s] = "NONE" => Marked(r, s) = "NONE"
    BY <1>2 DEF Marked, SyncStatus
  <2>2. /\ storeSyncs' \in [Shop -> SyncStatus] /\ storeSyncs'[s] = Marked(r, s)
        /\ \A k \in Shop : k # s => storeSyncs'[k] = storeSyncs[k]
    BY <1>2, <1>3, <2>1 DEF MarkShipment
  <2>3. shipment = 0 => storeSyncs' = NoRows
    BY <1>2, <1>3, <2>1, <2>2 DEF NoRows, MarkShipment
  <2>4. ASSUME InStep(s) PROVE GoodEnd(s, NoErrand)
    <3>1. storeSyncs[s] # "SYNCED"
      BY <1>1, <2>4 DEF InStep, WorksFor
    <3> QED BY <1>1, <2>1, <2>2, <2>4, <3>1 DEF InStep, GoodEnd, NoErrand
  <2>5. ErrandGoesOn(r, s, NoErrand)
    BY <1>1, <1>2, <1>3, <2>2, <2>3, <2>4 DEF ErrandGoesOn, MarkShipment
  <2> QED BY <2>5, ErrandMoves
<1>4. CASE MarkShipmentFails(r, s)
  <2>1. PICK state \in Errand : ErrandAt(r, s, state) /\ state.at \in {"fail", "none"}
    BY <1>1, <1>4 DEF MarkShipmentFails, NoErrand
  <2>2. ASSUME InStep(s) PROVE GoodEnd(s, state)
    BY <1>1, <1>4, <2>1, <2>2 DEF MarkShipmentFails, InStep, GoodEnd, WorksFor
  <2>3. storeSyncs' = storeSyncs
    BY <1>4 DEF MarkShipmentFails
  <2>4. ErrandGoesOn(r, s, state)
    BY <1>1, <1>2, <2>1, <2>2, <2>3 DEF ErrandGoesOn
  <2> QED BY <2>4, ErrandMoves
<1> QED BY <1>3, <1>4

-----------------------------------------------------------------------------
(* Shipments: the operation and the requests                               *)

LEMMA ParcelSteps ==
  ASSUME ShipmentsIInv,
         \/ ReopenParcel \/ CloseParcel
         \/ \E s \in Shop : LinkOrder(s) \/ DropOrder(s) \/ ReturnOrder(s)
  PROVE  ShipmentsIInv'
<1>1. /\ ShipmentsTypeOK /\ ErrandsAreWorked
      /\ shipMishaps = 0 => lateShipments = {} /\ \A k \in Shop : k \notin doubtful => InStep(k)
      /\ UNCHANGED <<shipment, storeSyncs, shipper, errand, tracked, lateShipments, doubtful,
                     shipMishaps>>
  BY DEF ShipmentsIInv, ReopenParcel, CloseParcel, LinkOrder, DropOrder, ReturnOrder
<1>2. parcelOf' \in Parcel
  <2>1. parcelOf \in Parcel
    BY <1>1 DEF ShipmentsTypeOK
  <2>2. CASE ReopenParcel \/ CloseParcel
    BY <2>1, <2>2 DEF Parcel, ReopenParcel, CloseParcel
  <2>3. ASSUME NEW s \in Shop, LinkOrder(s) \/ DropOrder(s) \/ ReturnOrder(s)
        PROVE  parcelOf' \in Parcel
    <3>1. parcelOf.order \in [Shop -> OrderLink]
      BY <2>1 DEF Parcel
    <3>2. PICK order \in [Shop -> OrderLink] : parcelOf' = [parcelOf EXCEPT !.order = order]
      <4>1. PICK l \in OrderLink : parcelOf' = [parcelOf EXCEPT !.order[s] = l]
        BY <2>3 DEF LinkOrder, DropOrder, ReturnOrder, OrderLink
      <4>2. [parcelOf.order EXCEPT ![s] = l] \in [Shop -> OrderLink]
        BY <3>1
      <4> QED BY <4>1, <4>2
    <3> QED BY <2>1, <3>2 DEF Parcel
  <2> QED BY <2>2, <2>3
<1>3. ShipmentsTypeOK' /\ ErrandsAreWorked'
  BY <1>1, <1>2 DEF ShipmentsTypeOK, ErrandsAreWorked
<1>4. \A s \in Shop : InStep(s) => InStep(s)'
  BY <1>1 DEF InStep, WorksFor
<1> QED BY <1>1, <1>3, <1>4 DEF ShipmentsIInv

LEMMA DeleteParcelStep ==
  ASSUME ShipmentsIInv, DeleteParcel
  PROVE  ShipmentsIInv'
<1>1. /\ ShipmentsTypeOK /\ ErrandsAreWorked
      /\ shipMishaps = 0 => lateShipments = {} /\ \A k \in Shop : k \notin doubtful => InStep(k)
      /\ shipment' = 0 /\ storeSyncs' = NoRows /\ parcelOf' = [parcelOf EXCEPT !.state = "DELETED"]
      /\ UNCHANGED <<shipper, errand, tracked, lateShipments, doubtful, shipMishaps>>
  BY DEF ShipmentsIInv, DeleteParcel
<1>2. ShipmentsTypeOK' /\ ErrandsAreWorked'
  BY <1>1, ShipmentsAssumption
     DEF ShipmentsTypeOK, ErrandsAreWorked, Parcel, Assignment, NoRows, SyncStatus
<1>3. \A s \in Shop : InStep(s) => InStep(s)'
  BY <1>1 DEF InStep, WorksFor, NoRows
<1> QED BY <1>1, <1>2, <1>3 DEF ShipmentsIInv

(* A request moves on without its errands.                                 *)
LEMMA ShipperMoves ==
  ASSUME ShipmentsTypeOK, ErrandsAreWorked, NEW r \in Shipper, NEW state \in ShipperState,
         ShipperAt(r, state)
  PROVE  /\ shipper' \in [Shipper -> ShipperState] /\ shipper'[r] = state
         /\ \A o \in Shipper : o # r => shipper'[o] = shipper[o]
         /\ /\ shipper[r].at # "work" \/ (\A s \in Shop : errand[r][s] = NoErrand)
            /\ UNCHANGED errand
            => ErrandsAreWorked'
BY DEF ShipmentsTypeOK, ErrandsAreWorked, ShipperAt

LEMMA UpdateStep ==
  ASSUME ShipmentsIInv, NEW r \in Shipper, UpdateShipment(r)
  PROVE  ShipmentsIInv'
<1>1. /\ ShipmentsTypeOK /\ ErrandsAreWorked
      /\ shipMishaps = 0 => lateShipments = {} /\ \A k \in Shop : k \notin doubtful => InStep(k)
      /\ shipper[r] = NotShipping /\ shipment < MaxAssignments /\ shipment' = shipment + 1
      /\ storeSyncs' = MarkedRows
      /\ doubtful' = doubtful \cup {s \in Shop : parcelOf.order[s] = "none"}
      /\ ShipperAt(r, [at |-> "claim", retry |-> FALSE])
      /\ UNCHANGED <<parcelOf, errand, tracked, lateShipments, shipMishaps>>
  BY DEF ShipmentsIInv, UpdateShipment
<1>2. PICK state \in ShipperState : state.at = "claim" /\ ShipperAt(r, state)
  BY <1>1 DEF ShipperState
<1>3. /\ shipper' \in [Shipper -> ShipperState] /\ shipper'[r] = state
      /\ \A o \in Shipper : o # r => shipper'[o] = shipper[o]
      /\ ErrandsAreWorked'
  BY <1>1, <1>2, ShipperMoves DEF NotShipping
<1>4. ShipmentsTypeOK'
  <2>1. MarkedRows \in [Shop -> SyncStatus]
    BY <1>1 DEF ShipmentsTypeOK, MarkedRows, SyncStatus
  <2>2. shipment' \in Assignment /\ shipment' # 0
    BY <1>1, ShipmentsAssumption DEF ShipmentsTypeOK, Assignment
  <2> QED BY <1>1, <1>3, <2>1, <2>2 DEF ShipmentsTypeOK
<1>5. ASSUME NEW s \in Shop, s \notin doubtful', InStep(s) PROVE InStep(s)'
  <2>1. storeSyncs'[s] \notin {"SYNCING", "SYNCED"}
    <3>1. parcelOf.order[s] \in {"local", "linked"}
      BY <1>1, <1>5 DEF ShipmentsTypeOK, Parcel, OrderLink
    <3> QED BY <1>1, <3>1 DEF MarkedRows
  <2>2. \A o \in Shipper : WorksFor(o, s)' => WorksFor(o, s)
    BY <1>1, <1>2, <1>3 DEF WorksFor
  <2> QED BY <1>5, <2>1, <2>2 DEF InStep
<1> QED BY <1>1, <1>3, <1>4, <1>5 DEF ShipmentsIInv

LEMMA AskOrDoneStep ==
  ASSUME ShipmentsIInv, NEW r \in Shipper, RetryShipment(r) \/ ShipmentDone(r)
  PROVE  ShipmentsIInv'
<1>1. /\ ShipmentsTypeOK /\ ErrandsAreWorked
      /\ shipMishaps = 0 => lateShipments = {} /\ \A k \in Shop : k \notin doubtful => InStep(k)
      /\ shipper[r].at # "work" \/ (\A s \in Shop : errand[r][s] = NoErrand)
      /\ UNCHANGED <<parcelOf, shipment, storeSyncs, errand, tracked, lateShipments, doubtful,
                     shipMishaps>>
  BY DEF ShipmentsIInv, RetryShipment, ShipmentDone, NotShipping
<1>2. PICK state \in ShipperState : state.at # "load" /\ ShipperAt(r, state)
  BY DEF RetryShipment, ShipmentDone, ShipperState, NotShipping
<1>3. /\ shipper' \in [Shipper -> ShipperState] /\ shipper'[r] = state
      /\ \A o \in Shipper : o # r => shipper'[o] = shipper[o]
      /\ ErrandsAreWorked'
  BY <1>1, <1>2, ShipperMoves
<1>4. ShipmentsTypeOK'
  BY <1>1, <1>3 DEF ShipmentsTypeOK
<1>5. ASSUME NEW s \in Shop, InStep(s) PROVE InStep(s)'
  <2>1. \A o \in Shipper : WorksFor(o, s)' => WorksFor(o, s)
    BY <1>1, <1>2, <1>3 DEF WorksFor
  <2> QED BY <1>1, <1>5, <2>1 DEF InStep
<1> QED BY <1>1, <1>3, <1>4, <1>5 DEF ShipmentsIInv

LEMMA ClaimShipmentsStep ==
  ASSUME ShipmentsIInv, NEW r \in Shipper, ClaimShipments(r)
  PROVE  ShipmentsIInv'
<1>1. PICK claimed \in SUBSET Shop :
        /\ claimed = {s \in Shop : storeSyncs[s] \in Claimable(shipper[r].retry)}
        /\ storeSyncs' = [s \in Shop |-> IF s \in claimed THEN "SYNCING" ELSE storeSyncs[s]]
        /\ ShipperAt(r, IF claimed = {} THEN NotShipping
                        ELSE [at |-> "load", claimed |-> claimed])
        /\ doubtful' = doubtful \cup {s \in claimed :
              \E o \in Shipper : \/ errand[o][s] # NoErrand
                                 \/ shipper[o].at = "load" /\ s \in shipper[o].claimed}
  BY DEF ClaimShipments
<1>2. /\ ShipmentsTypeOK /\ ErrandsAreWorked /\ shipper[r].at = "claim"
      /\ shipMishaps = 0 => lateShipments = {} /\ \A k \in Shop : k \notin doubtful => InStep(k)
      /\ UNCHANGED <<parcelOf, shipment, errand, tracked, lateShipments, shipMishaps>>
  BY DEF ShipmentsIInv, ClaimShipments
<1>3. PICK state \in ShipperState :
        /\ ShipperAt(r, state)
        /\ state.at = "load" => state.claimed = claimed
  <2>1. NotShipping \in ShipperState /\ NotShipping.at # "load"
    BY DEF NotShipping, ShipperState
  <2>2. PICK load : load = [at |-> "load", claimed |-> claimed]
    OBVIOUS
  <2>3. load \in ShipperState /\ load.claimed = claimed
    BY <2>2 DEF ShipperState
  <2>4. ShipperAt(r, NotShipping) \/ ShipperAt(r, load)
    BY <1>1, <2>2
  <2> QED BY <2>1, <2>3, <2>4
<1>4. /\ shipper' \in [Shipper -> ShipperState] /\ shipper'[r] = state
      /\ \A o \in Shipper : o # r => shipper'[o] = shipper[o]
      /\ ErrandsAreWorked'
  BY <1>2, <1>3, ShipperMoves
<1>5. \A s \in claimed : storeSyncs[s] \in {"PENDING", "ERROR"}
  BY <1>1 DEF Claimable
<1>6. ShipmentsTypeOK'
  <2>1. storeSyncs' \in [Shop -> SyncStatus]
    BY <1>1, <1>2 DEF ShipmentsTypeOK, SyncStatus
  <2>2. shipment = 0 => claimed = {}
    BY <1>2, <1>5 DEF ShipmentsTypeOK, NoRows
  <2>3. shipment = 0 => storeSyncs' = NoRows
    BY <1>1, <1>2, <2>2 DEF ShipmentsTypeOK, NoRows
  <2>4. doubtful' \subseteq Shop
    BY <1>1, <1>2 DEF ShipmentsTypeOK
  <2> QED BY <1>2, <1>4, <2>1, <2>3, <2>4 DEF ShipmentsTypeOK
<1>7. ASSUME NEW s \in Shop, s \notin doubtful', InStep(s) PROVE InStep(s)'
  <2>1. CASE s \notin claimed
    <3>1. storeSyncs'[s] = storeSyncs[s]
      BY <1>1, <2>1
    <3>2. \A o \in Shipper : WorksFor(o, s)' => WorksFor(o, s)
      BY <1>2, <1>3, <1>4, <2>1 DEF WorksFor
    <3> QED BY <1>2, <1>7, <3>1, <3>2 DEF InStep
  <2>2. CASE s \in claimed
    <3>1. \A o \in Shipper : ~WorksFor(o, s)
      BY <1>1, <1>7, <2>2 DEF WorksFor
    <3>2. \A o \in Shipper : WorksFor(o, s)' => o = r
      BY <1>2, <1>4, <3>1 DEF WorksFor
    <3>3. storeSyncs'[s] = "SYNCING"
      BY <1>1, <2>2
    <3>4. \A o \in Shipper : errand'[o][s].at = "none"
      BY <1>2, <3>1 DEF WorksFor, NoErrand
    <3> QED BY <3>2, <3>3, <3>4 DEF InStep
  <2> QED BY <2>1, <2>2
<1> QED BY <1>1, <1>2, <1>4, <1>6, <1>7 DEF ShipmentsIInv

LEMMA LoadShipmentStep ==
  ASSUME ShipmentsIInv, NEW r \in Shipper, LoadShipment(r)
  PROVE  ShipmentsIInv'
<1>1. /\ ShipmentsTypeOK /\ ErrandsAreWorked /\ shipper[r].at = "load"
      /\ shipMishaps = 0 => lateShipments = {} /\ \A k \in Shop : k \notin doubtful => InStep(k)
      /\ shipper' = [shipper EXCEPT ![r] = [at |-> "work"]]
      /\ UNCHANGED <<parcelOf, shipment, storeSyncs, tracked, lateShipments, doubtful, shipMishaps>>
  BY DEF ShipmentsIInv, LoadShipment, ShipperAt
<1>2. PICK errands :
        /\ errand' = [errand EXCEPT ![r] = errands]
        /\ errands = [s \in Shop |->
              IF s \notin shipper[r].claimed \/ storeSyncs[s] # "SYNCING" THEN NoErrand
              ELSE IF parcelOf.order[s] = "linked"
              THEN [at |-> "call", shipment |-> shipment, again |-> FALSE]
              ELSE [at |-> "fail"]]
  BY DEF LoadShipment
<1>3. ASSUME NEW s \in Shop
      PROVE  /\ errands[s] \in Errand /\ errands[s].at # "ok"
             /\ errands[s] # NoErrand => s \in shipper[r].claimed
             /\ errands[s].at = "call" => errands[s].shipment = shipment
  <2>1. shipment \in Assignment
    BY <1>1 DEF ShipmentsTypeOK
  <2>2. CASE s \notin shipper[r].claimed \/ storeSyncs[s] # "SYNCING"
    <3>1. errands[s] = NoErrand
      BY <1>2, <2>2
    <3> QED BY <2>2, <3>1 DEF NoErrand, Errand
  <2>3. CASE /\ ~(s \notin shipper[r].claimed \/ storeSyncs[s] # "SYNCING")
             /\ parcelOf.order[s] = "linked"
    <3>1. errands[s] = [at |-> "call", shipment |-> shipment, again |-> FALSE]
      BY <1>2, <2>3
    <3> QED BY <2>1, <2>3, <3>1 DEF Errand
  <2>4. CASE /\ ~(s \notin shipper[r].claimed \/ storeSyncs[s] # "SYNCING")
             /\ parcelOf.order[s] # "linked"
    <3>1. errands[s] = [at |-> "fail"]
      BY <1>2, <2>4
    <3> QED BY <2>4, <3>1 DEF Errand
  <2> QED BY <2>2, <2>3, <2>4
<1>4. /\ errand' \in [Shipper -> [Shop -> Errand]] /\ errand'[r] = errands
      /\ \A o \in Shipper : o # r => errand'[o] = errand[o] /\ shipper'[o] = shipper[o]
      /\ shipper'[r].at = "work" /\ shipper' \in [Shipper -> ShipperState]
  <2>1. errands \in [Shop -> Errand]
    BY <1>2, <1>3
  <2> QED BY <1>1, <1>2, <2>1 DEF ShipmentsTypeOK, ShipperState
<1>5. ShipmentsTypeOK' /\ ErrandsAreWorked'
  BY <1>1, <1>4 DEF ShipmentsTypeOK, ErrandsAreWorked
<1>6. ASSUME NEW s \in Shop, InStep(s) PROVE InStep(s)'
  <2>1. \A o \in Shipper : WorksFor(o, s)' => WorksFor(o, s)
    BY <1>1, <1>3, <1>4 DEF WorksFor
  <2>2. \A o \in Shipper : storeSyncs[s] = "SYNCING" =>
          /\ errand'[o][s].at = "call" => errand'[o][s].shipment = shipment
          /\ errand'[o][s].at = "ok" => tracked[s] = shipment
    BY <1>3, <1>4, <1>6 DEF InStep
  <2> QED BY <1>1, <1>6, <2>1, <2>2 DEF InStep
<1> QED BY <1>1, <1>5, <1>6 DEF ShipmentsIInv

LEMMA ShipmentsOutside ==
  ASSUME ShipmentsIInv,
         (\E call \in lateShipments : LateShipmentArrives(call)) \/ ShipmentsRestart
  PROVE  ShipmentsIInv'
<1>1. /\ ShipmentsTypeOK /\ ErrandsAreWorked
      /\ shipMishaps = 0 => lateShipments = {} /\ \A k \in Shop : k \notin doubtful => InStep(k)
  BY DEF ShipmentsIInv
<1>2. ASSUME NEW call \in lateShipments, LateShipmentArrives(call) PROVE ShipmentsIInv'
  <2>1. /\ shipMishaps # 0 /\ shipMishaps' = shipMishaps
        /\ call.store \in Shop /\ call.shipment \in Assignment
    BY <1>1, <1>2 DEF LateShipmentArrives, ShipmentsTypeOK, StoreCall
  <2>2. ShipmentsTypeOK' /\ ErrandsAreWorked'
    BY <1>1, <1>2, <2>1 DEF LateShipmentArrives, ShipmentsTypeOK, ErrandsAreWorked
  <2> QED BY <2>1, <2>2 DEF ShipmentsIInv
<1>3. CASE ShipmentsRestart
  <2>1. /\ shipMishaps' \in 0..MaxShipMishaps /\ shipMishaps' # 0
        /\ UNCHANGED <<parcelOf, shipment, storeSyncs, tracked, doubtful>>
    BY <1>1, <1>3, ShipmentsAssumption DEF ShipmentsRestart, ShipMishap, ShipmentsTypeOK
  <2>2. lateShipments' \subseteq StoreCall
    <3> DEFINE calls == {[store |-> p[2], shipment |-> errand[p[1]][p[2]].shipment] : p \in
                {q \in Shipper \X Shop : errand[q[1]][q[2]].at = "call"}}
    <3>1. calls \subseteq StoreCall
      <4>1. ASSUME NEW p \in Shipper \X Shop, errand[p[1]][p[2]].at = "call"
            PROVE  [store |-> p[2], shipment |-> errand[p[1]][p[2]].shipment] \in StoreCall
        <5>1. p[1] \in Shipper /\ p[2] \in Shop
          OBVIOUS
        <5>2. errand[p[1]][p[2]].shipment \in Assignment
          BY <1>1, <4>1, <5>1, ErrandFacts
        <5> QED BY <5>1, <5>2 DEF StoreCall
      <4> QED BY <4>1
    <3>2. PICK some \in SUBSET calls : lateShipments' = lateShipments \cup some
      BY <1>3 DEF ShipmentsRestart
    <3> QED BY <1>1, <3>1, <3>2 DEF ShipmentsTypeOK
  <2>3. /\ NotShipping \in ShipperState /\ NoErrand \in Errand
        /\ shipper' = [r \in Shipper |-> NotShipping]
        /\ errand' = [r \in Shipper |-> [s \in Shop |-> NoErrand]]
    BY <1>3 DEF ShipmentsRestart, NotShipping, NoErrand, ShipperState, Errand
  <2>4. ShipmentsTypeOK' /\ ErrandsAreWorked'
    BY <1>1, <2>1, <2>2, <2>3 DEF ShipmentsTypeOK, ErrandsAreWorked
  <2> QED BY <2>1, <2>4 DEF ShipmentsIInv
<1> QED BY <1>2, <1>3

(* The inductive invariant: until something goes wrong, one request at a   *)
(* time works for a store, with the data of the last assignment.           *)
THEOREM ShipmentsAreSound == ShipmentsSpec => []ShipmentsIInv
<1>1. ShipmentsInit => ShipmentsIInv
  <2>1. SUFFICES ASSUME ShipmentsInit PROVE ShipmentsIInv
    OBVIOUS
  <2>2. /\ NotShipping \in ShipperState /\ NoErrand \in Errand /\ NoErrand.at = "none"
        /\ 0 \in Assignment /\ 0 \in 0..MaxShipMishaps /\ NoRows \in [Shop -> SyncStatus]
    BY ShipmentsAssumption
       DEF NotShipping, NoErrand, ShipperState, Errand, Assignment, NoRows, SyncStatus
  <2>3. parcelOf \in Parcel
    BY <2>1 DEF ShipmentsInit, Parcel, OrderLink
  <2>4. ShipmentsTypeOK
    BY <2>1, <2>2, <2>3 DEF ShipmentsInit, ShipmentsTypeOK
  <2>5. ErrandsAreWorked /\ \A s \in Shop : InStep(s)
    BY <2>1, <2>2 DEF ShipmentsInit, ErrandsAreWorked, InStep, WorksFor, NoRows, NotShipping
  <2> QED BY <2>1, <2>4, <2>5 DEF ShipmentsInit, ShipmentsIInv
<1>2. ShipmentsIInv /\ [ShipmentsNext]_shipmentVars => ShipmentsIInv'
  <2>1. SUFFICES ASSUME ShipmentsIInv, [ShipmentsNext]_shipmentVars PROVE ShipmentsIInv'
    OBVIOUS
  <2>2. CASE UNCHANGED shipmentVars
    BY <2>1, <2>2 DEF shipmentVars, ShipmentsIInv, ShipmentsTypeOK, ErrandsAreWorked, InStep,
       WorksFor
  <2>3. CASE ReopenParcel \/ CloseParcel \/ DeleteParcel
             \/ \E s \in Shop : LinkOrder(s) \/ DropOrder(s) \/ ReturnOrder(s)
    BY <2>1, <2>3, ParcelSteps, DeleteParcelStep
  <2>4. ASSUME NEW r \in Shipper, UpdateShipment(r) \/ RetryShipment(r) \/ ShipperStep(r)
        PROVE  ShipmentsIInv'
    BY <2>1, <2>4, UpdateStep, AskOrDoneStep, ClaimShipmentsStep, LoadShipmentStep
       DEF ShipperStep
  <2>5. ASSUME NEW r \in Shipper, NEW s \in Shop, ErrandStep(r, s) PROVE ShipmentsIInv'
    BY <2>1, <2>5, CallSteps, MarkSteps DEF ErrandStep
  <2>6. CASE (\E call \in lateShipments : LateShipmentArrives(call)) \/ ShipmentsRestart
    BY <2>1, <2>6, ShipmentsOutside
  <2> QED BY <2>1, <2>2, <2>3, <2>4, <2>5, <2>6 DEF ShipmentsNext
<1> QED BY <1>1, <1>2, PTL DEF ShipmentsSpec

(* A store shown as SYNCED shows the last assignment.                      *)
THEOREM ShipmentsAreCurrent == ShipmentsSpec => []SyncedIsCurrent
<1>1. ShipmentsIInv => SyncedIsCurrent
  BY DEF ShipmentsIInv, InStep, SyncedIsCurrent
<1> QED BY <1>1, ShipmentsAreSound, PTL

-----------------------------------------------------------------------------
(* Jobs, rows and identifiers                                              *)

LEMMA JobFacts ==
  ASSUME CustomersTypeOK, NEW r \in Syncer, NEW p \in Provider
  PROVE  /\ job[r][p] \in SyncJob
         /\ job[r][p] = NoJob <=> job[r][p].at = "none"
         /\ Active(r, p) <=> job[r][p].at \in
                {"start", "find", "create", "failed", "remember", "update", "synced"}
         /\ Queues(r, p) => job[r][p].data \in Ficha
         /\ job[r][p].at \in {"queued", "start", "remember", "update", "synced"} =>
                job[r][p].id \in PersonId
         /\ job[r][p].at = "queued" => job[r][p].after \in Syncer
         /\ job[r][p].at = "joined" => job[r][p].with \in Syncer
<1>1. job[r][p] \in SyncJob
  BY DEF CustomersTypeOK
<1> QED BY <1>1 DEF SyncJob, Call, Active, Queues, NoJob

LEMMA JobMoves ==
  ASSUME CustomersTypeOK, NEW r \in Syncer, NEW p \in Provider,
         NEW state \in SyncJob, JobAtStep(r, p, state)
  PROVE  /\ job' \in [Syncer -> [Provider -> SyncJob]]
         /\ job'[r][p] = state
         /\ \A q \in Syncer, k \in Provider : q # r \/ k # p => job'[q][k] = job[q][k]
  BY DEF CustomersTypeOK, JobAtStep

(* The deletion only goes on with what it read.                            *)
RemovalGoesOn ==
  remover'.at = "stores" =>
    remover.at = "stores" /\ remover'.left \subseteq remover.left /\ remover'.ids = remover.ids

(* The rest of the invariant, about a provider where nothing happens.      *)
LEMMA ElsewhereTheSame ==
  ASSUME NEW k \in Provider, Queue(k), KnownPeople(k), k \notin uncertain => Present(k),
         \A q \in Syncer : job'[q][k] = job[q][k],
         inFlight[k] \in Syncer \cup {Nobody}, inFlight'[k] = inFlight[k], link'[k] = link[k], people'[k] = people[k],
         ficha'.data = ficha.data, syncer' = syncer, RemovalGoesOn,
         \A c \in lateCalls' : c.provider = k => c \in lateCalls,
         k \notin uncertain' => k \notin uncertain
  PROVE  /\ Queue(k)' /\ KnownPeople(k)'
         /\ k \notin uncertain' => Present(k)'
<1>1. Queue(k)'
  BY DEF Queue, Active, Queues, Waits
<1>2. KnownPeople(k)'
  BY DEF KnownPeople, Person, RemovalGoesOn
<1>3. k \notin uncertain' => Present(k)'
  BY DEF Present, NothingOlder, Person, Active, Queues
<1> QED BY <1>1, <1>2, <1>3

(* A customer that the provider has after the step.                        *)
PersonThen(p, id) == id \in 1..Len(people'[p])

LEMMA StillSomebody ==
  ASSUME CustomersTypeOK, NEW p \in Provider, NEW id,
         Len(people[p]) <= Len(people'[p]), Len(people'[p]) \in Nat, Person(p, id)
  PROVE  PersonThen(p, id)
  BY DEF CustomersTypeOK, Person, PersonThen

-----------------------------------------------------------------------------
(* A job goes on                                                           *)

(* The active job of a queue takes a step, that may change the row there   *)
(* and the customers of the provider.                                      *)
Advances(r, p, state) ==
  /\ Active(r, p) /\ JobAtStep(r, p, state)
  /\ state \in SyncJob
  /\ state.at \in {"find", "create", "failed", "remember", "update", "synced"}
  /\ UNCHANGED <<ficha, syncer, inFlight, remover, edits>>
  /\ link' \in [Provider -> LinkRow] /\ (ficha.deleted <=> link'[p] = GoneRow)
  /\ people' \in [Provider -> Seq(Ficha \cup {"removed"})]
  /\ Len(people[p]) <= Len(people'[p]) /\ Len(people'[p]) <= MaxPeople
  /\ \A k \in Provider : k # p => link'[k] = link[k] /\ people'[k] = people[k]
  /\ link'[p].id = 0 \/ PersonThen(p, link'[p].id)
  /\ state.at \in {"remember", "update", "synced"} => PersonThen(p, state.id)
  /\ lateCalls' \subseteq LateCall
  /\ \A c \in lateCalls' : c \in lateCalls \/
        (/\ c.provider = p /\ c.data = job[r][p].data
         /\ PersonThen(p, c.id) \/ (c.id = 0 /\ c.data \in Ficha))
  /\ uncertain' \in {uncertain, uncertain \ {p}}
  /\ p \in uncertain => p \in uncertain' \/ NothingOlder(p)
  /\ p \notin uncertain' =>
        /\ state.data = job[r][p].data /\ link'[p].status # "SYNCED"
        /\ state.at = "synced" => people'[p][state.id] = state.data

LEMMA AdvanceStep ==
  ASSUME CustomersIInv, NEW r \in Syncer, NEW p \in Provider, NEW state,
         Advances(r, p, state)
  PROVE  CustomersIInv'
<1> USE DEF Advances
<1>1. CustomersTypeOK /\ JobsAreWorked
      /\ \A k \in Provider : Queue(k) /\ KnownPeople(k) /\ (k \notin uncertain => Present(k))
  BY DEF CustomersIInv
<1>2. /\ job' \in [Syncer -> [Provider -> SyncJob]] /\ job'[r][p] = state
      /\ \A q \in Syncer, k \in Provider : q # r \/ k # p => job'[q][k] = job[q][k]
  BY <1>1, JobMoves
<1>3. CustomersTypeOK'
  BY <1>1, <1>2 DEF CustomersTypeOK
<1>4. JobsAreWorked'
  <2>1. job[r][p] # NoJob
    BY DEF Active, NoJob
  <2>2. syncer[r].at = "work" /\ syncer' = syncer
    BY <1>1, <2>1 DEF JobsAreWorked
  <2>3. SUFFICES ASSUME NEW q \in Syncer, NEW k \in Provider, job'[q][k] # NoJob
                 PROVE  syncer[q].at = "work"
    BY <2>2 DEF JobsAreWorked
  <2>4. CASE q = r
    BY <2>2, <2>4
  <2>5. CASE q # r
    <3>1. job'[q][k] = job[q][k]
      BY <1>2, <2>5
    <3> QED BY <1>1, <2>3, <3>1 DEF JobsAreWorked
  <2> QED BY <2>4, <2>5
<1>5. ASSUME NEW k \in Provider, k # p
      PROVE  Queue(k)' /\ KnownPeople(k)' /\ (k \notin uncertain' => Present(k)')
  <2>1. inFlight[k] \in Syncer \cup {Nobody}
    BY <1>1 DEF CustomersTypeOK
  <2>2. RemovalGoesOn
    BY DEF RemovalGoesOn
  <2> QED BY <1>1, <1>2, <1>5, <2>1, <2>2, ElsewhereTheSame
<1>6. Queue(p)'
  <2>1. \A q \in Syncer : /\ Active(q, p)' <=> Active(q, p)
                          /\ Queues(q, p)' <=> Queues(q, p)
                          /\ \A o \in Syncer : Waits(q, p, o)' <=> Waits(q, p, o)
    BY <1>2 DEF Active, Queues, Waits
  <2>2. inFlight[p] \in Syncer \cup {Nobody}
    BY <1>1 DEF CustomersTypeOK
  <2> QED BY <1>1, <2>1, <2>2 DEF Queue
<1>7. \A id : Person(p, id) => PersonThen(p, id)
  <2>1. Len(people'[p]) \in Nat
    OBVIOUS
  <2> QED BY <1>1, <2>1, StillSomebody
<1>8. KnownPeople(p)'
  <2>1. /\ syncer' = syncer /\ remover' = remover
        /\ link'[p].id = 0 \/ PersonThen(p, link'[p].id)
    OBVIOUS
  <2>2. ASSUME NEW q \in Syncer
        PROVE  /\ syncer[q].at = "read" =>
                    syncer[q].seen.ids[p] = 0 \/ PersonThen(p, syncer[q].seen.ids[p])
               /\ job'[q][p].at \in {"queued", "start"} =>
                    job'[q][p].id = 0 \/ PersonThen(p, job'[q][p].id)
               /\ job'[q][p].at \in {"remember", "update", "synced"} =>
                    PersonThen(p, job'[q][p].id)
    <3>1. CASE q = r
      BY <1>1, <1>2, <1>7, <3>1 DEF KnownPeople
    <3>2. CASE q # r
      <4>1. job'[q][p] = job[q][p]
        BY <1>2, <3>2
      <4> QED BY <1>1, <1>7, <4>1 DEF KnownPeople
    <3> QED BY <3>1, <3>2
  <2>3. remover.at = "stores" /\ p \in remover.left => PersonThen(p, remover.ids[p])
    BY <1>1, <1>7 DEF KnownPeople
  <2>4. \A c \in lateCalls' : c.provider = p =>
            PersonThen(p, c.id) \/ (c.id = 0 /\ c.data \in Ficha)
    BY <1>1, <1>7 DEF KnownPeople
  <2> QED BY <2>1, <2>2, <2>3, <2>4 DEF KnownPeople, Person, PersonThen
<1>9. ASSUME p \notin uncertain' PROVE Present(p)'
  <2>1. NothingOlder(p) /\ \A o \in Syncer : Active(o, p) => o = r
    BY <1>1, <1>9 DEF Queue, Present
  <2>2. Queues(r, p) /\ job[r][p].data = ficha.data
    BY <2>1 DEF NothingOlder, Active, Queues
  <2>3. \A c \in lateCalls' : c.provider = p => c.data = ficha.data
    BY <2>1, <2>2 DEF NothingOlder
  <2>4. ASSUME NEW o \in Syncer
        PROVE  /\ Queues(o, p)' => job'[o][p].data = ficha'.data
               /\ job'[o][p].at = "synced" => people'[p][job'[o][p].id] = ficha'.data
    <3>1. CASE o = r
      BY <1>2, <1>9, <2>2, <3>1
    <3>2. CASE o # r
      BY <1>2, <2>1, <3>2 DEF NothingOlder, Active, Queues
    <3> QED BY <3>1, <3>2
  <2>5. NothingOlder(p)'
    BY <2>1, <2>3, <2>4 DEF NothingOlder
  <2>6. \A o \in Syncer : job'[o][p].at = "synced" => people'[p][job'[o][p].id] = ficha'.data
    BY <2>4
  <2> QED BY <1>9, <2>5, <2>6 DEF Present
<1> QED BY <1>3, <1>4, <1>5, <1>6, <1>8, <1>9 DEF CustomersIInv

LEMMA PendingStep ==
  ASSUME CustomersIInv, NEW r \in Syncer, NEW p \in Provider, MarkPending(r, p)
  PROVE  CustomersIInv'
<1>1. /\ CustomersTypeOK /\ KnownPeople(p)
      /\ job[r][p].at = "start" /\ ~ficha.deleted
      /\ link' = [link EXCEPT ![p].status = "PENDING"]
      /\ UNCHANGED <<ficha, syncer, inFlight, remover, people, lateCalls,
                     uncertain, edits, syncMishaps>>
  BY DEF CustomersIInv, MarkPending
<1>2. job[r][p].data \in Ficha /\ job[r][p].id \in PersonId /\ Active(r, p)
  BY <1>1, JobFacts DEF Queues
<1>3. job[r][p].id = 0 \/ Person(p, job[r][p].id)
  BY <1>1 DEF KnownPeople
<1>4. PICK state \in SyncJob :
        /\ JobAtStep(r, p, state) /\ state.at \in {"find", "update"}
        /\ state.data = job[r][p].data
        /\ state.at = "update" => state.id = job[r][p].id /\ Person(p, job[r][p].id)
  <2>1. CASE job[r][p].id = 0
    BY <1>2, <2>1 DEF MarkPending, SyncJob, Call
  <2>2. CASE job[r][p].id # 0
    BY <1>2, <1>3, <2>2 DEF MarkPending, SyncJob, Call
  <2> QED BY <2>1, <2>2
<1>5. link[p] \in LinkRow /\ link \in [Provider -> LinkRow]
  BY <1>1 DEF CustomersTypeOK
<1>6. [link[p] EXCEPT !.status = "PENDING"] \in LinkRow
  BY <1>5 DEF LinkRow
<1>7. /\ link' \in [Provider -> LinkRow] /\ link'[p].status = "PENDING"
      /\ link'[p].id = link[p].id /\ \A k \in Provider : k # p => link'[k] = link[k]
  BY <1>1, <1>5, <1>6 DEF LinkRow
<1>8. link'[p] # GoneRow
  BY <1>7 DEF GoneRow
<1>9. \A id : Person(p, id) => PersonThen(p, id)
  BY <1>1 DEF Person, PersonThen
<1>10. link'[p].id = 0 \/ PersonThen(p, link'[p].id)
  BY <1>1, <1>7, <1>9 DEF KnownPeople
<1>11. /\ people' \in [Provider -> Seq(Ficha \cup {"removed"})] /\ lateCalls' \subseteq LateCall
       /\ Len(people[p]) <= Len(people'[p]) /\ Len(people'[p]) <= MaxPeople
  BY <1>1 DEF CustomersTypeOK
<1>20. Advances(r, p, state)
  BY <1>1, <1>2, <1>4, <1>7, <1>8, <1>9, <1>10, <1>11 DEF Advances
<1> QED BY <1>20, AdvanceStep

(* Where no version may come late, a row says SYNCED only before the job   *)
(* of the queue has begun.                                                 *)
LEMMA NotYetSynced ==
  ASSUME CustomersIInv, NEW r \in Syncer, NEW p \in Provider,
         Active(r, p), job[r][p].at # "start", p \notin uncertain
  PROVE  link[p].status # "SYNCED"
  BY DEF CustomersIInv, Present, NothingOlder

(* A step of a job that changes nothing but the job.                       *)
LEMMA QuietStep ==
  ASSUME CustomersIInv, NEW r \in Syncer, NEW p \in Provider, NEW state \in SyncJob,
         Active(r, p), job[r][p].at # "start", JobAtStep(r, p, state),
         state.at \in {"find", "create", "failed", "remember", "update"},
         state.data = job[r][p].data,
         state.at \in {"remember", "update"} => Person(p, state.id),
         UNCHANGED <<ficha, link, syncer, inFlight, remover, people, lateCalls, uncertain, edits>>
  PROVE  CustomersIInv'
<1>1. CustomersTypeOK /\ KnownPeople(p)
  BY DEF CustomersIInv
<1>2. \A id : Person(p, id) => PersonThen(p, id)
  BY DEF Person, PersonThen
<1>3. /\ link' \in [Provider -> LinkRow] /\ (ficha.deleted <=> link'[p] = GoneRow)
      /\ people' \in [Provider -> Seq(Ficha \cup {"removed"})] /\ lateCalls' \subseteq LateCall
      /\ Len(people[p]) <= Len(people'[p]) /\ Len(people'[p]) <= MaxPeople
  BY <1>1 DEF CustomersTypeOK
<1>4. link'[p].id = 0 \/ PersonThen(p, link'[p].id)
  BY <1>1, <1>2 DEF KnownPeople
<1>5. p \notin uncertain' => link'[p].status # "SYNCED"
  BY NotYetSynced
<1>20. Advances(r, p, state)
  BY <1>2, <1>3, <1>4, <1>5 DEF Advances
<1> QED BY <1>20, AdvanceStep

LEMMA FindStep ==
  ASSUME CustomersIInv, NEW r \in Syncer, NEW p \in Provider, FindCustomer(r, p)
  PROVE  CustomersIInv'
<1> DEFINE data == job[r][p].data
<1> DEFINE known == KnownAs(p, data)
<1>1. /\ CustomersTypeOK /\ job[r][p].at = "find"
      /\ UNCHANGED <<ficha, link, syncer, inFlight, remover, people, lateCalls, uncertain, edits>>
  BY DEF CustomersIInv, FindCustomer
<1>2. data \in Ficha /\ Active(r, p)
  BY <1>1, JobFacts DEF Queues
<1>3. \A i \in known : Person(p, i) /\ i \in PersonId
  BY <1>1, CustomersAssumption DEF KnownAs, Person, CustomersTypeOK, PersonId
<1>4. PICK state \in SyncJob :
        /\ JobAtStep(r, p, state) /\ state.at \in {"create", "failed", "remember"}
        /\ state.data = data
        /\ state.at = "remember" => Person(p, state.id)
  <2>1. CASE known = {}
    BY <1>2, <2>1 DEF FindCustomer, SyncJob, Call
  <2>2. CASE known # {} /\ Cardinality(known) > 1
    BY <1>2, <2>2 DEF FindCustomer, SyncJob, Call
  <2>3. CASE known # {} /\ ~(Cardinality(known) > 1)
    <3>1. PICK i \in known : i = CHOOSE j \in known : TRUE
      BY <2>3
    <3>2. JobAtStep(r, p, [at |-> "remember", data |-> data, id |-> i])
      BY <2>3, <3>1 DEF FindCustomer
    <3> QED BY <1>2, <1>3, <3>2 DEF SyncJob, Call
  <2> QED BY <2>1, <2>2, <2>3
<1> QED BY <1>1, <1>2, <1>4, QuietStep

LEMMA FailedIsAJob ==
  ASSUME CustomersTypeOK, NEW r \in Syncer, NEW p \in Provider, Active(r, p)
  PROVE  FailedJob(r, p) \in SyncJob /\ FailedJob(r, p).at = "failed"
         /\ FailedJob(r, p).data = job[r][p].data
<1>1. job[r][p].data \in Ficha
  BY JobFacts DEF Active, Queues
<1> QED BY <1>1 DEF FailedJob, SyncJob, Call

LEMMA FailsStep ==
  ASSUME CustomersIInv, NEW r \in Syncer, NEW p \in Provider,
         ProviderRefuses(r, p) \/ MarkSyncedFails(r, p)
  PROVE  CustomersIInv'
<1>1. /\ CustomersTypeOK
      /\ job[r][p].at \in {"find", "remember", "create", "update", "synced"}
      /\ JobAtStep(r, p, FailedJob(r, p))
      /\ UNCHANGED <<ficha, link, syncer, inFlight, remover, people, lateCalls, uncertain, edits>>
  BY DEF CustomersIInv, ProviderRefuses, MarkSyncedFails
<1>2. Active(r, p)
  BY <1>1 DEF Active
<1>3. PICK state \in SyncJob : state = FailedJob(r, p)
  BY <1>1, <1>2, FailedIsAJob
<1> QED BY <1>1, <1>2, <1>3, FailedIsAJob, QuietStep

LEMMA RememberStep ==
  ASSUME CustomersIInv, NEW r \in Syncer, NEW p \in Provider, RememberExternalId(r, p)
  PROVE  CustomersIInv'
<1>1. /\ CustomersTypeOK /\ KnownPeople(p) /\ link \in [Provider -> LinkRow]
      /\ job[r][p].at = "remember" /\ ~ficha.deleted
      /\ link' = [link EXCEPT ![p].id = job[r][p].id]
      /\ JobAtStep(r, p, [job[r][p] EXCEPT !.at = "update"])
      /\ UNCHANGED <<ficha, syncer, inFlight, remover, people, lateCalls, uncertain, edits>>
  BY DEF CustomersIInv, CustomersTypeOK, RememberExternalId
<1>2. /\ job[r][p] \in SyncJob /\ job[r][p].data \in Ficha /\ job[r][p].id \in PersonId
      /\ Active(r, p) /\ Person(p, job[r][p].id)
  BY <1>1, JobFacts DEF Queues, KnownPeople
<1>3. PICK state \in SyncJob :
        /\ JobAtStep(r, p, state) /\ state.at = "update"
        /\ state.data = job[r][p].data /\ state.id = job[r][p].id
  <2>1. job[r][p] \in [at : {"remember", "update", "synced"}, data : Ficha, id : PersonId]
    BY <1>1, <1>2 DEF SyncJob, Call
  <2>2. /\ [job[r][p] EXCEPT !.at = "update"] \in
                [at : {"remember", "update", "synced"}, data : Ficha, id : PersonId]
        /\ [job[r][p] EXCEPT !.at = "update"].at = "update"
        /\ [job[r][p] EXCEPT !.at = "update"].data = job[r][p].data
        /\ [job[r][p] EXCEPT !.at = "update"].id = job[r][p].id
    BY <2>1
  <2> QED BY <1>1, <2>2 DEF SyncJob, Call
<1>4. link[p] \in LinkRow /\ [link[p] EXCEPT !.id = job[r][p].id] \in LinkRow
  BY <1>1, <1>2 DEF LinkRow
<1>5. /\ link' \in [Provider -> LinkRow] /\ link'[p].status = link[p].status
      /\ link'[p].id = job[r][p].id /\ \A k \in Provider : k # p => link'[k] = link[k]
  BY <1>1, <1>4 DEF LinkRow
<1>6. link'[p] # GoneRow
  BY <1>2, <1>5 DEF GoneRow, Person
<1>7. \A id : Person(p, id) => PersonThen(p, id)
  BY <1>1 DEF Person, PersonThen
<1>8. /\ people' \in [Provider -> Seq(Ficha \cup {"removed"})] /\ lateCalls' \subseteq LateCall
      /\ uncertain' \subseteq Provider
      /\ Len(people[p]) <= Len(people'[p]) /\ Len(people'[p]) <= MaxPeople
  BY <1>1 DEF CustomersTypeOK
<1>9. p \notin uncertain' => link'[p].status # "SYNCED"
  BY <1>1, <1>2, <1>5, NotYetSynced
<1>10. /\ link'[p].id = 0 \/ PersonThen(p, link'[p].id)
       /\ PersonThen(p, state.id)
  BY <1>2, <1>3, <1>5, <1>7
<1>20. Advances(r, p, state)
  BY <1>1, <1>2, <1>3, <1>5, <1>6, <1>8, <1>9, <1>10 DEF Advances
<1> QED BY <1>20, AdvanceStep

(* What a provider has after a call that it accepted.                      *)
LEMMA CarriedFacts ==
  ASSUME CustomersTypeOK, NEW p \in Provider, NEW call,
         call.data \in Ficha \cup {"removed"},
         call.at = "create" => Len(people[p]) < MaxPeople,
         call.at # "create" => Person(p, call.id)
  PROVE  /\ Carried(p, call) \in Seq(Ficha \cup {"removed"})
         /\ Len(people[p]) <= Len(Carried(p, call)) /\ Len(Carried(p, call)) <= MaxPeople
         /\ IdOf(p, call) \in 1..Len(Carried(p, call)) /\ IdOf(p, call) \in PersonId
         /\ Carried(p, call)[IdOf(p, call)] = call.data
<1>1. /\ people[p] \in Seq(Ficha \cup {"removed"}) /\ Len(people[p]) \in Nat
      /\ Len(people[p]) <= MaxPeople /\ MaxPeople \in Nat
  BY CustomersAssumption DEF CustomersTypeOK
<1>2. CASE call.at = "create"
  BY <1>1, <1>2 DEF Carried, IdOf, PersonId
<1>3. CASE call.at # "create"
  BY <1>1, <1>3 DEF Carried, IdOf, Person, PersonId
<1> QED BY <1>2, <1>3

LEMMA CallingFacts ==
  ASSUME CustomersIInv, NEW r \in Syncer, NEW p \in Provider, Calling(r, p)
  PROVE  /\ Active(r, p) /\ job[r][p].at \in {"create", "update"} /\ job[r][p].data \in Ficha
         /\ job[r][p].at = "update" => Person(p, job[r][p].id)
<1>1. CustomersTypeOK /\ KnownPeople(p) /\ job[r][p].at \in {"create", "update"}
  BY DEF CustomersIInv, Calling
<1> QED BY <1>1, JobFacts DEF KnownPeople, Queues

LEMMA AcceptStep ==
  ASSUME CustomersIInv, NEW r \in Syncer, NEW p \in Provider, ProviderAccepts(r, p)
  PROVE  CustomersIInv'
<1>1. /\ CustomersTypeOK /\ KnownPeople(p) /\ Calling(r, p) /\ Accepts(p, job[r][p])
      /\ people' = [people EXCEPT ![p] = Carried(p, job[r][p])]
      /\ JobAtStep(r, p, [at |-> "synced", data |-> job[r][p].data, id |-> IdOf(p, job[r][p])])
      /\ uncertain' = IF NothingOlder(p) /\ link[p].status # "SYNCED"
                      THEN uncertain \ {p} ELSE uncertain
      /\ UNCHANGED <<ficha, link, syncer, inFlight, remover, lateCalls, edits>>
  BY DEF CustomersIInv, ProviderAccepts
<1>2. /\ Active(r, p) /\ job[r][p].at \in {"create", "update"} /\ job[r][p].data \in Ficha
      /\ job[r][p].at = "update" => Person(p, job[r][p].id)
  BY <1>1, CallingFacts
<1>3. PICK carried, id :
        /\ carried = Carried(p, job[r][p]) /\ id = IdOf(p, job[r][p])
        /\ carried \in Seq(Ficha \cup {"removed"})
        /\ Len(people[p]) <= Len(carried) /\ Len(carried) <= MaxPeople
        /\ id \in 1..Len(carried) /\ id \in PersonId
        /\ carried[id] = job[r][p].data
  BY <1>1, <1>2, CarriedFacts DEF Accepts
<1>4. PICK state \in SyncJob :
        /\ JobAtStep(r, p, state) /\ state.at = "synced"
        /\ state.data = job[r][p].data /\ state.id = id
  BY <1>1, <1>2, <1>3 DEF SyncJob, Call
<1>5. /\ people' \in [Provider -> Seq(Ficha \cup {"removed"})] /\ people'[p] = carried
      /\ \A k \in Provider : k # p => people'[k] = people[k]
  BY <1>1, <1>3 DEF CustomersTypeOK
<1>6. \A i : Person(p, i) => PersonThen(p, i)
  <2>1. Len(people'[p]) \in Nat
    BY <1>3, <1>5
  <2> QED BY <1>1, <1>3, <1>5, <2>1, StillSomebody
<1>7. /\ link' \in [Provider -> LinkRow] /\ (ficha.deleted <=> link'[p] = GoneRow)
      /\ lateCalls' \subseteq LateCall /\ uncertain' \in {uncertain, uncertain \ {p}}
      /\ p \in uncertain => p \in uncertain' \/ NothingOlder(p)
  BY <1>1 DEF CustomersTypeOK
<1>8. link'[p].id = 0 \/ PersonThen(p, link'[p].id)
  BY <1>1, <1>6 DEF KnownPeople
<1>9. PersonThen(p, state.id) /\ people'[p][state.id] = state.data
  BY <1>3, <1>4, <1>5 DEF PersonThen
<1>10. p \notin uncertain' => link'[p].status # "SYNCED"
  <2>1. p \notin uncertain => link[p].status # "SYNCED"
    BY <1>2, NotYetSynced
  <2> QED BY <1>1, <2>1
<1>20. Advances(r, p, state)
  BY <1>1, <1>2, <1>3, <1>4, <1>5, <1>7, <1>8, <1>9, <1>10 DEF Advances
<1> QED BY <1>20, AdvanceStep

(* What a job asked of its provider, as it may arrive later.               *)
LEMMA OnItsWayFacts ==
  ASSUME CustomersIInv, NEW r \in Syncer, NEW p \in Provider, Calling(r, p)
  PROVE  /\ OnItsWay(r, p) \in LateCall /\ OnItsWay(r, p).provider = p
         /\ OnItsWay(r, p).data = job[r][p].data /\ job[r][p].data \in Ficha
         /\ Person(p, OnItsWay(r, p).id) \/ OnItsWay(r, p).id = 0
<1>1. /\ job[r][p].at \in {"create", "update"} /\ job[r][p].data \in Ficha
      /\ job[r][p].at = "update" => Person(p, job[r][p].id)
  BY CallingFacts
<1>2. 0 \in PersonId /\ (job[r][p].at = "update" => job[r][p].id \in PersonId)
  BY JobFacts, CustomersAssumption DEF CustomersIInv, PersonId
<1> QED BY <1>1, <1>2 DEF OnItsWay, LateCall

(* The answer is lost: what was asked was done, or is still on its way.    *)
LEMMA LostStep ==
  ASSUME CustomersIInv, NEW r \in Syncer, NEW p \in Provider, AnswerIsLost(r, p)
  PROVE  CustomersIInv'
<1> DEFINE call == job[r][p]
<1>1. /\ CustomersTypeOK /\ KnownPeople(p) /\ Calling(r, p)
      /\ UNCHANGED <<ficha, link, syncer, inFlight, remover, uncertain, edits>>
  BY DEF CustomersIInv, AnswerIsLost
<1>2. /\ Active(r, p) /\ call.at \in {"create", "update"} /\ call.data \in Ficha
      /\ call.at = "update" => Person(p, call.id)
  BY <1>1, CallingFacts
<1>3. PICK state \in SyncJob : 
        /\ JobAtStep(r, p, state) /\ state.at \in {"failed", "update"}
        /\ state.data = call.data /\ (state.at = "update" => Person(p, state.id))
  <2>1. CASE JobAtStep(r, p, FailedJob(r, p))
    <3>1. PICK state \in SyncJob : state = FailedJob(r, p)
      BY <1>1, <1>2, FailedIsAJob
    <3> QED BY <1>1, <1>2, <2>1, <3>1, FailedIsAJob
  <2>2. CASE call.at = "update" /\ job' = job
    <3>1. call \in SyncJob /\ job = [job EXCEPT ![r][p] = call]
      BY <1>1 DEF CustomersTypeOK
    <3> QED BY <1>2, <2>2, <3>1 DEF JobAtStep
  <2> QED BY <2>1, <2>2 DEF AnswerIsLost
<1>4. /\ people' \in [Provider -> Seq(Ficha \cup {"removed"})]
      /\ Len(people[p]) <= Len(people'[p]) /\ Len(people'[p]) <= MaxPeople
      /\ \A k \in Provider : k # p => people'[k] = people[k]
      /\ \/ lateCalls' = lateCalls
         \/ /\ people' = people
            /\ lateCalls' = lateCalls \cup {OnItsWay(r, p)}
  <2>1. CASE people' = people
    BY <1>1, <2>1 DEF CustomersTypeOK, AnswerIsLost
  <2>2. CASE people' = [people EXCEPT ![p] = Carried(p, call)] /\ Accepts(p, call) /\ lateCalls' = lateCalls
    <3>1. /\ Carried(p, call) \in Seq(Ficha \cup {"removed"})
          /\ Len(people[p]) <= Len(Carried(p, call)) /\ Len(Carried(p, call)) <= MaxPeople
      BY <1>1, <1>2, <2>2, CarriedFacts DEF Accepts
    <3> QED BY <1>1, <2>2, <3>1 DEF CustomersTypeOK
  <2> QED BY <2>1, <2>2 DEF AnswerIsLost
<1>5. \A i : Person(p, i) => PersonThen(p, i)
  <2>1. Len(people'[p]) \in Nat
    BY <1>4
  <2> QED BY <1>1, <1>4, <2>1, StillSomebody
<1>6. \A c \in lateCalls' : c \in lateCalls \/
        (/\ c \in LateCall /\ c.provider = p /\ c.data = call.data
         /\ PersonThen(p, c.id) \/ (c.id = 0 /\ c.data \in Ficha))
  BY <1>1, <1>4, <1>5, OnItsWayFacts
<1>7. /\ link' \in [Provider -> LinkRow] /\ (ficha.deleted <=> link'[p] = GoneRow)
      /\ lateCalls' \subseteq LateCall
  BY <1>1, <1>6 DEF CustomersTypeOK
<1>8. link'[p].id = 0 \/ PersonThen(p, link'[p].id)
  BY <1>1, <1>5 DEF KnownPeople
<1>9. state.at = "update" => PersonThen(p, state.id)
  BY <1>3, <1>5
<1>10. p \notin uncertain' => link'[p].status # "SYNCED"
  BY <1>1, <1>2, NotYetSynced
<1>20. Advances(r, p, state)
  BY <1>1, <1>2, <1>3, <1>4, <1>6, <1>7, <1>8, <1>10, <1>9 DEF Advances
<1> QED BY <1>20, AdvanceStep

-----------------------------------------------------------------------------
(* A job ends                                                              *)

StartedAfter(q, p) == [at |-> "start", data |-> job[q][p].data, id |-> job[q][p].id]

LEMMA FollowingFacts ==
  ASSUME CustomersTypeOK, NEW r \in Syncer, NEW p \in Provider, Active(r, p),
         JobEnds(r, p), NEW q \in Syncer
  PROVE  /\ job'[q] \in [Provider -> SyncJob]
         /\ \A k \in Provider : k # p => job'[q][k] = job[q][k]
         /\ \/ job'[q][p] = NoJob /\ (q = r \/ ~Queues(q, p))
            \/ Waits(q, p, r) /\ job'[q][p] = StartedAfter(q, p)
            \/ q # r /\ ~Waits(q, p, r) /\ job'[q][p] = job[q][p]
<1>1. /\ job[q] \in [Provider -> SyncJob]
      /\ job'[q] = [job[q] EXCEPT ![p] = Following(q, r, p)]
  BY DEF CustomersTypeOK, JobEnds
<1>2. \/ Following(q, r, p) = NoJob /\ (q = r \/ ~Queues(q, p))
      \/ Waits(q, p, r) /\ Following(q, r, p) = StartedAfter(q, p)
      \/ q # r /\ ~Waits(q, p, r) /\ Following(q, r, p) = job[q][p]
  BY DEF Following, Queues, Waits, StartedAfter, Active
<1>3. NoJob \in SyncJob /\ job[q][p] \in SyncJob
  BY <1>1 DEF NoJob, SyncJob
<1>4. Waits(q, p, r) => StartedAfter(q, p) \in SyncJob
  <2>1. Waits(q, p, r) => job[q][p].data \in Ficha /\ job[q][p].id \in PersonId
    BY JobFacts DEF Waits, Queues
  <2> QED BY <2>1 DEF StartedAfter, SyncJob
<1>5. Following(q, r, p) \in SyncJob
  BY <1>2, <1>3, <1>4
<1> QED BY <1>1, <1>2, <1>5

Ends(r, p) ==
  /\ Active(r, p) /\ JobEnds(r, p)
  /\ UNCHANGED <<ficha, syncer, remover, people, lateCalls, uncertain, edits>>
  /\ link' \in [Provider -> LinkRow] /\ (ficha.deleted <=> link'[p] = GoneRow)
  /\ \A k \in Provider : k # p => link'[k] = link[k]
  /\ link'[p].id = 0 \/ Person(p, link'[p].id)
  /\ p \notin uncertain /\ link'[p].status = "SYNCED" =>
        Person(p, link'[p].id) /\ people[p][link'[p].id] = ficha.data

LEMMA EndStep ==
  ASSUME CustomersIInv, NEW r \in Syncer, NEW p \in Provider, Ends(r, p)
  PROVE  CustomersIInv'
<1> USE DEF Ends
<1>1. CustomersTypeOK /\ JobsAreWorked
      /\ \A k \in Provider : Queue(k) /\ KnownPeople(k) /\ (k \notin uncertain => Present(k))
  BY DEF CustomersIInv
<1>2. \A q \in Syncer :
        /\ job'[q] \in [Provider -> SyncJob]
        /\ \A k \in Provider : k # p => job'[q][k] = job[q][k]
        /\ \/ job'[q][p] = NoJob /\ (q = r \/ ~Queues(q, p))
           \/ Waits(q, p, r) /\ job'[q][p] = StartedAfter(q, p)
           \/ q # r /\ ~Waits(q, p, r) /\ job'[q][p] = job[q][p]
  BY <1>1, FollowingFacts
<1>3. /\ inFlight' \in [Provider -> Syncer \cup {Nobody}] /\ inFlight[p] \in Syncer \cup {Nobody}
      /\ \A k \in Provider : k # p => inFlight'[k] = inFlight[k]
      /\ inFlight'[p] = IF inFlight[p] = r THEN Nobody ELSE inFlight[p]
  BY <1>1 DEF CustomersTypeOK, JobEnds, Released
<1>4. CustomersTypeOK'
  <2>1. job' \in [Syncer -> [Provider -> SyncJob]]
    BY <1>2 DEF JobEnds
  <2> QED BY <1>1, <1>3, <2>1 DEF CustomersTypeOK
<1>5. JobsAreWorked'
  <2>1. SUFFICES ASSUME NEW q \in Syncer, NEW k \in Provider, job'[q][k] # NoJob
                 PROVE  job[q][k] # NoJob
    BY <1>1 DEF JobsAreWorked
  <2> QED BY <1>2, <2>1 DEF Waits, NoJob
<1>6. ASSUME NEW k \in Provider, k # p
      PROVE  Queue(k)' /\ KnownPeople(k)' /\ (k \notin uncertain' => Present(k)')
  <2>1. inFlight[k] \in Syncer \cup {Nobody} /\ RemovalGoesOn
    BY <1>1 DEF CustomersTypeOK, RemovalGoesOn
  <2> QED BY <1>1, <1>2, <1>3, <1>6, <2>1, ElsewhereTheSame
<1>7. ASSUME NEW q \in Syncer
      PROVE  /\ Active(q, p)' => Waits(q, p, r) /\ job'[q][p].at = "start"
             /\ q # r /\ Queues(q, p) => Queues(q, p)'
             /\ Queues(q, p)' => /\ Queues(q, p) /\ job'[q][p].data = job[q][p].data
                                 /\ job'[q][p].id = job[q][p].id
             /\ job'[q][p].at \notin {"none", "joined", "start"} => job'[q][p] = job[q][p]
             /\ job'[q][p].at = "start" => Waits(q, p, r)
             /\ \A o \in Syncer : Waits(q, p, o)' => Waits(q, p, o) /\ o # r
  <2>1. CASE job'[q][p] = NoJob /\ (q = r \/ ~Queues(q, p))
    BY <2>1 DEF Active, Queues, Waits, NoJob
  <2>2. CASE Waits(q, p, r) /\ job'[q][p] = StartedAfter(q, p)
    BY <2>2 DEF Active, Queues, Waits, StartedAfter
  <2>3. CASE q # r /\ ~Waits(q, p, r) /\ job'[q][p] = job[q][p]
    <3>1. ~Active(q, p)
      BY <1>1, <2>3 DEF Queue
    <3> QED BY <2>3, <3>1 DEF Active, Queues, Waits
  <2> QED BY <1>2, <2>1, <2>2, <2>3
<1>8. Queue(p)'
  <2>1. Queue(p) /\ Nobody \notin Syncer
    BY <1>1, CustomersAssumption
  <2>2. \A q, o \in Syncer : Active(q, p)' /\ Active(o, p)' => q = o
    BY <1>7, <2>1 DEF Queue
  <2>3. \A q \in Syncer : Active(q, p)' => inFlight'[p] # Nobody
    BY <1>3, <1>7, <2>1 DEF Queue
  <2>4. inFlight'[p] # Nobody => Queues(inFlight[p], p)' /\ inFlight'[p] = inFlight[p]
    BY <1>3, <1>7, <2>1 DEF Queue
  <2>5. \A q, o \in Syncer : Waits(q, p, o)' => Queues(o, p)' /\ o # inFlight'[p]
    BY <1>3, <1>7, <2>1 DEF Queue
  <2>6. \A a, q, o \in Syncer : Waits(a, p, o)' /\ Waits(q, p, o)' => a = q
    BY <1>7, <2>1 DEF Queue
  <2> QED BY <2>2, <2>3, <2>4, <2>5, <2>6 DEF Queue, Queues
<1>9. KnownPeople(p)'
  <2>1. \A q \in Syncer :
          /\ job'[q][p].at \in {"queued", "start"} => job'[q][p].id = 0 \/ Person(p, job'[q][p].id)
          /\ job'[q][p].at \in {"remember", "update", "synced"} => Person(p, job'[q][p].id)
    <3>1. \A q \in Syncer : job'[q][p].at = "start" =>
            job'[q][p].id = job[q][p].id /\ job[q][p].at = "queued"
      BY <1>7 DEF Queues, Waits
    <3> QED BY <1>1, <1>7, <3>1 DEF KnownPeople
  <2> QED BY <1>1, <2>1 DEF KnownPeople, Person
<1>10. ASSUME p \notin uncertain' PROVE Present(p)'
  <2>1. Present(p)
    BY <1>1, <1>10
  <2>2. \A q \in Syncer :
          /\ Queues(q, p)' => job'[q][p].data = ficha.data
          /\ job'[q][p].at = "synced" => people[p][job'[q][p].id] = ficha.data
          /\ Active(q, p)' => job'[q][p].at = "start"
    BY <1>7, <2>1 DEF Present, NothingOlder
  <2> QED BY <1>10, <2>1, <2>2 DEF Present, NothingOlder, Person
<1> QED BY <1>4, <1>5, <1>6, <1>8, <1>9, <1>10 DEF CustomersIInv

LEMMA PendingFailsStep ==
  ASSUME CustomersIInv, NEW r \in Syncer, NEW p \in Provider, MarkPendingFails(r, p)
  PROVE  CustomersIInv'
<1>1. /\ CustomersTypeOK /\ KnownPeople(p) /\ (p \notin uncertain => Present(p))
      /\ Active(r, p) /\ JobEnds(r, p)
      /\ UNCHANGED <<ficha, link, syncer, remover, people, lateCalls, uncertain, edits>>
  BY DEF CustomersIInv, MarkPendingFails, Active
<1>2. Ends(r, p)
  BY <1>1 DEF Ends, CustomersTypeOK, KnownPeople, Present, NothingOlder
<1> QED BY <1>2, EndStep

LEMMA SyncedStep ==
  ASSUME CustomersIInv, NEW r \in Syncer, NEW p \in Provider, MarkSynced(r, p)
  PROVE  CustomersIInv'
<1>1. /\ CustomersTypeOK /\ KnownPeople(p) /\ (p \notin uncertain => Present(p))
      /\ job[r][p].at = "synced" /\ Active(r, p) /\ JobEnds(r, p) /\ ~ficha.deleted
      /\ link' = [link EXCEPT ![p] = [status |-> "SYNCED", id |-> job[r][p].id]]
      /\ UNCHANGED <<ficha, syncer, remover, people, lateCalls, uncertain, edits>>
  BY DEF CustomersIInv, MarkSynced, Active
<1>2. job[r][p].id \in PersonId /\ Person(p, job[r][p].id)
  BY <1>1, JobFacts DEF KnownPeople
<1>3. [status |-> "SYNCED", id |-> job[r][p].id] \in LinkRow
  BY <1>2 DEF LinkRow
<1>4. /\ link' \in [Provider -> LinkRow] /\ link'[p].status = "SYNCED"
      /\ link'[p].id = job[r][p].id
      /\ \A k \in Provider : k # p => link'[k] = link[k]
  BY <1>1, <1>3 DEF CustomersTypeOK
<1>5. link'[p] # GoneRow
  BY <1>4 DEF GoneRow
<1>6. p \notin uncertain => people[p][job[r][p].id] = ficha.data
  BY <1>1 DEF Present, NothingOlder
<1>7. Ends(r, p)
  BY <1>1, <1>2, <1>4, <1>5, <1>6 DEF Ends
<1> QED BY <1>7, EndStep

LEMMA SyncErrorStep ==
  ASSUME CustomersIInv, NEW r \in Syncer, NEW p \in Provider, MarkSyncError(r, p)
  PROVE  CustomersIInv'
<1>1. /\ CustomersTypeOK /\ KnownPeople(p) /\ link \in [Provider -> LinkRow]
      /\ job[r][p].at = "failed" /\ Active(r, p) /\ JobEnds(r, p)
      /\ \/ ~ficha.deleted /\ link' = [link EXCEPT ![p].status = "ERROR"]
         \/ link' = link
      /\ UNCHANGED <<ficha, syncer, remover, people, lateCalls, uncertain, edits>>
  BY DEF CustomersIInv, CustomersTypeOK, MarkSyncError, Active
<1>2. p \notin uncertain => link[p].status # "SYNCED"
  BY <1>1, NotYetSynced
<1>3. CASE link' = link
  <2>1. Ends(r, p)
    BY <1>1, <1>2, <1>3 DEF Ends, CustomersTypeOK, KnownPeople
  <2> QED BY <2>1, EndStep
<1>4. CASE ~ficha.deleted /\ link' = [link EXCEPT ![p].status = "ERROR"]
  <2>1. link[p] \in LinkRow /\ [link[p] EXCEPT !.status = "ERROR"] \in LinkRow
    BY <1>1 DEF LinkRow
  <2>2. /\ link' \in [Provider -> LinkRow] /\ link'[p].status = "ERROR"
        /\ link'[p].id = link[p].id /\ \A k \in Provider : k # p => link'[k] = link[k]
    BY <1>1, <1>4, <2>1 DEF LinkRow
  <2>3. link'[p] # GoneRow
    BY <2>2 DEF GoneRow
  <2>4. Ends(r, p)
    BY <1>1, <1>4, <2>2, <2>3 DEF Ends, KnownPeople
  <2> QED BY <2>4, EndStep
<1> QED BY <1>1, <1>3, <1>4

-----------------------------------------------------------------------------
(* What happens to a provider that is or becomes uncertain, or that gets   *)
(* the present version once more                                           *)

SameAgain(p) ==
  /\ link'[p] = link[p] /\ lateCalls' \subseteq lateCalls
  /\ \A id : Person(p, id) /\ people[p][id] = ficha.data => people'[p][id] = ficha.data

Disturbs(p) ==
  /\ UNCHANGED <<ficha, syncer, job, inFlight, edits>>
  /\ uncertain \subseteq uncertain' /\ uncertain' \subseteq Provider
  /\ p \in uncertain' \/ SameAgain(p)
  /\ link' \in [Provider -> LinkRow] /\ (ficha.deleted <=> link'[p] = GoneRow)
  /\ people' \in [Provider -> Seq(Ficha \cup {"removed"})]
  /\ Len(people[p]) <= Len(people'[p]) /\ Len(people'[p]) <= MaxPeople
  /\ \A k \in Provider : k # p => link'[k] = link[k] /\ people'[k] = people[k]
  /\ link'[p].id = 0 \/ PersonThen(p, link'[p].id)
  /\ lateCalls' \subseteq LateCall
  /\ \A c \in lateCalls' : c \in lateCalls \/
        (c.provider = p /\ (PersonThen(p, c.id) \/ (c.id = 0 /\ c.data \in Ficha)))
  /\ remover' \in Remover /\ RemovalGoesOn

LEMMA DisturbStep ==
  ASSUME CustomersIInv, NEW p \in Provider, Disturbs(p)
  PROVE  CustomersIInv'
<1> USE DEF Disturbs
<1>1. CustomersTypeOK /\ JobsAreWorked
      /\ \A k \in Provider : Queue(k) /\ KnownPeople(k) /\ (k \notin uncertain => Present(k))
  BY DEF CustomersIInv
<1>2. CustomersTypeOK'
  BY <1>1 DEF CustomersTypeOK
<1>3. JobsAreWorked'
  BY <1>1 DEF JobsAreWorked
<1>4. ASSUME NEW k \in Provider, k # p
      PROVE  Queue(k)' /\ KnownPeople(k)' /\ (k \notin uncertain' => Present(k)')
  <2>1. inFlight[k] \in Syncer \cup {Nobody}
    BY <1>1 DEF CustomersTypeOK
  <2> QED BY <1>1, <1>4, <2>1, ElsewhereTheSame
<1>5. Queue(p)'
  BY <1>1 DEF Queue, Active, Queues, Waits
<1>6. \A id : Person(p, id) => PersonThen(p, id)
  <2>1. Len(people'[p]) \in Nat
    OBVIOUS
  <2> QED BY <1>1, <2>1, StillSomebody
<1>7. KnownPeople(p)'
  <2>1. \A q \in Syncer :
          /\ syncer[q].at = "read" =>
                syncer[q].seen.ids[p] = 0 \/ PersonThen(p, syncer[q].seen.ids[p])
          /\ job[q][p].at \in {"queued", "start"} =>
                job[q][p].id = 0 \/ PersonThen(p, job[q][p].id)
          /\ job[q][p].at \in {"remember", "update", "synced"} => PersonThen(p, job[q][p].id)
    BY <1>1, <1>6 DEF KnownPeople
  <2>2. remover'.at = "stores" /\ p \in remover'.left => PersonThen(p, remover'.ids[p])
    BY <1>1, <1>6 DEF KnownPeople, RemovalGoesOn
  <2>3. \A c \in lateCalls' : c.provider = p =>
            PersonThen(p, c.id) \/ (c.id = 0 /\ c.data \in Ficha)
    BY <1>1, <1>6 DEF KnownPeople
  <2>4. job' = job /\ syncer' = syncer
    OBVIOUS
  <2> QED BY <2>1, <2>2, <2>3, <2>4 DEF KnownPeople, Person, PersonThen
<1>8. ASSUME p \notin uncertain' PROVE Present(p)'
  <2>1. Present(p) /\ KnownPeople(p) /\ SameAgain(p)
    BY <1>1, <1>8
  <2>2. NothingOlder(p)'
    BY <2>1 DEF Present, NothingOlder, SameAgain, Queues
  <2>3. \A q \in Syncer :
            job[q][p].at = "synced" => people'[p][job[q][p].id] = ficha.data
    BY <2>1 DEF Present, KnownPeople, SameAgain
  <2>4. link[p].status = "SYNCED" =>
            PersonThen(p, link[p].id) /\ people'[p][link[p].id] = ficha.data
    BY <1>6, <2>1 DEF Present, SameAgain
  <2> QED BY <2>1, <2>2, <2>3, <2>4 DEF Present, SameAgain, Person, PersonThen, Active
<1> QED BY <1>2, <1>3, <1>4, <1>5, <1>7, <1>8 DEF CustomersIInv

LEMMA LinkStep ==
  ASSUME CustomersIInv, NEW p \in Provider, LinkCustomer(p)
  PROVE  CustomersIInv'
<1>1. /\ CustomersTypeOK /\ ~ficha.deleted /\ uncertain' = uncertain \cup {p}
      /\ UNCHANGED <<ficha, syncer, job, inFlight, remover, people, lateCalls, edits>>
  BY DEF CustomersIInv, LinkCustomer
<1>2. PICK i \in DOMAIN people[p] : link' = [link EXCEPT ![p] = [status |-> "SYNCED", id |-> i]]
  BY DEF LinkCustomer
<1>3. Person(p, i) /\ i \in PersonId
  BY <1>1, CustomersAssumption DEF Person, CustomersTypeOK, PersonId
<1>4. [status |-> "SYNCED", id |-> i] \in LinkRow
  BY <1>3 DEF LinkRow
<1>5. /\ link' \in [Provider -> LinkRow] /\ link'[p].status = "SYNCED" /\ link'[p].id = i
      /\ \A k \in Provider : k # p => link'[k] = link[k]
  BY <1>1, <1>2, <1>4 DEF CustomersTypeOK
<1>6. link'[p] # GoneRow
  BY <1>5 DEF GoneRow
<1>7. PersonThen(p, i) /\ Len(people[p]) \in Nat
  BY <1>1, <1>3 DEF Person, PersonThen, CustomersTypeOK
<1>8. Disturbs(p)
  BY <1>1, <1>5, <1>6, <1>7 DEF Disturbs, CustomersTypeOK, RemovalGoesOn
<1> QED BY <1>8, DisturbStep

(* The identifiers that the deletion read are the provider's.              *)
LEMMA ToRemoveFacts ==
  ASSUME CustomersIInv, NEW p \in Provider, remover.at = "stores", p \in remover.left
  PROVE  /\ Person(p, remover.ids[p]) /\ remover.ids[p] \in PersonId
         /\ remover.ids \in [Provider -> PersonId] /\ remover.left \subseteq Retailer
  BY DEF CustomersIInv, CustomersTypeOK, KnownPeople, Remover

(* A customer less in a store.                                             *)
LEMMA RemovedFacts ==
  ASSUME CustomersIInv, NEW p \in Provider, NEW id, Person(p, id),
         people' = [people EXCEPT ![p][id] = "removed"]
  PROVE  /\ people' \in [Provider -> Seq(Ficha \cup {"removed"})]
         /\ Len(people'[p]) = Len(people[p]) /\ Len(people'[p]) <= MaxPeople
         /\ \A k \in Provider : k # p => people'[k] = people[k]
<1>1. /\ people \in [Provider -> Seq(Ficha \cup {"removed"})] /\ Len(people[p]) <= MaxPeople
      /\ id \in 1..Len(people[p])
  BY DEF CustomersIInv, CustomersTypeOK, Person
<1>2. PICK fewer : fewer = [people[p] EXCEPT ![id] = "removed"]
  OBVIOUS
<1>3. fewer \in Seq(Ficha \cup {"removed"}) /\ Len(fewer) = Len(people[p])
  BY <1>1, <1>2
<1>4. people' = [people EXCEPT ![p] = fewer]
  BY <1>2
<1> QED BY <1>1, <1>3, <1>4

LEMMA RemoveStep ==
  ASSUME CustomersIInv, NEW p \in Retailer, RemoveFromStore(p)
  PROVE  CustomersIInv'
<1>1. /\ CustomersTypeOK /\ p \in Provider /\ remover.at = "stores" /\ p \in remover.left
      /\ people' = [people EXCEPT ![p][remover.ids[p]] = "removed"]
      /\ remover' = [remover EXCEPT !.left = @ \ {p}] /\ uncertain' = uncertain \cup {p}
      /\ UNCHANGED <<ficha, link, syncer, job, inFlight, lateCalls, edits>>
  BY CustomersAssumption DEF CustomersIInv, RemoveFromStore
<1>2. Person(p, remover.ids[p]) /\ KnownPeople(p)
  BY <1>1, ToRemoveFacts DEF CustomersIInv
<1>3. /\ people' \in [Provider -> Seq(Ficha \cup {"removed"})]
      /\ Len(people'[p]) = Len(people[p]) /\ Len(people'[p]) <= MaxPeople
      /\ \A k \in Provider : k # p => people'[k] = people[k]
  BY <1>1, <1>2, RemovedFacts
<1>4. remover \in [at : {"stores"}, left : SUBSET Retailer, ids : [Provider -> PersonId]]
  BY <1>1 DEF CustomersTypeOK, Remover
<1>5. /\ remover' \in [at : {"stores"}, left : SUBSET Retailer, ids : [Provider -> PersonId]]
      /\ remover'.left = remover.left \ {p} /\ remover'.ids = remover.ids
  BY <1>1, <1>4
<1>6. link'[p].id = 0 \/ PersonThen(p, link'[p].id)
  BY <1>1, <1>2, <1>3 DEF KnownPeople, Person, PersonThen
<1>7. Len(people[p]) \in Nat
  BY <1>1 DEF CustomersTypeOK
<1>8. remover' \in Remover /\ RemovalGoesOn
  BY <1>1, <1>5 DEF Remover, RemovalGoesOn
<1>9. Disturbs(p)
  BY <1>1, <1>3, <1>6, <1>7, <1>8 DEF Disturbs, CustomersTypeOK
<1> QED BY <1>1, <1>9, DisturbStep

(* The deletion ends, with the customer or without.                        *)
RemovalGivenUp ==
  /\ remover' = Resting
  /\ UNCHANGED <<ficha, link, syncer, job, inFlight, people, lateCalls, uncertain>>

LEMMA EndRemovalStep ==
  ASSUME CustomersIInv, RemovalGivenUp \/ DeleteCustomer
  PROVE  CustomersIInv'
<1>1. /\ CustomersTypeOK /\ JobsAreWorked /\ remover' = Resting
      /\ \A k \in Provider : Queue(k) /\ KnownPeople(k) /\ (k \notin uncertain => Present(k))
      /\ \/ ficha' = ficha /\ link' = link
         \/ /\ ficha' = [ficha EXCEPT !.deleted = TRUE]
            /\ link' = [p \in Provider |-> GoneRow]
      /\ UNCHANGED <<syncer, job, inFlight, people, lateCalls, uncertain>>
  BY DEF CustomersIInv, RemovalGivenUp, DeleteCustomer
<1>2. /\ ficha' \in [data : Ficha, deleted : BOOLEAN] /\ ficha'.data = ficha.data
      /\ link' \in [Provider -> LinkRow]
      /\ \A p \in Provider : (ficha'.deleted <=> link'[p] = GoneRow)
                           /\ (link'[p] = link[p] \/ link'[p] = GoneRow)
  <2>1. GoneRow \in LinkRow
    BY CustomersAssumption DEF GoneRow, LinkRow, PersonId
  <2> QED BY <1>1, <2>1 DEF CustomersTypeOK
<1>3. CustomersTypeOK' /\ JobsAreWorked'
  BY <1>1, <1>2 DEF CustomersTypeOK, JobsAreWorked, Remover, Resting
<1>4. ASSUME NEW p \in Provider
      PROVE  Queue(p)' /\ KnownPeople(p)' /\ (p \notin uncertain' => Present(p)')
  <2>1. Queue(p)'
    BY <1>1 DEF Queue, Active, Queues, Waits
  <2>2. KnownPeople(p)'
    BY <1>1, <1>2 DEF KnownPeople, Person, Resting, GoneRow
  <2>3. p \notin uncertain' => Present(p)'
    BY <1>1, <1>2 DEF Present, NothingOlder, Person, Active, Queues, GoneRow
  <2> QED BY <2>1, <2>2, <2>3
<1> QED BY <1>3, <1>4 DEF CustomersIInv

LEMMA AbortStep ==
  ASSUME CustomersIInv, NEW p \in Retailer, RemovalAborted(p)
  PROVE  CustomersIInv'
<1>1. /\ CustomersTypeOK /\ p \in Provider /\ remover.at = "stores" /\ p \in remover.left
      /\ remover' = Resting /\ UNCHANGED <<ficha, link, syncer, job, inFlight, edits>>
  BY CustomersAssumption DEF CustomersIInv, RemovalAborted
<1>2. CASE UNCHANGED <<people, lateCalls, uncertain>>
  BY <1>1, <1>2, EndRemovalStep DEF RemovalGivenUp
<1>3. CASE /\ uncertain' = uncertain \cup {p}
            /\ \/ /\ people' = [people EXCEPT ![p][remover.ids[p]] = "removed"]
                  /\ lateCalls' = lateCalls
               \/ people' = people /\ lateCalls' = lateCalls \cup {Deletion(p)}
  <2>1. Person(p, remover.ids[p]) /\ remover.ids[p] \in PersonId /\ KnownPeople(p)
    BY <1>1, ToRemoveFacts DEF CustomersIInv
  <2>2. /\ people' \in [Provider -> Seq(Ficha \cup {"removed"})]
        /\ Len(people'[p]) = Len(people[p]) /\ Len(people'[p]) <= MaxPeople
        /\ \A k \in Provider : k # p => people'[k] = people[k]
    <3>1. CASE people' = people
      BY <1>1, <3>1 DEF CustomersTypeOK
    <3>2. CASE people' = [people EXCEPT ![p][remover.ids[p]] = "removed"]
      BY <1>1, <2>1, <3>2, RemovedFacts
    <3> QED BY <1>3, <3>1, <3>2
  <2>3. \A id : Person(p, id) => PersonThen(p, id)
    BY <2>2 DEF Person, PersonThen
  <2>4. \A c \in lateCalls' : c \in lateCalls \/
          (c \in LateCall /\ c.provider = p /\ PersonThen(p, c.id))
    <3>1. Deletion(p) \in LateCall /\ Deletion(p).provider = p /\ PersonThen(p, Deletion(p).id)
      BY <1>1, <2>1, <2>3 DEF Deletion, LateCall
    <3> QED BY <1>3, <3>1
  <2>5. remover' \in Remover /\ RemovalGoesOn
    BY <1>1 DEF Remover, RemovalGoesOn, Resting
  <2>6. link'[p].id = 0 \/ PersonThen(p, link'[p].id)
    BY <1>1, <2>1, <2>3 DEF KnownPeople
  <2>7. Len(people[p]) \in Nat
    BY <1>1 DEF CustomersTypeOK
  <2>8. Disturbs(p)
    BY <1>1, <1>3, <2>2, <2>4, <2>5, <2>6, <2>7 DEF Disturbs, CustomersTypeOK
  <2> QED BY <1>1, <2>8, DisturbStep
<1> QED BY <1>2, <1>3 DEF RemovalAborted

LEMMA ArrivesStep ==
  ASSUME CustomersIInv, NEW c \in lateCalls, LateCallArrives(c)
  PROVE  CustomersIInv'
<1> DEFINE p == c.provider
<1> DEFINE call == [at |-> IF c.id = 0 THEN "create" ELSE "update", data |-> c.data, id |-> c.id]
<1>1. /\ CustomersTypeOK /\ c \in LateCall /\ p \in Provider
      /\ lateCalls' = lateCalls \ {c}
      /\ UNCHANGED <<ficha, link, syncer, job, inFlight, remover, uncertain, edits>>
      /\ \/ people' = people
         \/ /\ people' = [people EXCEPT ![p] = Carried(p, call)]
            /\ c.data = "removed" \/ Accepts(p, call)
  BY DEF CustomersIInv, CustomersTypeOK, LateCallArrives, LateCall
<1>2. KnownPeople(p) /\ (p \notin uncertain => c.data = ficha.data)
  BY <1>1 DEF CustomersIInv, Present, NothingOlder
<1>3. /\ call.data = c.data /\ c.data \in Ficha \cup {"removed"}
      /\ call.at = "create" => c.id = 0
      /\ call.at # "create" => call.id = c.id /\ c.id # 0
  BY <1>1 DEF LateCall
<1>4. Person(p, c.id) => c.id # 0
  BY <1>1 DEF Person
<1>5. /\ call.at = "create" => c.data \in Ficha
      /\ call.at # "create" => Person(p, call.id)
  BY <1>2, <1>3, <1>4 DEF KnownPeople
<1> HIDE DEF call
<1>6. /\ people' \in [Provider -> Seq(Ficha \cup {"removed"})]
      /\ Len(people[p]) <= Len(people'[p]) /\ Len(people'[p]) <= MaxPeople
      /\ \A k \in Provider : k # p => people'[k] = people[k]
  <2>1. CASE people' = people
    BY <1>1, <2>1 DEF CustomersTypeOK
  <2>2. CASE /\ people' = [people EXCEPT ![p] = Carried(p, call)]
             /\ c.data = "removed" \/ Accepts(p, call)
    <3>1. call.at = "create" => Len(people[p]) < MaxPeople
      BY <1>3, <1>5, <2>2, CustomersAssumption DEF Accepts
    <3>2. /\ Carried(p, call) \in Seq(Ficha \cup {"removed"})
          /\ Len(people[p]) <= Len(Carried(p, call)) /\ Len(Carried(p, call)) <= MaxPeople
      BY <1>1, <1>3, <1>5, <3>1, CarriedFacts
    <3> QED BY <1>1, <2>2, <3>2 DEF CustomersTypeOK
  <2> QED BY <1>1, <2>1, <2>2
<1>7. \A id : Person(p, id) => PersonThen(p, id)
  <2>1. Len(people'[p]) \in Nat
    BY <1>1, <1>6
  <2> QED BY <1>1, <1>6, <2>1, StillSomebody
<1>8. link'[p].id = 0 \/ PersonThen(p, link'[p].id)
  BY <1>1, <1>2, <1>7 DEF KnownPeople
<1>9. ASSUME p \notin uncertain PROVE SameAgain(p)
  <2>1. people \in [Provider -> Seq(Ficha \cup {"removed"})] /\ Len(people[p]) \in Nat
    BY <1>1 DEF CustomersTypeOK
  <2>2. CASE people' = people
    BY <1>1, <2>2 DEF SameAgain
  <2>3. CASE people' = [people EXCEPT ![p] = Carried(p, call)]
    <3>1. people'[p] = Carried(p, call)
      BY <1>1, <2>1, <2>3
    <3>2. ASSUME NEW id, Person(p, id), people[p][id] = ficha.data
          PROVE  Carried(p, call)[id] = ficha.data
      BY <1>2, <1>3, <1>9, <2>1, <3>2 DEF Carried, Person
    <3> QED BY <1>1, <3>1, <3>2 DEF SameAgain
  <2> QED BY <1>1, <2>2, <2>3
<1>10. Disturbs(p)
  BY <1>1, <1>6, <1>8, <1>9 DEF Disturbs, CustomersTypeOK, RemovalGoesOn
<1> HIDE DEF p
<1> QED BY <1>1, <1>10, DisturbStep

-----------------------------------------------------------------------------
(* Requests, edits and deletions                                           *)

LEMMA EnterFacts ==
  ASSUME CustomersTypeOK, NEW r \in Syncer, NEW p \in Provider, NEW same \in BOOLEAN,
         syncer[r].at = "read"
  PROVE  /\ Enter(r, p, same) \in SyncJob
         /\ Enter(r, p, same).at \in {"joined", "start", "queued"}
         /\ Enter(r, p, same).at = "joined" <=> SameData(r, p, same)
         /\ Enter(r, p, same).at = "start" => inFlight[p] = Nobody
         /\ Enter(r, p, same).at = "queued" =>
                inFlight[p] # Nobody /\ Enter(r, p, same).after = inFlight[p]
         /\ Enter(r, p, same).at # "joined" =>
                /\ Enter(r, p, same).data = syncer[r].seen.data
                /\ Enter(r, p, same).id = syncer[r].seen.ids[p]
<1>1. /\ syncer[r].seen.data \in Ficha /\ syncer[r].seen.ids[p] \in PersonId
      /\ inFlight[p] \in Syncer \cup {Nobody}
  <2>1. /\ syncer[r] \in [at : {"read"}, wants : SUBSET Provider, seen : Snapshot]
        /\ inFlight[p] \in Syncer \cup {Nobody}
    BY DEF CustomersTypeOK, Reader
  <2>2. syncer[r].seen \in Snapshot
    BY <2>1
  <2>3. syncer[r].seen.data \in Ficha /\ syncer[r].seen.ids \in [Provider -> PersonId]
    BY <2>2 DEF Snapshot
  <2> QED BY <2>1, <2>3
<1> DEFINE mine == [data |-> syncer[r].seen.data, id |-> syncer[r].seen.ids[p]]
<1>2. CASE SameData(r, p, same)
  BY <1>1, <1>2 DEF Enter, SyncJob, SameData
<1>3. CASE ~SameData(r, p, same) /\ inFlight[p] = Nobody
  BY <1>1, <1>3 DEF Enter, SyncJob
<1>4. CASE ~SameData(r, p, same) /\ inFlight[p] # Nobody
  BY <1>1, <1>4 DEF Enter, SyncJob
<1> QED BY <1>2, <1>3, <1>4

LEMMA EnterStep ==
  ASSUME CustomersIInv, NEW r \in Syncer, EnterQueues(r)
  PROVE  CustomersIInv'
<1>1. /\ CustomersTypeOK /\ JobsAreWorked /\ syncer[r].at = "read"
      /\ \A k \in Provider : Queue(k) /\ KnownPeople(k) /\ (k \notin uncertain => Present(k))
      /\ syncer' = [syncer EXCEPT ![r] = [at |-> "work"]]
      /\ UNCHANGED <<ficha, link, remover, people, lateCalls, uncertain, edits>>
  BY DEF CustomersIInv, EnterQueues
<1>2. PICK same \in BOOLEAN :
        /\ job' = [job EXCEPT ![r] = [p \in Provider |->
                IF p \in syncer[r].wants THEN Enter(r, p, same) ELSE NoJob]]
        /\ inFlight' = [p \in Provider |->
                IF p \in syncer[r].wants /\ ~SameData(r, p, same) THEN r ELSE inFlight[p]]
  BY DEF EnterQueues
<1>3. /\ syncer' \in [Syncer -> Reader] /\ syncer'[r].at = "work"
      /\ \A q \in Syncer : q # r => syncer'[q] = syncer[q]
  BY <1>1 DEF CustomersTypeOK, Reader
<1>4. \A p \in Provider : job[r][p] = NoJob
  BY <1>1 DEF JobsAreWorked
<1>5. /\ job' \in [Syncer -> [Provider -> SyncJob]]
      /\ \A q \in Syncer : q # r => job'[q] = job[q]
      /\ \A p \in Provider : job'[r][p] =
            IF p \in syncer[r].wants THEN Enter(r, p, same) ELSE NoJob
  <2>1. [p \in Provider |-> IF p \in syncer[r].wants THEN Enter(r, p, same) ELSE NoJob]
            \in [Provider -> SyncJob]
    <3>1. \A p \in Provider : Enter(r, p, same) \in SyncJob
      BY <1>1, EnterFacts
    <3>2. NoJob \in SyncJob
      BY DEF NoJob, SyncJob
    <3> QED BY <3>1, <3>2
  <2> QED BY <1>1, <1>2, <2>1 DEF CustomersTypeOK
<1>6. CustomersTypeOK'
  <2>1. inFlight' \in [Provider -> Syncer \cup {Nobody}]
    BY <1>1, <1>2 DEF CustomersTypeOK
  <2> QED BY <1>1, <1>3, <1>5, <2>1 DEF CustomersTypeOK
<1>7. JobsAreWorked'
  BY <1>1, <1>3, <1>5 DEF JobsAreWorked
<1>8. ASSUME NEW p \in Provider
      PROVE  Queue(p)' /\ KnownPeople(p)' /\ (p \notin uncertain' => Present(p)')
  <2>1. /\ Queue(p) /\ KnownPeople(p) /\ (p \notin uncertain => Present(p))
        /\ job[r][p].at = "none" /\ Nobody \notin Syncer
        /\ inFlight[p] \in Syncer \cup {Nobody}
    BY <1>1, <1>4, CustomersAssumption DEF NoJob, CustomersTypeOK
  <2>2. \A q \in Syncer : q # r => job'[q][p] = job[q][p]
    BY <1>5
  <2>3. \/ /\ job'[r][p].at \in {"none", "joined"} /\ inFlight'[p] = inFlight[p]
        \/ /\ job'[r][p].at = "start" /\ inFlight[p] = Nobody /\ inFlight'[p] = r
           /\ p \in syncer[r].wants
           /\ job'[r][p].data = syncer[r].seen.data /\ job'[r][p].id = syncer[r].seen.ids[p]
        \/ /\ job'[r][p].at = "queued" /\ inFlight[p] # Nobody /\ inFlight'[p] = r
           /\ job'[r][p].after = inFlight[p] /\ p \in syncer[r].wants
           /\ job'[r][p].data = syncer[r].seen.data /\ job'[r][p].id = syncer[r].seen.ids[p]
    <3>1. CASE p \notin syncer[r].wants
      BY <1>2, <1>5, <3>1 DEF NoJob
    <3>2. CASE p \in syncer[r].wants
      <4>1. job'[r][p] = Enter(r, p, same)
        BY <1>5, <3>2
      <4> QED BY <1>1, <1>2, <3>2, <4>1, EnterFacts
    <3> QED BY <3>1, <3>2
  <2>4. Queue(p)'
    <3>1. CASE job'[r][p].at \in {"none", "joined"} /\ inFlight'[p] = inFlight[p]
      BY <2>1, <2>2, <3>1 DEF Queue, Active, Queues, Waits
    <3>2. CASE job'[r][p].at = "start" /\ inFlight[p] = Nobody /\ inFlight'[p] = r
      <4>1. \A q \in Syncer : /\ Active(q, p)' <=> q = r
                              /\ Queues(q, p) => q # r /\ Queues(q, p)'
                              /\ \A o \in Syncer : Waits(q, p, o)' => Waits(q, p, o)
        BY <2>1, <2>2, <3>2 DEF Queue, Active, Queues, Waits
      <4>2. Queues(r, p)'
        BY <3>2 DEF Queues
      <4> QED BY <2>1, <3>2, <4>1, <4>2 DEF Queue, Queues
    <3>3. CASE /\ job'[r][p].at = "queued" /\ inFlight[p] # Nobody /\ inFlight'[p] = r
               /\ job'[r][p].after = inFlight[p]
      <4>1. \A q \in Syncer : /\ Active(q, p)' => Active(q, p)
                              /\ Queues(q, p) => q # r /\ Queues(q, p)'
                              /\ \A o \in Syncer : Waits(q, p, o)' =>
                                    Waits(q, p, o) \/ (q = r /\ o = inFlight[p])
        BY <2>1, <2>2, <3>3 DEF Active, Queues, Waits
      <4>2. Queues(r, p)' /\ inFlight[p] \in Syncer /\ Queues(inFlight[p], p)
        BY <2>1, <3>3 DEF Queues, Queue
      <4>3. \A q, o \in Syncer : Waits(q, p, o)' => Queues(o, p)' /\ o # inFlight'[p]
        BY <2>1, <3>3, <4>1, <4>2 DEF Queue
      <4>4. \A a, q, o \in Syncer : Waits(a, p, o)' /\ Waits(q, p, o)' => a = q
        BY <2>1, <4>1 DEF Queue
      <4>5. \A a, q \in Syncer : Active(a, p)' /\ Active(q, p)' => a = q
        BY <2>1, <4>1 DEF Queue
      <4>6. inFlight'[p] # Nobody => Queues(r, p)' /\ inFlight'[p] = r
        BY <3>3, <4>2
      <4>7. \A a \in Syncer : Active(a, p)' => inFlight'[p] # Nobody
        BY <2>1, <3>3
      <4> QED BY <4>3, <4>4, <4>5, <4>6, <4>7 DEF Queue, Queues
    <3> QED BY <2>3, <3>1, <3>2, <3>3
  <2>5. KnownPeople(p)'
    <3>1. syncer[r].seen.ids[p] = 0 \/ Person(p, syncer[r].seen.ids[p])
      BY <1>1, <2>1 DEF KnownPeople
    <3>2. ASSUME NEW q \in Syncer
          PROVE  /\ syncer'[q].at = "read" =>
                        syncer'[q].seen.ids[p] = 0 \/ Person(p, syncer'[q].seen.ids[p])
                 /\ job'[q][p].at \in {"queued", "start"} =>
                        job'[q][p].id = 0 \/ Person(p, job'[q][p].id)
                 /\ job'[q][p].at \in {"remember", "update", "synced"} =>
                        Person(p, job'[q][p].id)
      <4>1. CASE q = r
        BY <1>3, <2>3, <3>1, <4>1
      <4>2. CASE q # r
        BY <1>3, <2>1, <2>2, <4>2 DEF KnownPeople
      <4> QED BY <4>1, <4>2
    <3> QED BY <1>1, <2>1, <3>2 DEF KnownPeople, Person
  <2>6. ASSUME p \notin uncertain' PROVE Present(p)'
    <3>1. Present(p)
      BY <1>1, <2>1, <2>6
    <3>2. ASSUME NEW q \in Syncer
          PROVE  /\ syncer'[q].at = "read" /\ p \in syncer'[q].wants =>
                        syncer'[q].seen.data = ficha.data
                 /\ Queues(q, p)' => job'[q][p].data = ficha.data
                 /\ job'[q][p].at = "synced" => people[p][job'[q][p].id] = ficha.data
                 /\ link[p].status = "SYNCED" /\ Active(q, p)' => job'[q][p].at = "start"
      <4>1. CASE q = r
        BY <1>1, <1>3, <2>3, <3>1, <4>1 DEF Present, NothingOlder, Queues, Active
      <4>2. CASE q # r
        BY <1>3, <2>2, <3>1, <4>2 DEF Present, NothingOlder, Queues, Active
      <4> QED BY <4>1, <4>2
    <3> QED BY <1>1, <2>6, <3>1, <3>2 DEF Present, NothingOlder, Person
  <2> QED BY <2>4, <2>5, <2>6
<1> QED BY <1>6, <1>7, <1>8 DEF CustomersIInv

LEMMA AskStep ==
  ASSUME CustomersIInv, NEW r \in Syncer, AskSync(r)
  PROVE  CustomersIInv'
<1>1. /\ CustomersTypeOK /\ JobsAreWorked /\ syncer[r].at = "idle"
      /\ \A k \in Provider : Queue(k) /\ KnownPeople(k) /\ (k \notin uncertain => Present(k))
      /\ UNCHANGED <<ficha, link, job, inFlight, remover, people, lateCalls, uncertain>>
  BY DEF CustomersIInv, AskSync
<1>2. PICK wants \in SUBSET Provider :
        syncer' = [syncer EXCEPT ![r] =
            [at |-> "read", wants |-> wants, seen |-> [data |-> ficha.data, ids |-> ids]]]
  <2>1. {{p} : p \in Provider} \cup {{p \in Provider : link[p].status # "SYNCED"}}
            \subseteq SUBSET Provider
    OBVIOUS
  <2> QED BY <2>1 DEF AskSync
<1>3. PICK seen : seen = [data |-> ficha.data, ids |-> ids]
  OBVIOUS
<1>4. /\ seen \in Snapshot /\ seen.data = ficha.data
      /\ \A p \in Provider : seen.ids[p] = link[p].id
  BY <1>1, <1>3 DEF CustomersTypeOK, Snapshot, ids, LinkRow
<1>5. PICK reader : reader = [at |-> "read", wants |-> wants, seen |-> seen]
  OBVIOUS
<1>6. /\ reader \in Reader /\ reader.at = "read" /\ reader.wants = wants /\ reader.seen = seen
  BY <1>4, <1>5 DEF Reader
<1>7. /\ syncer' \in [Syncer -> Reader] /\ syncer'[r] = reader
      /\ \A q \in Syncer : q # r => syncer'[q] = syncer[q]
  BY <1>1, <1>2, <1>3, <1>5, <1>6 DEF CustomersTypeOK
<1>8. CustomersTypeOK'
  BY <1>1, <1>7 DEF CustomersTypeOK
<1>9. JobsAreWorked'
  <2>1. \A p \in Provider : job[r][p] = NoJob
    BY <1>1 DEF JobsAreWorked
  <2> QED BY <1>1, <1>7, <2>1 DEF JobsAreWorked
<1>10. ASSUME NEW p \in Provider
       PROVE  Queue(p)' /\ KnownPeople(p)' /\ (p \notin uncertain' => Present(p)')
  <2>1. Queue(p)'
    BY <1>1 DEF Queue, Active, Queues, Waits
  <2>2. ASSUME NEW q \in Syncer, syncer'[q].at = "read"
        PROVE  /\ syncer'[q].seen.ids[p] = 0 \/ Person(p, syncer'[q].seen.ids[p])
               /\ p \notin uncertain /\ p \in syncer'[q].wants =>
                        syncer'[q].seen.data = ficha.data
    <3>1. CASE q = r
      BY <1>1, <1>4, <1>6, <1>7, <3>1 DEF KnownPeople
    <3>2. CASE q # r
      BY <1>1, <1>7, <2>2, <3>2 DEF KnownPeople, Present, NothingOlder
    <3> QED BY <3>1, <3>2
  <2>3. KnownPeople(p)'
    BY <1>1, <2>2 DEF KnownPeople, Person
  <2>4. p \notin uncertain' => Present(p)'
    BY <1>1, <2>2 DEF Present, NothingOlder, Person, Active, Queues
  <2> QED BY <2>1, <2>3, <2>4
<1> QED BY <1>8, <1>9, <1>10 DEF CustomersIInv

LEMMA AnsweredStep ==
  ASSUME CustomersIInv, NEW r \in Syncer, SyncAnswered(r)
  PROVE  CustomersIInv'
<1>1. /\ CustomersTypeOK /\ JobsAreWorked
      /\ \A k \in Provider : Queue(k) /\ KnownPeople(k) /\ (k \notin uncertain => Present(k))
      /\ job[r] = [p \in Provider |-> NoJob]
      /\ UNCHANGED <<ficha, link, job, inFlight, remover, people, lateCalls, uncertain>>
  BY DEF CustomersIInv, SyncAnswered
<1>2. /\ syncer' \in [Syncer -> Reader] /\ syncer'[r].at = "idle"
      /\ \A q \in Syncer : q # r => syncer'[q] = syncer[q]
  BY <1>1 DEF CustomersTypeOK, SyncAnswered, Resting, Reader
<1>3. CustomersTypeOK' /\ JobsAreWorked'
  BY <1>1, <1>2 DEF CustomersTypeOK, JobsAreWorked
<1>4. ASSUME NEW p \in Provider
      PROVE  Queue(p)' /\ KnownPeople(p)' /\ (p \notin uncertain' => Present(p)')
  <2>1. Queue(p)'
    BY <1>1 DEF Queue, Active, Queues, Waits
  <2>2. \A q \in Syncer : syncer'[q].at = "read" => syncer'[q] = syncer[q]
    BY <1>2
  <2>3. KnownPeople(p)'
    BY <1>1, <2>2 DEF KnownPeople, Person
  <2>4. p \notin uncertain' => Present(p)'
    BY <1>1, <2>2 DEF Present, NothingOlder, Person, Active, Queues
  <2> QED BY <2>1, <2>3, <2>4
<1> QED BY <1>3, <1>4 DEF CustomersIInv

(* An edit: what is not uncertain after it has nothing under way.          *)
LEMMA EditStep ==
  ASSUME CustomersIInv, NEW data \in Ficha, EditCustomer(data)
  PROVE  CustomersIInv'
<1>1. /\ CustomersTypeOK /\ JobsAreWorked /\ ~ficha.deleted
      /\ \A k \in Provider : Queue(k) /\ KnownPeople(k)
      /\ ficha' = [ficha EXCEPT !.data = data]
      /\ link' = [p \in Provider |-> EditedRow(link[p])]
      /\ uncertain' = BusyProviders \cup Awaited \cup {c.provider : c \in lateCalls}
      /\ UNCHANGED <<syncer, job, inFlight, remover, people, lateCalls>>
  BY DEF CustomersIInv, EditCustomer
<1>2. \A p \in Provider : /\ EditedRow(link[p]) \in LinkRow
                          /\ EditedRow(link[p]).status = "PENDING"
                          /\ EditedRow(link[p]).id = link[p].id
  BY <1>1 DEF CustomersTypeOK, LinkRow, EditedRow
<1>3. \A p \in Provider : link'[p].status = "PENDING" /\ link'[p].id = link[p].id
                          /\ link'[p] # GoneRow
  BY <1>1, <1>2 DEF GoneRow
<1>4. CustomersTypeOK'
  <2>1. ficha' \in [data : Ficha, deleted : BOOLEAN] /\ ~ficha'.deleted
    BY <1>1 DEF CustomersTypeOK
  <2>2. link' \in [Provider -> LinkRow]
    BY <1>1, <1>2
  <2>3. \A c \in lateCalls : c.provider \in Provider
    BY <1>1 DEF CustomersTypeOK, LateCall
  <2>4. uncertain' \subseteq Provider
    BY <1>1, <2>3 DEF BusyProviders, Awaited
  <2> QED BY <1>1, <1>3, <2>1, <2>2, <2>4 DEF CustomersTypeOK
<1>5. JobsAreWorked'
  BY <1>1 DEF JobsAreWorked
<1>6. ASSUME NEW p \in Provider
      PROVE  Queue(p)' /\ KnownPeople(p)' /\ (p \notin uncertain' => Present(p)')
  <2>1. Queue(p)'
    BY <1>1 DEF Queue, Active, Queues, Waits
  <2>2. KnownPeople(p)'
    BY <1>1, <1>3 DEF KnownPeople, Person
  <2>3. ASSUME p \notin uncertain' PROVE Present(p)'
    <3>1. /\ \A c \in lateCalls : c.provider # p
          /\ \A r \in Syncer : /\ job[r][p].at = "none"
                               /\ ~(syncer[r].at = "read" /\ p \in syncer[r].wants)
      BY <1>1, <2>3 DEF BusyProviders, Awaited
    <3>2. NothingOlder(p)'
      BY <1>1, <3>1 DEF NothingOlder, Queues
    <3> QED BY <1>1, <1>3, <3>1, <3>2 DEF Present
  <2> QED BY <2>1, <2>2, <2>3
<1> QED BY <1>4, <1>5, <1>6 DEF CustomersIInv

LEMMA BeginRemovalStep ==
  ASSUME CustomersIInv, BeginRemoval
  PROVE  CustomersIInv'
<1>1. /\ CustomersTypeOK /\ JobsAreWorked
      /\ \A k \in Provider : Queue(k) /\ KnownPeople(k) /\ (k \notin uncertain => Present(k))
      /\ UNCHANGED <<ficha, link, syncer, job, inFlight, people, lateCalls, uncertain>>
  BY DEF CustomersIInv, BeginRemoval
<1>2. /\ remover' \in Remover /\ remover'.left = {p \in Retailer : link[p].id # 0}
      /\ \A p \in Provider : remover'.ids[p] = link[p].id
  <2>1. ids \in [Provider -> PersonId] /\ \A p \in Provider : ids[p] = link[p].id
    BY <1>1 DEF ids, CustomersTypeOK, LinkRow
  <2> QED BY <2>1 DEF BeginRemoval, Remover
<1>3. CustomersTypeOK' /\ JobsAreWorked'
  BY <1>1, <1>2 DEF CustomersTypeOK, JobsAreWorked
<1>4. ASSUME NEW p \in Provider
      PROVE  Queue(p)' /\ KnownPeople(p)' /\ (p \notin uncertain' => Present(p)')
  <2>1. Queue(p)'
    BY <1>1 DEF Queue, Active, Queues, Waits
  <2>2. p \in remover'.left => Person(p, remover'.ids[p])
    BY <1>1, <1>2 DEF KnownPeople
  <2>3. KnownPeople(p)'
    BY <1>1, <2>2 DEF KnownPeople, Person
  <2>4. p \notin uncertain' => Present(p)'
    BY <1>1 DEF Present, NothingOlder, Person, Active, Queues
  <2> QED BY <2>1, <2>3, <2>4
<1> QED BY <1>3, <1>4 DEF CustomersIInv

LEMMA RestartsStep ==
  ASSUME CustomersIInv, CustomersRestart
  PROVE  CustomersIInv'
<1>1. /\ CustomersTypeOK
      /\ \A k \in Provider : KnownPeople(k) /\ (k \notin uncertain => Present(k))
      /\ syncer' = [r \in Syncer |-> Resting] /\ remover' = Resting
      /\ job' = [r \in Syncer |-> [p \in Provider |-> NoJob]]
      /\ inFlight' = [p \in Provider |-> Nobody]
      /\ UNCHANGED <<ficha, link, people>>
  BY DEF CustomersIInv, CustomersRestart
<1>2. \A r \in Syncer, p \in Provider : job'[r][p] = NoJob /\ job'[r][p].at = "none"
  BY <1>1 DEF NoJob
<1>3. PICK asked \in {{}} \cup {{p} : p \in Deletable} :
        /\ uncertain' = uncertain \cup asked
        /\ \A c \in lateCalls' :
              \/ c \in lateCalls
              \/ \E r \in Syncer, p \in Provider : Calling(r, p) /\ c = OnItsWay(r, p)
              \/ \E p \in asked : c = Deletion(p)
  BY DEF CustomersRestart
<1>4. \A p \in asked : p \in Provider /\ remover.at = "stores" /\ p \in remover.left
  BY <1>1, CustomersAssumption DEF Deletable, CustomersTypeOK, Remover
<1>5. ASSUME NEW c \in lateCalls'
      PROVE  /\ c \in LateCall
             /\ Person(c.provider, c.id) \/ (c.id = 0 /\ c.data \in Ficha)
             /\ c.provider \notin uncertain' => c.data = ficha.data
  <2>1. CASE c \in lateCalls
    <3>1. c \in LateCall /\ c.provider \in Provider
      BY <1>1, <2>1 DEF CustomersTypeOK, LateCall
    <3> QED BY <1>1, <1>3, <2>1, <3>1 DEF KnownPeople, Present, NothingOlder
  <2>2. ASSUME NEW r \in Syncer, NEW p \in Provider, Calling(r, p), c = OnItsWay(r, p)
        PROVE  /\ c \in LateCall
               /\ Person(c.provider, c.id) \/ (c.id = 0 /\ c.data \in Ficha)
               /\ c.provider \notin uncertain' => c.data = ficha.data
    <3>1. /\ c \in LateCall /\ c.provider = p /\ c.data = job[r][p].data /\ c.data \in Ficha
          /\ Person(p, c.id) \/ c.id = 0
      BY <2>2, OnItsWayFacts
    <3>2. p \notin uncertain => job[r][p].data = ficha.data
      BY <1>1, <2>2 DEF Calling, Queues, Present, NothingOlder
    <3> QED BY <1>3, <3>1, <3>2
  <2>3. ASSUME NEW p \in asked, c = Deletion(p)
        PROVE  c \in LateCall /\ c.provider \in uncertain' /\ Person(c.provider, c.id)
    BY <1>3, <1>4, <2>3, ToRemoveFacts DEF Deletion, LateCall
  <2> QED BY <1>3, <2>1, <2>2, <2>3
<1>6. CustomersTypeOK' /\ JobsAreWorked'
  <2>1. Resting \in Reader /\ Resting \in Remover /\ NoJob \in SyncJob
    BY DEF Resting, Reader, Remover, NoJob, SyncJob
  <2>2. lateCalls' \subseteq LateCall /\ uncertain' \subseteq Provider
    BY <1>1, <1>3, <1>4, <1>5 DEF CustomersTypeOK
  <2> QED BY <1>1, <1>2, <2>1, <2>2 DEF CustomersTypeOK, JobsAreWorked
<1>7. ASSUME NEW p \in Provider
      PROVE  Queue(p)' /\ KnownPeople(p)' /\ (p \notin uncertain' => Present(p)')
  <2>1. Queue(p)'
    BY <1>1, <1>2 DEF Queue, Active, Queues, Waits
  <2>2. KnownPeople(p)'
    BY <1>1, <1>2, <1>5 DEF KnownPeople, Person, Resting
  <2>3. ASSUME p \notin uncertain' PROVE Present(p)'
    <3>1. Present(p)
      BY <1>1, <1>3, <2>3
    <3>2. NothingOlder(p)'
      BY <1>1, <1>2, <1>5, <2>3 DEF NothingOlder, Queues, Resting
    <3> QED BY <1>1, <1>2, <3>1, <3>2 DEF Present, Person, Active
  <2> QED BY <2>1, <2>2, <2>3
<1> QED BY <1>6, <1>7 DEF CustomersIInv

LEMMA CustomersStart ==
  ASSUME CustomersInit
  PROVE  CustomersIInv
<1>1. \A r \in Syncer, p \in Provider : job[r][p] = NoJob /\ job[r][p].at = "none"
  BY DEF CustomersInit, NoJob
<1>2. CustomersTypeOK
  <2>1. Resting \in Reader /\ Resting \in Remover /\ NoJob \in SyncJob
    BY DEF Resting, Reader, Remover, NoJob, SyncJob
  <2>2. [status |-> "PENDING", id |-> 0] \in LinkRow /\ [status |-> "PENDING", id |-> 0] # GoneRow
    BY CustomersAssumption DEF LinkRow, PersonId, GoneRow
  <2>3. ficha \in [data : Ficha, deleted : BOOLEAN] /\ ~ficha.deleted
    BY DEF CustomersInit
  <2>4. << >> \in Seq(Ficha \cup {"removed"}) /\ Len(<< >>) <= MaxPeople
    BY CustomersAssumption
  <2> QED BY <2>1, <2>2, <2>3, <2>4 DEF CustomersInit, CustomersTypeOK
<1>3. JobsAreWorked
  BY <1>1 DEF JobsAreWorked
<1>4. ASSUME NEW p \in Provider PROVE Queue(p) /\ KnownPeople(p) /\ Present(p)
  <2>1. Queue(p)
    BY <1>1 DEF CustomersInit, Queue, Active, Queues, Waits
  <2>2. link[p].id = 0 /\ link[p].status = "PENDING" /\ lateCalls = {}
        /\ remover.at = "idle" /\ \A r \in Syncer : syncer[r].at = "idle"
    BY DEF CustomersInit, Resting
  <2>3. KnownPeople(p)
    BY <1>1, <2>2 DEF KnownPeople
  <2>4. Present(p)
    BY <1>1, <2>2 DEF Present, NothingOlder, Queues, Active
  <2> QED BY <2>1, <2>3, <2>4
<1> QED BY <1>2, <1>3, <1>4 DEF CustomersIInv

LEMMA CustomersStutter ==
  ASSUME CustomersIInv, UNCHANGED customerVars
  PROVE  CustomersIInv'
BY DEF CustomersIInv, customerVars, CustomersTypeOK, JobsAreWorked, Queue, Active, Queues,
       Waits, KnownPeople, Person, Present, NothingOlder

(* No fairness is needed for it.                                           *)
LEMMA CustomersKeep == CustomersInit /\ [][CustomersNext]_customerVars => []CustomersIInv
<1>1. CustomersInit => CustomersIInv
  BY CustomersStart
<1>2. CustomersIInv /\ [CustomersNext]_customerVars => CustomersIInv'
  <2>1. SUFFICES ASSUME CustomersIInv, CustomersNext PROVE CustomersIInv'
    BY CustomersStutter
  <2>2. CASE \E data \in Ficha : EditCustomer(data)
    BY <2>1, <2>2, EditStep
  <2>3. CASE \E p \in Provider : LinkCustomer(p)
    BY <2>1, <2>3, LinkStep
  <2>4. CASE BeginRemoval
    BY <2>1, <2>4, BeginRemovalStep
  <2>5. CASE RemoverStep
    BY <2>1, <2>5, RemoveStep, AbortStep, EndRemovalStep DEF RemoverStep, RemovalRefused, RemovalGivenUp
  <2>6. CASE \E r \in Syncer : AskSync(r) \/ SyncerStep(r)
    BY <2>1, <2>6, AskStep, EnterStep, AnsweredStep DEF SyncerStep
  <2>7. CASE \E r \in Syncer, p \in Provider : SyncJobStep(r, p)
    <3>1. PICK r \in Syncer, p \in Provider : SyncJobStep(r, p)
      BY <2>7
    <3> QED BY <2>1, <3>1, PendingStep, PendingFailsStep, FindStep, RememberStep, AcceptStep,
               FailsStep, LostStep, SyncedStep, SyncErrorStep DEF SyncJobStep
  <2>8. CASE \E c \in lateCalls : LateCallArrives(c)
    BY <2>1, <2>8, ArrivesStep
  <2>9. CASE CustomersRestart
    BY <2>1, <2>9, RestartsStep
  <2> QED BY <2>1, <2>2, <2>3, <2>4, <2>5, <2>6, <2>7, <2>8, <2>9 DEF CustomersNext
<1> QED BY <1>1, <1>2, PTL

(* The inductive invariant: the queues of every provider are in order,     *)
(* whoever has an identifier has one that the provider gave, and nothing   *)
(* stale is on its way to a provider unless an edit overtook it: neither   *)
(* in requests and jobs, nor in the calls that a lost answer or a restart  *)
(* left behind.                                                            *)
THEOREM CustomersAreSound == CustomersSpec => []CustomersIInv
BY CustomersKeep, PTL DEF CustomersSpec

(* A row that says SYNCED names a customer of the provider that has the    *)
(* present data, whatever calls were left behind by lost answers and       *)
(* restarts, unless an edit overtook a version that was on its way there,  *)
(* the store was asked to delete the customer, or n8n linked it; and again *)
(* from the next acceptance with nothing older on its way.                 *)
THEOREM SyncedIsTrue == CustomersSpec => []SyncedHasTheData
<1>1. CustomersIInv => SyncedHasTheData
  BY DEF CustomersIInv, CustomersTypeOK, Present, Person, SyncedHasTheData
<1> QED BY <1>1, CustomersAreSound, PTL

(* In each queue one job at a time is at the provider, and the queue is    *)
(* not taken for empty while it is.                                        *)
THEOREM OneAtATime == CustomersSpec => []OneJobCalls
<1>1. CustomersIInv => OneJobCalls
  <2>1. SUFFICES ASSUME CustomersIInv, NEW p \in Provider
                 PROVE  LET calling == {r \in Syncer : Active(r, p)}
                        IN  /\ Cardinality(calling) <= 1
                            /\ calling # {} => inFlight[p] # Nobody
    BY DEF OneJobCalls
  <2> DEFINE calling == {r \in Syncer : Active(r, p)}
  <2>2. Queue(p)
    BY <2>1 DEF CustomersIInv
  <2>3. calling # {} => inFlight[p] # Nobody
    BY <2>2 DEF Queue
  <2>4. CASE calling = {}
    BY <2>3, <2>4, FS_EmptySet
  <2>5. CASE calling # {}
    <3>1. PICK r \in Syncer : Active(r, p)
      BY <2>5
    <3>2. calling = {r}
      BY <2>2, <3>1 DEF Queue
    <3>3. Cardinality({r}) = 1
      BY FS_Singleton
    <3> QED BY <2>3, <3>2, <3>3
  <2> QED BY <2>4, <2>5
<1> QED BY <1>1, CustomersAreSound, PTL

-----------------------------------------------------------------------------
(* The composition                                                         *)

LEMMA ServicesStart ==
  ServicesInit => Init /\ TokenInit /\ ShipmentsInit /\ CustomersInit /\ AmountsInit
BY DEF ServicesInit

(* A step of the composition is one of a part, for which the others wait.  *)
LEMMA ServicesStep ==
  [ServicesNext]_<<moving, vars, tokenVars, shipmentVars, customerVars, amountVars>> =>
    /\ [Next]_vars /\ [TokenNext]_tokenVars /\ [ShipmentsNext]_shipmentVars
    /\ [CustomersNext]_customerVars /\ [AmountsNext]_amountVars
BY DEF ServicesNext

(* Whatever is proved of the parts holds of what MCServices runs: seen     *)
(* from any of them, a behaviour of the composition is one of the part.    *)
THEOREM ServicesAreTheirParts ==
  ServicesSpec =>
    /\ Spec /\ TokenSpec /\ ShipmentsSpec /\ AmountsSpec
    /\ CustomersInit /\ [][CustomersNext]_customerVars
BY ServicesStart, ServicesStep, PTL
   DEF ServicesSpec, Spec, TokenSpec, ShipmentsSpec, AmountsSpec

(* The rows, requests and amounts of the five have the declared shapes.    *)
THEOREM ServicesTypes == ServicesSpec => []ServicesTypeOK
<1>1. TokenIInv /\ ShipmentsIInv /\ CustomersIInv =>
        TokenTypeOK /\ ShipmentsTypeOK /\ CustomersTypeOK
  BY DEF TokenIInv, ShipmentsIInv, CustomersIInv
<1>2. TypeOK /\ TokenTypeOK /\ ShipmentsTypeOK /\ CustomersTypeOK /\ AmountsTypeOK =>
        ServicesTypeOK
  BY DEF ServicesTypeOK
<1> QED BY <1>1, <1>2, ServicesAreTheirParts, TypeCorrect, TokensAreSound, ShipmentsAreSound,
           CustomersKeep, AmountsTypes, PTL
=============================================================================
