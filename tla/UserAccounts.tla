----------------------------- MODULE UserAccounts -----------------------------
(***************************************************************************)
(* Administrators who change and delete accounts.                          *)
(*                                                                         *)
(*   apps/api/src/users/users.service.ts  (update, remove)                 *)
(*                                                                         *)
(* An account is an administrator's or another's, active or not.  A change *)
(* reads the account, counts the active administrators if it takes one     *)
(* away, and writes, each with a query of its own; a deletion does so in   *)
(* one transaction, whose reads do not lock.                               *)
(***************************************************************************)
EXTENDS Naturals, FiniteSets

CONSTANTS Account, Clerk     \* the accounts; requests in progress together

VARIABLES
    account,    \* the role of each account, and whether it is active
    clerk       \* where each request is

accountVars == <<account, clerk>>

Access == [role : {"ADMIN", "OTHER"}, active : BOOLEAN]
Gone == [role |-> "GONE", active |-> FALSE]
IsAdmin(access) == access.role = "ADMIN" /\ access.active
Admins == {u \in Account : IsAdmin(account[u])}

Waiting == [at |-> "idle"]
ClerkState ==
    [at : {"idle"}] \cup
    [at : {"count", "write"}, target : Account, access : Access] \cup
    [at : {"delete"}, target : Account, admins : 0..Cardinality(Account), was : Access]

AccountsInit ==
    /\ account \in [Account -> Access]
    /\ Admins # {}
    /\ clerk = [r \in Clerk |-> Waiting]

ClerkAt(r, state) == clerk' = [clerk EXCEPT ![r] = state]

(* Only an active administrator asks, who cannot change their own access.  *)
MayAsk(actor, target) ==
    actor \in Admins /\ target # actor /\ account[target] # Gone

RemovesAdmin(was, access) == IsAdmin(was) /\ ~IsAdmin(access)

AskChange(r, actor, target, access) ==
    /\ clerk[r] = Waiting
    /\ MayAsk(actor, target)
    /\ ClerkAt(r,
        [at |-> IF RemovesAdmin(account[target], access) THEN "count" ELSE "write",
         target |-> target, access |-> access])
    /\ UNCHANGED account

CountAdmins(r) ==
    /\ clerk[r].at = "count"
    /\ IF Cardinality(Admins) <= 1 THEN ClerkAt(r, Waiting)
       ELSE ClerkAt(r, [clerk[r] EXCEPT !.at = "write"])
    /\ UNCHANGED account

(* The write fails if the account was deleted meanwhile.                   *)
WriteChange(r) ==
    /\ clerk[r].at = "write"
    /\ account' = [account EXCEPT ![clerk[r].target] =
            IF @ = Gone THEN @ ELSE clerk[r].access]
    /\ ClerkAt(r, Waiting)

(* The reads of the transaction are of one moment, its writes of another.  *)
AskDeletion(r, actor, target) ==
    /\ clerk[r] = Waiting
    /\ MayAsk(actor, target)
    /\ ClerkAt(r, [at |-> "delete", target |-> target,
                   admins |-> Cardinality(Admins), was |-> account[target]])
    /\ UNCHANGED account

DeleteAccount(r) ==
    /\ clerk[r].at = "delete"
    /\ account' = IF IsAdmin(clerk[r].was) /\ clerk[r].admins <= 1 THEN account
                  ELSE [account EXCEPT ![clerk[r].target] = Gone]
    /\ ClerkAt(r, Waiting)

AccountsNext ==
    \E r \in Clerk :
        \/ \E actor, target \in Account :
            \/ \E access \in Access : AskChange(r, actor, target, access)
            \/ AskDeletion(r, actor, target)
        \/ CountAdmins(r) \/ WriteChange(r) \/ DeleteAccount(r)

AccountsSpec == AccountsInit /\ [][AccountsNext]_accountVars

-----------------------------------------------------------------------------
AccountsTypeOK ==
    /\ account \in [Account -> Access \cup {Gone}]
    /\ clerk \in [Clerk -> ClerkState]

(* At least one active administrator remains (violated: two administrators *)
(* who take each other's access away are both counted by both).            *)
AdminRemains == Admins # {}
=============================================================================
