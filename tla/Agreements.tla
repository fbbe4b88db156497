------------------------------- MODULE Agreements -------------------------------
(***************************************************************************)
(* The logos of the agreements: rows of the database that name objects of  *)
(* a bucket.                                                               *)
(*                                                                         *)
(*   apps/web/src/agreements/AgreementForm.tsx, AgreementsPage.tsx         *)
(*   apps/api/src/agreements/agreements.controller.ts, .service.ts         *)
(*   apps/api/src/agreements/agreement-logo.service.ts                     *)
(*                                                                         *)
(* A form uploads the chosen file under a key never used before, then      *)
(* saves the row, and discards the upload when the save fails.  The save   *)
(* deletes the logo it replaced.  Neither the bucket nor the form is part  *)
(* of the transaction: answers are lost, deletions come late or not.       *)
(* Whatever else makes a save fail (a NIT that is taken, a city that does  *)
(* not fit its region) is one outcome of it.                               *)
(***************************************************************************)
EXTENDS Naturals, FiniteSets

CONSTANTS
    Agreement,
    Form,           \* forms that are submitted, several of them at a time
    MaxUploads,     \* bound: files uploaded
    MaxMishaps      \* bound: answers lost


VARIABLES
    logoOf,     \* the agreements, or Absent
    bucket,     \* the keys that have an object
    uploads,    \* how many keys were made
    form,       \* what each form waits for
    save,       \* the request that saves it, at the server
    discard,    \* keys being discarded, before and after the check
    removing,   \* replaced keys whose deletion is on its way
    unowned,    \* keys saved in a way no document answers for
    mishaps

agreementVars ==
    <<logoOf, bucket, uploads, form, save, discard, removing, unowned, mishaps>>

Key == 1..MaxUploads
NoLogo == [key |-> 0]
Logo(k) == [key |-> k]
Logos == {NoLogo} \cup {Logo(k) : k \in Key}
Absent == [absent |-> TRUE]
New == [new |-> TRUE]
Hidden == [at |-> "hidden"]
Unsent == [at |-> "idle"]

ASSUME AgreementsAssumption ==
    /\ {MaxUploads, MaxMishaps} \subseteq Nat
    /\ New \notin Agreement

Listed == {New} \cup {a \in Agreement : logoOf[a] # Absent}
InUse(logo) == \E a \in Agreement : logoOf[a] = logo

AgreementsInit ==
    /\ logoOf = [a \in Agreement |-> Absent]
    /\ bucket = {} /\ uploads = 0
    /\ form = [f \in Form |-> Hidden]
    /\ save = [f \in Form |-> Unsent]
    /\ discard = [asked |-> {}, free |-> {}] /\ removing = {}
    /\ unowned = {} /\ mishaps = 0

-----------------------------------------------------------------------------
(* The form *)

(* openCreate, openEdit: the form keeps what the list showed.              *)
OpenForm(f, a) ==
    /\ form[f] = Hidden /\ save[f] = Unsent
    /\ a \in Listed
    /\ form' = [form EXCEPT ![f] =
            [at |-> "open", target |-> a, read |-> IF a = New THEN NoLogo ELSE logoOf[a]]]
    /\ UNCHANGED <<logoOf, bucket, uploads, save, discard, removing, unowned, mishaps>>

CloseForm(f) ==
    /\ form[f].at = "open"
    /\ form' = [form EXCEPT ![f] = Hidden]
    /\ UNCHANGED <<logoOf, bucket, uploads, save, discard, removing, unowned, mishaps>>

(* submit, when a file was chosen.                                         *)
ChooseFile(f) ==
    /\ form[f].at = "open" /\ uploads < MaxUploads
    /\ uploads' = uploads + 1
    /\ form' = [form EXCEPT ![f] = [at |-> "uploading", target |-> @.target,
                    read |-> @.read, logo |-> Logo(uploads + 1), shown |-> TRUE]]
    /\ UNCHANGED <<logoOf, bucket, save, discard, removing, unowned, mishaps>>

(* The form can be closed while its file is uploaded; the save then goes   *)
(* to what the page has open for editing by then.                          *)
CloseWhileUploading(f, a) ==
    /\ form[f].at = "uploading"
    /\ a \in Listed
    /\ form' = [form EXCEPT ![f].target = a, ![f].shown = FALSE]
    /\ UNCHANGED <<logoOf, bucket, uploads, save, discard, removing, unowned, mishaps>>

Reopened(f) ==
    IF form[f].shown
    THEN [at |-> "open", target |-> form[f].target, read |-> form[f].read]
    ELSE Hidden

(* The bucket refuses the file, or has it and the answer is lost.          *)
UploadFails(f) ==
    /\ form[f].at = "uploading"
    /\ \/ UNCHANGED <<bucket, mishaps>>
       \/ /\ mishaps < MaxMishaps /\ mishaps' = mishaps + 1
          /\ bucket' = bucket \cup {form[f].logo}
    /\ form' = [form EXCEPT ![f] = Reopened(f)]
    /\ UNCHANGED <<logoOf, uploads, save, discard, removing, unowned>>

Ask(logo) == discard' = [discard EXCEPT !.asked = @ \cup {logo}]

(* The fields of the form are wrong: the upload was for nothing.           *)
UploadedInVain(f) ==
    /\ form[f].at = "uploading"
    /\ bucket' = bucket \cup {form[f].logo}
    /\ Ask(form[f].logo)
    /\ form' = [form EXCEPT ![f] = Reopened(f)]
    /\ UNCHANGED <<logoOf, uploads, save, removing, unowned, mishaps>>

Send(f, logo, fresh, shown) ==
    /\ form' = [form EXCEPT ![f] = [at |-> "saving", target |-> @.target,
                    read |-> @.read, logo |-> logo, fresh |-> fresh, shown |-> shown]]
    /\ save' = [save EXCEPT ![f] = [at |-> "read", target |-> form[f].target,
                    logo |-> logo, fresh |-> fresh]]

Uploaded(f) ==
    /\ form[f].at = "uploading"
    /\ bucket' = bucket \cup {form[f].logo}
    /\ Send(f, form[f].logo, TRUE, form[f].shown)
    /\ UNCHANGED <<logoOf, uploads, discard, removing, unowned, mishaps>>

(* submit, with the logo as it was read, or taken away.                    *)
Submit(f) ==
    /\ form[f].at = "open" /\ save[f] = Unsent
    /\ \E logo \in {form[f].read, NoLogo} : Send(f, logo, FALSE, TRUE)
    /\ UNCHANGED <<logoOf, bucket, uploads, discard, removing, unowned, mishaps>>

FormSaved(f) ==
    /\ form[f].at = "saving" /\ save[f].at = "saved"
    /\ form' = [form EXCEPT ![f] = Hidden]
    /\ save' = [save EXCEPT ![f] = Unsent]
    /\ UNCHANGED <<logoOf, bucket, uploads, discard, removing, unowned, mishaps>>

(* The save was refused, or nobody knows: its upload is discarded.         *)
FormFails(f) ==
    /\ form[f].at = "saving"
    /\ \/ save[f].at = "refused" /\ UNCHANGED mishaps
       \/ /\ save[f].at \in {"read", "write", "saved"}
          /\ mishaps < MaxMishaps /\ mishaps' = mishaps + 1
    /\ IF form[f].fresh THEN Ask(form[f].logo) ELSE UNCHANGED discard
    /\ form' = [form EXCEPT ![f] = Reopened(f)]
    /\ save' = [save EXCEPT ![f] = IF @.at \in {"read", "write"} THEN @ ELSE Unsent]
    /\ UNCHANGED <<logoOf, bucket, uploads, removing, unowned>>

-----------------------------------------------------------------------------
(* The server *)

Waiting(f) == form[f].at = "saving"

ReadCurrent(f) ==
    /\ save[f].at = "read"
    /\ save' = [save EXCEPT ![f] = [at |-> "write", target |-> @.target,
            logo |-> @.logo, fresh |-> @.fresh,
            current |-> IF @.target = New THEN NoLogo ELSE logoOf[@.target]]]
    /\ UNCHANGED <<logoOf, bucket, uploads, form, discard, removing, unowned, mishaps>>

Refuse(f) ==
    /\ save[f].at \in {"read", "write"}
    /\ save' = [save EXCEPT ![f] = IF Waiting(f) THEN [at |-> "refused"] ELSE Unsent]
    /\ UNCHANGED <<logoOf, bucket, uploads, form, discard, removing, unowned, mishaps>>

(* create, update: the row takes all that the form has, and the logo that  *)
(* was read with the row is deleted when it is another one.  A save that   *)
(* is carried out when its form has given up, and one that brings back a   *)
(* logo which another save replaced, are noted.                            *)
Replaced(f) == {save[f].current} \ {NoLogo, save[f].logo}
Orphaned(f, a) ==
    IF save[f].fresh THEN ~Waiting(f) ELSE logoOf[a] # Absent /\ logoOf[a] # save[f].logo
WriteAgreement(f) ==
    /\ save[f].at = "write"
    /\ \E a \in Agreement :
        /\ IF save[f].target = New THEN logoOf[a] = Absent ELSE a = save[f].target
        /\ logoOf' = [logoOf EXCEPT ![a] = save[f].logo]
        /\ unowned' = IF Orphaned(f, a) THEN unowned \cup {save[f].logo} ELSE unowned
    /\ removing' = removing \cup Replaced(f)
    /\ save' = [save EXCEPT ![f] = IF Waiting(f) THEN [at |-> "saved"] ELSE Unsent]
    /\ UNCHANGED <<bucket, uploads, form, discard, mishaps>>

(* logos.remove.  The bucket may fail to: then this step does not happen. *)
RemoveReplaced(logo) ==
    /\ logo \in removing
    /\ removing' = removing \ {logo}
    /\ bucket' = bucket \ {logo}
    /\ UNCHANGED <<logoOf, uploads, form, save, discard, unowned, mishaps>>

(* discardLogo: the check, and then the deletion.  Either may fail to come.  *)
SlipDiscardChecked(logo) ==
    /\ logo \in discard.asked
    /\ discard' = [asked |-> discard.asked \ {logo}, free |-> discard.free \cup {logo}]
    /\ UNCHANGED <<logoOf, bucket, uploads, form, save, removing, unowned, mishaps>>
DiscardChecked(logo) ==
    /\ logo \in discard.asked
    /\ discard' = [asked |-> discard.asked \ {logo},
                   free |-> IF InUse(logo) THEN discard.free
                            ELSE discard.free \cup {logo}]
    /\ UNCHANGED <<logoOf, bucket, uploads, form, save, removing, unowned, mishaps>>
DiscardEnds(logo) ==
    /\ logo \in discard.free
    /\ discard' = [discard EXCEPT !.free = @ \ {logo}]
    /\ bucket' = bucket \ {logo}
    /\ UNCHANGED <<logoOf, uploads, form, save, removing, unowned, mishaps>>

-----------------------------------------------------------------------------
AgreementsNext ==
    \/ \E f \in Form :
        \/ \E a \in Agreement \cup {New} : OpenForm(f, a) \/ CloseWhileUploading(f, a)
        \/ CloseForm(f) \/ ChooseFile(f) \/ UploadFails(f) \/ UploadedInVain(f)
        \/ Uploaded(f) \/ Submit(f) \/ FormSaved(f) \/ FormFails(f)
        \/ ReadCurrent(f) \/ Refuse(f) \/ WriteAgreement(f)
    \/ \E k \in Key :
        RemoveReplaced(Logo(k)) \/ DiscardChecked(Logo(k)) \/ DiscardEnds(Logo(k))

AgreementsSpec == AgreementsInit /\ [][AgreementsNext]_agreementVars

-----------------------------------------------------------------------------
Made == {Logo(k) : k \in 1..uploads}
Target == Agreement \cup {New}
FormState ==
    {Hidden} \cup
    [at : {"open"}, target : Target, read : Logos] \cup
    [at : {"uploading"}, target : Target, read : Logos, logo : Logos,
     shown : BOOLEAN] \cup
    [at : {"saving"}, target : Target, read : Logos, logo : Logos,
     fresh : BOOLEAN, shown : BOOLEAN]
SaveState ==
    [at : {"idle", "refused", "saved"}] \cup
    [at : {"read"}, target : Target, logo : Logos, fresh : BOOLEAN] \cup
    [at : {"write"}, target : Target, logo : Logos, fresh : BOOLEAN,
     current : Logos]

(* Forms and saves are in a state the code knows, and keys were made.      *)
AgreementsTypeOK ==
    /\ logoOf \in [Agreement -> Logos \cup {Absent}]
    /\ uploads \in 0..MaxUploads /\ mishaps \in 0..MaxMishaps
    /\ form \in [Form -> FormState] /\ save \in [Form -> SaveState]
    /\ bucket \cup removing \cup discard.asked \cup discard.free \subseteq Made
    /\ discard = [asked |-> discard.asked, free |-> discard.free]
    /\ unowned \subseteq Logos

(* An agreement never names a logo that the bucket lost: what is deleted   *)
(* was replaced by the save that deletes it, or discarded by a form whose  *)
(* save failed, also when the save succeeded and only its answer was lost. *)
(* Excepted are a save carried out after its form gave it up, and a form   *)
(* that writes back a logo which another one replaced.                     *)
LogoIsThere ==
    \A a \in Agreement :
        logoOf[a] \in bucket \cup unowned \cup {Absent, NoLogo}

-----------------------------------------------------------------------------
(* The inductive invariant behind it                                       *)

(* Who names a logo: the form and the save it is chosen in, whoever read   *)
(* it in a row, the rows themselves, and deletions.                        *)
InForm(f, logo) == form[f].at \in {"uploading", "saving"} /\ form[f].logo = logo
InSave(f, logo) == save[f].at \in {"read", "write"} /\ save[f].logo = logo
HasRead(f, logo) ==
    \/ form[f] # Hidden /\ form[f].read = logo
    \/ save[f].at = "write" /\ save[f].current = logo
Doomed(logo) == logo \in removing \cup discard.free
Private(f, logo) ==
    /\ logo # NoLogo /\ ~InUse(logo) /\ ~Doomed(logo) /\ logo \notin discard.asked
    /\ \A g \in Form : ~HasRead(g, logo)
    /\ \A g \in Form : g # f => ~InForm(g, logo) /\ ~InSave(g, logo)

(* Every key that is named was made.                                       *)
NamedAreMade ==
    /\ \A a \in Agreement : logoOf[a] \in Made \cup {NoLogo, Absent}
    /\ \A f \in Form :
        /\ form[f].at \in {"uploading", "saving"} => form[f].logo \in Made \cup {NoLogo}
        /\ save[f].at \in {"read", "write"} => save[f].logo \in Made \cup {NoLogo}
        /\ form[f] # Hidden => form[f].read \in Made \cup {NoLogo}
        /\ save[f].at = "write" => save[f].current \in Made \cup {NoLogo}

(* An upload belongs to its form until the save that takes it, or gives it *)
(* up; until then the bucket has it.                                       *)
UploadIsPrivate(f) ==
    /\ form[f].at = "uploading" =>
            Private(f, form[f].logo) /\ ~InSave(f, form[f].logo)
    /\ form[f].at = "saving" /\ form[f].fresh => form[f].logo # NoLogo
    /\ Waiting(f) /\ save[f].at \in {"read", "write"} /\ save[f].fresh =>
            Private(f, save[f].logo) /\ save[f].logo \in bucket

(* A new agreement begins without a logo, unless one was uploaded for it,  *)
(* and what a save read is nobody else's, or has no owner.                 *)
ReadsItsOwn(f) ==
    /\ form[f].at \in {"open", "uploading", "saving"} /\ form[f].target = New
            /\ (form[f].at = "open" \/ form[f].shown) => form[f].read = NoLogo
    /\ save[f].at \in {"read", "write"} /\ save[f].target = New /\ ~save[f].fresh =>
            save[f].logo = NoLogo
    /\ form[f] # Hidden /\ form[f].target # New => logoOf[form[f].target] # Absent
    /\ save[f].at \in {"read", "write"} /\ save[f].target # New =>
            logoOf[save[f].target] # Absent
    /\ save[f].at = "write" => \A a \in Agreement :
            a # save[f].target /\ logoOf[a] = save[f].current =>
                save[f].current \in unowned \cup {NoLogo}

OneOwner ==
    \A a, b \in Agreement : a # b /\ logoOf[a] = logoOf[b] =>
        logoOf[a] \in unowned \cup {NoLogo, Absent}
DoomedHaveNoOwner ==
    \A a \in Agreement : Doomed(logoOf[a]) => logoOf[a] \in unowned

AgreementsIInv ==
    /\ AgreementsTypeOK /\ NamedAreMade
    /\ \A f \in Form : UploadIsPrivate(f) /\ ReadsItsOwn(f)
    /\ OneOwner /\ DoomedHaveNoOwner /\ LogoIsThere
=============================================================================
