----------------------------- MODULE VaultScreen -----------------------------
(***************************************************************************)
(* The vault tab of the Desktop: the list of entries, the form that adds or *)
(* edits one, and the two buttons that publish the vault, through the       *)
(* connected wallet or through the device key and a bundler.  The screen    *)
(* shows a copy of the vault file read when it mounted or last changed it   *)
(* itself; other parts of the app write the same file.                      *)
(*                                                                         *)
(* An entry is its text, stamped by the save that wrote it, the number of   *)
(* the file attached to it and the file its pin is of, 0 when there is none.*)
(* Favorites, permissions, the search and the count of pending changes are  *)
(* left out, and the wallet may connect at any time.  One form is open at a *)
(* time: the code can show the form of a new entry beside an edit.  A        *)
(* command to the Rust side is one step, except the upload of vault_publish. *)
(* Publications that the tab does not follow go on to their end: those it   *)
(* began before it was left, and those of the modal that approves an edit.  *)
(***************************************************************************)
EXTENDS Naturals, FiniteSets, FiniteSetsExt

CONSTANTS
    MaxEntries,     \* bound: ids vault_upsert_entry gives, in order
    MaxFiles,       \* bound: files the user can attach
    MaxWrites,      \* bound: writes of entries
    MaxUploads,     \* bound: uploads that finish
    MaxRemounts     \* bound: times the screen is left and opened again

ASSUME ScreenAssumption ==
    {MaxEntries, MaxFiles, MaxWrites, MaxUploads, MaxRemounts} \subseteq Nat

VARIABLES
    vault,          \* the vault file: id -> entry
    blobs,          \* id -> file whose content is cached for it, 0 when none
    writes,
    created,        \* ids given so far
    deleted,        \* ids the user has deleted and nothing has brought back
    key,            \* the vault key: "missing", "signing", "ready"
    list,           \* the entries the screen shows
    form,           \* the form, of a new entry or of editingId
    confirming,     \* entry whose deletion waits for its confirmation, 0 when none
    upload,         \* vault_publish under way: button that started it and copy it loaded
    update,         \* pendingUpdate, 0 when none
    tx,             \* state of the wallet's transaction
    userOp,         \* state of the device key's publication
    op,             \* the upload that one is about to announce, 0 when none
    just,           \* justPublished
    unseen,         \* uploads that the tab does not follow
    lateOps,        \* finished ones whose UserOperation is still to be sent
    uploads,        \* uploads that finished: each one's content is numbered
    sent,           \* uploads -> times the wallet or the bundler was asked for them
    pins,           \* file -> times it was uploaded
    remounts

fileVars == <<vault, blobs, writes, created, deleted, pins>>
formVars == <<list, form, confirming>>
publishVars == <<upload, update, tx, userOp, op, just>>
netVars == <<unseen, lateOps, uploads, sent>>
screenVars == <<fileVars, formVars, publishVars, netVars, key, remounts>>

Entries == 1..MaxEntries
File == 0..MaxFiles
Upload == 1..MaxUploads
Entry == [text : 1..MaxWrites, doc : File, cid : File]
NoEntry == [text |-> 0, doc |-> 0, cid |-> 0]
Vault == [Entries -> Entry \cup {NoEntry}]

\* The entry shown when the form opened (for a new one, nothing), and the file
\* picked since.
NoForm == [open |-> "no", id |-> 0, base |-> NoEntry, file |-> 0, type |-> "credential"]
FormOf(l, id) == [open |-> "edit", id |-> id, base |-> l[id], file |-> 0,
                  type |-> IF l[id].doc = 0 THEN "credential" ELSE "document"]
Shown(f) == f.open \in {"add", "edit"}

CanSave(f) == f.type = "document" => f.file # 0 \/ f.base.doc # 0

\* A pin survives unless another file was picked; a change of type drops both.
Payload(f) ==
    CASE f.type = "credential" -> [text |-> writes + 1, doc |-> 0, cid |-> 0]
      [] f.type = "document" /\ f.file # 0 -> [text |-> writes + 1, doc |-> f.file, cid |-> 0]
      [] OTHER -> [text |-> writes + 1, doc |-> f.base.doc, cid |-> f.base.cid]

NoUpload == [by |-> "none", tab |-> 0, copy |-> [i \in Entries |-> NoEntry]]

ScreenInit ==
    /\ vault = [i \in Entries |-> NoEntry] /\ list = vault
    /\ blobs = [i \in Entries |-> 0] /\ pins = [f \in 1..MaxFiles |-> 0]
    /\ writes = 0 /\ created = 0 /\ deleted = {}
    /\ key = "missing"
    /\ form = NoForm /\ confirming = 0
    /\ upload = NoUpload /\ unseen = {} /\ lateOps = {} /\ update = 0
    /\ tx = "idle" /\ userOp = "idle" /\ op = 0 /\ just = FALSE
    /\ uploads = 0 /\ sent = [u \in Upload |-> 0] /\ remounts = 0
-----------------------------------------------------------------------------
(* The vault key: a signature of the wallet derives it.                       *)

AskSignature ==
    /\ key = "missing"
    /\ key' = "signing"
    /\ UNCHANGED <<fileVars, formVars, publishVars, netVars, remounts>>

DeriveKey ==
    /\ key = "signing"
    /\ key' \in {"ready", "missing"}
    /\ UNCHANGED <<fileVars, formVars, publishVars, netVars, remounts>>

-----------------------------------------------------------------------------
(* Entries.                                                                   *)

\* While the list is loading, the form of an edit is taken off the screen and its
\* fields with it; it comes back with the entry as it is then, if that is there.
Reopened(l) ==
    IF form.open \notin {"edit", "hidden"} THEN form
    ELSE IF l[form.id] # NoEntry THEN FormOf(l, form.id)
    ELSE [NoForm EXCEPT !.open = "hidden", !.id = form.id]

LoadAll == list' = vault' /\ form' = Reopened(vault')

OpenAdd ==
    /\ key = "ready" /\ form.open # "add"
    /\ form' = [NoForm EXCEPT !.open = "add"]
    /\ UNCHANGED <<fileVars, list, confirming, publishVars, netVars, key, remounts>>

OpenEdit(id) ==
    /\ list[id] # NoEntry
    /\ form' = FormOf(list, id) /\ confirming' = 0
    /\ UNCHANGED <<fileVars, list, publishVars, netVars, key, remounts>>

SwitchType ==
    /\ Shown(form)
    /\ \E t \in {"credential", "document"} \ {form.type} : form' = [form EXCEPT !.type = t]
    /\ UNCHANGED <<fileVars, list, confirming, publishVars, netVars, key, remounts>>

\* A file of at most 50 MB; it stays picked if the type is changed.
PickFile ==
    /\ Shown(form) /\ form.type = "document"
    /\ \E f \in 1..MaxFiles : form' = [form EXCEPT !.file = f]
    /\ UNCHANGED <<fileVars, list, confirming, publishVars, netVars, key, remounts>>

CancelForm ==
    /\ Shown(form)
    /\ form' = NoForm
    /\ UNCHANGED <<fileVars, list, confirming, publishVars, netVars, key, remounts>>

Target == IF form.open = "edit" THEN form.id ELSE created + 1

Larger(a, b) == IF a < b THEN b ELSE a

Written(v) == [v EXCEPT ![Target] = Payload(form)]

\* vault_upsert_entry, then the document's content, then the list again.
SaveForm ==
    /\ Shown(form) /\ CanSave(form) /\ writes < MaxWrites /\ Target \in Entries
    /\ vault' = Written(vault) /\ writes' = writes + 1
    /\ blobs' = IF form.type = "document" /\ form.file # 0
                THEN [blobs EXCEPT ![Target] = form.file] ELSE blobs
    /\ list' = vault' /\ form' = NoForm
    /\ created' = Larger(created, Target)
    /\ UNCHANGED <<deleted, pins, confirming, publishVars, netVars, key, remounts>>

\* The entry is written and its content is not: the form stays open with an error.
SaveHalfway ==
    /\ Shown(form) /\ CanSave(form) /\ form.type = "document" /\ form.file # 0
    /\ writes < MaxWrites /\ Target \in Entries
    /\ vault' = Written(vault) /\ writes' = writes + 1
    /\ created' = Larger(created, Target)
    /\ UNCHANGED <<blobs, deleted, pins, formVars, publishVars, netVars, key, remounts>>

AskDelete(id) ==
    /\ list[id] # NoEntry /\ confirming # id
    /\ confirming' = id
    /\ form' = IF form.open \in {"edit", "hidden"} THEN NoForm ELSE form
    /\ UNCHANGED <<fileVars, list, publishVars, netVars, key, remounts>>

Delete(yes) ==
    /\ confirming # 0
    /\ IF yes THEN /\ vault' = [vault EXCEPT ![confirming] = NoEntry]
                   /\ deleted' = deleted \cup {confirming}
                   /\ UNCHANGED <<blobs, writes, created, pins>>
                   /\ LoadAll
       ELSE UNCHANGED <<fileVars, list, form>>
    /\ confirming' = 0
    /\ UNCHANGED <<publishVars, netVars, key, remounts>>

\* A profile is added, renamed or deleted: everything is read again.
ChangeProfiles ==
    /\ key = "ready"
    /\ UNCHANGED <<fileVars, confirming, publishVars, netVars, key, remounts>>
    /\ LoadAll

\* The user approves an edit of the extension in a modal over the screen: the entry is
\* replaced, made anew if it is not there, and the vault is published by device key.
\* The modal takes one request after the other.
ApproveEdit(id) ==
    /\ id <= created + 1 /\ writes < MaxWrites /\ \A u \in unseen : u.by # "modal"
    /\ vault' = [vault EXCEPT ![id] = [text |-> writes + 1, doc |-> 0, cid |-> 0]]
    /\ writes' = writes + 1
    /\ created' = Larger(created, id) /\ deleted' = deleted \ {id}
    /\ unseen' = unseen \cup {[by |-> "modal", tab |-> remounts, copy |-> vault']}
    /\ UNCHANGED <<blobs, pins, formVars, publishVars, lateOps, uploads, sent, key, remounts>>
-----------------------------------------------------------------------------
(* Publication.  vault_publish uploads the copy it loaded.                    *)

\* Slip: the buttons do not wait for the device key.
DisabledByWallet == upload.by # "none" \/ tx # "idle" \/ just

Disabled ==
    \/ upload.by # "none" \/ userOp # "idle"
    \/ tx # "idle" \/ just

Start(button) ==
    /\ upload' = [by |-> button, tab |-> remounts, copy |-> vault]
    /\ UNCHANGED <<fileVars, formVars, netVars, update, tx, op, just, key, remounts>>

PressSend ==
    /\ key = "ready" /\ ~Disabled /\ created > 0
    /\ Start("wallet") /\ UNCHANGED userOp

PressDeviceKey ==
    /\ key = "ready" /\ ~Disabled /\ created > 0
    /\ userOp' = "publishing"
    /\ Start("deviceKey")

NeedPin(v) == {i \in Entries : v[i].doc # 0 /\ blobs[i] # 0 /\ v[i].cid # blobs[i]}
Pinned(v) == [i \in Entries |-> IF i \in NeedPin(v) THEN [v[i] EXCEPT !.cid = blobs[i]] ELSE v[i]]

\* The pins of the copy that was loaded, which is saved once something was pinned.
Pin(v) ==
    /\ pins' = [f \in 1..MaxFiles |-> pins[f] + Cardinality({i \in NeedPin(v) : blobs[i] = f})]
    /\ vault' = IF NeedPin(v) = {} THEN vault ELSE Pinned(v)
    /\ deleted' = {i \in deleted : vault'[i] = NoEntry}

\* An upload that ends: done, or failed with some of the pins made.
Done(copy) == uploads < MaxUploads /\ Pin(copy) /\ uploads' = uploads + 1
Failed(copy) ==
    /\ (Pin(copy) /\ NeedPin(copy) # {}) \/ UNCHANGED <<vault, pins, deleted>>
    /\ UNCHANGED uploads

UploadDone ==
    /\ upload.by # "none" /\ Done(upload.copy) /\ upload' = NoUpload
    /\ IF upload.by = "wallet" THEN update' = uploads' /\ UNCHANGED <<userOp, op>>
       ELSE userOp' = "sending" /\ op' = uploads' /\ UNCHANGED update
    /\ UNCHANGED <<blobs, writes, created, formVars, tx, just, unseen, lateOps, sent, key, remounts>>

UploadFails ==
    /\ upload.by # "none" /\ Failed(upload.copy) /\ upload' = NoUpload
    /\ userOp' = IF upload.by = "deviceKey" THEN "idle" ELSE userOp
    /\ UNCHANGED <<blobs, writes, created, formVars, update, tx, op, just, unseen, lateOps,
                   sent, key, remounts>>

MarkAsPublished == just' = TRUE

JustPublishedEnds ==
    /\ just /\ just' = FALSE
    /\ UNCHANGED <<fileVars, formVars, upload, update, tx, userOp, op, netVars, key, remounts>>
-----------------------------------------------------------------------------
(* Through the wallet.                                                        *)

\* The effect runs when the update is set, and when the wallet connects.
SendUpdate ==
    /\ update # 0
    /\ tx' = "signing"
    /\ sent' = [sent EXCEPT ![update] = @ + 1]
    /\ update' = 0
    /\ UNCHANGED <<fileVars, formVars, upload, userOp, op, just, unseen, lateOps, uploads, key,
                   remounts>>

AnswerWallet ==
    /\ tx = "signing"
    /\ tx' \in {"confirming", "idle"}
    /\ UNCHANGED <<fileVars, formVars, upload, update, userOp, op, just, netVars, key, remounts>>

Receipt ==
    /\ tx = "confirming"
    /\ tx' = "idle"
    /\ MarkAsPublished \/ UNCHANGED just     \* reverted: an error is shown
    /\ UNCHANGED <<fileVars, formVars, upload, update, userOp, op, netVars, key, remounts>>
-----------------------------------------------------------------------------
(* Through the device key: signed, estimated, signed again and sent to the    *)
(* bundler, whose receipt is polled.                                          *)

Announce(u, accepted) == sent' = IF accepted THEN [sent EXCEPT ![u] = @ + 1] ELSE sent

SendUserOp(accepted) ==
    /\ userOp = "sending"
    /\ userOp' = IF accepted THEN "waiting" ELSE "idle"
    /\ Announce(op, accepted) /\ op' = 0
    /\ UNCHANGED <<fileVars, formVars, upload, update, tx, just, unseen, lateOps, uploads, key,
                   remounts>>

ReceiptOfUserOp(success) ==
    /\ userOp = "waiting"
    /\ userOp' = "idle"
    /\ IF success THEN MarkAsPublished ELSE UNCHANGED just
    /\ UNCHANGED <<fileVars, formVars, upload, update, tx, op, netVars, key, remounts>>

\* RECEIPT_POLL_MAX_ATTEMPTS polls found no receipt: reported as a reverted transaction.
PollsRunOut ==
    /\ userOp = "waiting"
    /\ userOp' = "idle"
    /\ UNCHANGED <<fileVars, formVars, upload, update, tx, op, just, netVars, key, remounts>>
-----------------------------------------------------------------------------
(* What the tab does not follow.                                              *)

\* Another tab, or an import in Settings: the next screen starts afresh.  The promises
\* of the publications under way go on.
Remount ==
    /\ key = "ready" /\ remounts < MaxRemounts
    /\ remounts' = remounts + 1
    /\ unseen' = IF upload.by = "none" THEN unseen ELSE unseen \cup {upload}
    /\ lateOps' = IF op = 0 THEN lateOps ELSE lateOps \cup {op}
    /\ upload' = NoUpload /\ op' = 0
    /\ list' = vault /\ form' = NoForm /\ confirming' = 0
    /\ update' = 0 /\ tx' = "idle" /\ userOp' = "idle" /\ just' = FALSE
    /\ UNCHANGED <<fileVars, uploads, sent, key>>

\* One by device key goes on to its UserOperation; for the wallet there is no screen
\* left that would ask it.
UnseenDone(u) ==
    /\ u \in unseen /\ unseen' = unseen \ {u} /\ Done(u.copy)
    /\ lateOps' = IF u.by = "wallet" THEN lateOps ELSE lateOps \cup {uploads'}
    /\ UNCHANGED <<blobs, writes, created, formVars, publishVars, sent, key, remounts>>

UnseenFails(u) ==
    /\ u \in unseen /\ unseen' = unseen \ {u} /\ Failed(u.copy)
    /\ UNCHANGED <<blobs, writes, created, formVars, publishVars, lateOps, sent, key, remounts>>

SendLateUserOp(u, accepted) ==
    /\ u \in lateOps /\ lateOps' = lateOps \ {u}
    /\ Announce(u, accepted)
    /\ UNCHANGED <<fileVars, formVars, publishVars, unseen, uploads, key, remounts>>

ScreenNext ==
    \/ AskSignature \/ DeriveKey
    \/ OpenAdd \/ SwitchType \/ PickFile \/ CancelForm \/ SaveForm \/ SaveHalfway
    \/ \E id \in Entries : OpenEdit(id) \/ AskDelete(id) \/ ApproveEdit(id)
    \/ \E yes \in BOOLEAN : Delete(yes) \/ SendUserOp(yes) \/ ReceiptOfUserOp(yes)
    \/ ChangeProfiles
    \/ PressSend \/ PressDeviceKey \/ UploadDone \/ UploadFails \/ JustPublishedEnds
    \/ SendUpdate \/ AnswerWallet \/ Receipt
    \/ PollsRunOut \/ Remount
    \/ \E u \in unseen : UnseenDone(u) \/ UnseenFails(u)
    \/ \E u \in lateOps, accepted \in BOOLEAN : SendLateUserOp(u, accepted)

\* The Rust commands and the polls answer, and the timer of "sent" fires.  The
\* wallet and the chain need not.
ScreenFairness ==
    /\ WF_screenVars(UploadDone \/ UploadFails)
    /\ WF_screenVars(\E accepted \in BOOLEAN : SendUserOp(accepted))
    /\ WF_screenVars((\E success \in BOOLEAN : ReceiptOfUserOp(success)) \/ PollsRunOut)
    /\ WF_screenVars(JustPublishedEnds)

ScreenSpec == ScreenInit /\ [][ScreenNext]_screenVars
FairScreenSpec == ScreenSpec /\ ScreenFairness
-----------------------------------------------------------------------------
(* Types.                                                                     *)
ScreenTypeOK ==
    /\ {vault, list, upload.copy} \cup {u.copy : u \in unseen} \subseteq Vault
    /\ blobs \in [Entries -> File] /\ \A f \in 1..MaxFiles : pins[f] \in Nat
    /\ writes \in 0..MaxWrites /\ created \in Entries \cup {0}
    /\ key \in {"missing", "signing", "ready"}
    /\ form.base \in Entry \cup {NoEntry} /\ form.open = "edit" => form.base # NoEntry
    /\ confirming \in Entries \cup {0}
    /\ update \in 0..uploads /\ op \in 0..uploads /\ lateOps \subseteq 1..uploads
    /\ tx \in {"idle", "signing", "confirming"}
    /\ userOp \in {"idle", "publishing", "sending", "waiting"}

\* The vault never names a pin of content that was not uploaded: other devices
\* fetch the document by it.
PinsAreUploaded == \A i \in Entries : vault[i].cid # 0 => pins[vault[i].cid] > 0

\* The two buttons of a tab that stays on screen take turns: no upload starts while
\* the other button's publication is under way, as both write the same baseline and
\* manifest.  Publications the tab does not follow may run beside it.
ButtonsTakeTurns ==
    upload.by # "none" =>
        userOp = IF upload.by = "deviceKey" THEN "publishing" ELSE "idle"

\* However often the wallet connects and the tab is left, one upload is announced at
\* most once, by whichever way, followed or not.
AnnouncedOnce == \A u \in Upload : sent[u] <= 1

\* The form is never open on an entry that the user has deleted, so that Save cannot
\* bring it back.  Two other writers can: an upload whose copy still has the entry, and
\* the approval of an edit proposed for it.
FormIsOfNoDeleted == form.open = "edit" => form.id \notin deleted

\* Without a transaction of the wallet, the buttons become usable again: a
\* publication through the device key ends even if it is never mined.
ButtonsReturn ==
    []<>(~Disabled \/ tx # "idle")

\* What useVaultPublish, the modal and the form do not ensure (each is refuted by TLC).

\* One publication at a time writes baseline and manifest.
OnePublicationAtATime == upload.by # "none" => unseen = {}

\* What is announced last is the newest upload.
AnnouncedInOrder ==
    [][\A u, v \in Upload : sent'[u] # sent[u] /\ v > u => sent[v] = 0]_screenVars

\* A deleted entry stays deleted.
DeletedStaysDeleted == [][\A i \in deleted : vault'[i] = NoEntry]_screenVars

\* An edit that picks no other file keeps the document's pin.
PinSurvivesEdit ==
    [][\A i \in Entries :
          writes' # writes /\ form.file = 0 /\ vault[i].cid # 0
          /\ vault'[i].doc = vault[i].doc => vault'[i].cid = vault[i].cid]_screenVars

\* A form is saved over the entry it showed, not over a later one.
FormSavesWhatItShowed ==
    [][form.open = "edit" /\ writes' # writes /\ form'.open = "no" =>
          vault[form.id] = form.base]_screenVars

\* While publications go on, fail and are no longer followed by the tab: pins that are
\* named were uploaded, the two buttons take turns, an upload is announced once, and no
\* form is open on a deleted entry (VaultManagement.tsx).
ScreenCorrect ==
    /\ ScreenTypeOK /\ PinsAreUploaded /\ ButtonsTakeTurns /\ AnnouncedOnce
    /\ FormIsOfNoDeleted
=============================================================================
