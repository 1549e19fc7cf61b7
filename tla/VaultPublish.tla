---------------------------- MODULE VaultPublish ----------------------------
(***************************************************************************)
(* How the Desktop and the Mobile apps of one identity publish their copy   *)
(* of the vault: they post a blob per entry that changed since the last     *)
(* publication, then a manifest naming the blob of every entry, and at last *)
(* ask the account to point VaultRegistry at the manifest.                  *)
(*                                                                         *)
(* The registry (contracts/src/VaultRegistry.sol) is the slot of their      *)
(* identity: a pointer to the vault's manifest (cid and contentHash as one), *)
(* its version and every pointer it ever had.  The caller check is          *)
(* IdentityResolver's; cid and hash are never empty for what the apps post.  *)
(*                                                                         *)
(* An entry's content is a Value.  Values recur: setting and clearing the   *)
(* favourite mark gives back the entry of before, byte for byte.  A value   *)
(* in Draft carries a document whose bytes have not been uploaded; Pinned   *)
(* maps it to the same entry with the document's cid.  A Ref is the content *)
(* hash of one upload: encryption is randomised, so posting a value twice   *)
(* gives two refs.                                                          *)
(***************************************************************************)
EXTENDS Naturals, Sequences, FiniteSets

CONSTANTS
    MAX_HISTORY,    \* updates of the pointer the registry takes
    Desktop,        \* the desktop apps
    Mobile,         \* the mobile apps
    Entry,          \* entry ids
    Value,          \* contents of an entry
    Absent,         \* no such entry
    Draft,          \* values whose document is not uploaded yet
    Pinned,         \* draft -> the value that names the uploaded document
    Nothing,        \* no file, no operation under way
    MaxVersion,     \* bound: edits of one copy of the vault
    MaxUploads      \* bound: manifests posted

ASSUME VaultAssumption ==
    /\ Desktop \cap Mobile = {}
    /\ Absent \notin Value
    /\ Draft \subseteq Value
    /\ Pinned \in [Draft -> Value \ Draft]
    /\ {MaxVersion, MaxUploads} \subseteq Nat
    /\ MAX_HISTORY \in Nat \ {0}

VARIABLES
    vaultVersion,   \* VaultRef.version, 0 before the first update
    vaultHistory,   \* _vaultHistory: the pointers, oldest first
    vault,          \* device -> vault.enc; version counts the edits
    baseline,       \* device -> vault.published.enc, what it last published
    manifest,       \* device -> vault.manifest.enc, the last manifest it knows
    cache,          \* mobile -> vault_entries/, the blobs it keeps
    publishing,     \* device -> the publication under way
    uploads,        \* manifests posted so far
    inFlight        \* updateVault transactions sent and not yet decided

publishVars == <<vault, baseline, manifest, cache, publishing, uploads, inFlight, vaultVersion, vaultHistory>>

VaultRegistryInit == vaultVersion = 0 /\ vaultHistory = <<>>

HasVault == vaultVersion # 0
CurrentPointer == vaultHistory[Len(vaultHistory)]

\* The last update a full history lets in is the last one for good.
UpdateVault(pointer) ==
    /\ Len(vaultHistory) < MAX_HISTORY
    /\ vaultVersion' = vaultVersion + 1
    /\ vaultHistory' = Append(vaultHistory, pointer)

-----------------------------------------------------------------------------
Device == Desktop \cup Mobile
Content == [Entry -> Value \cup {Absent}]
Empty == [e \in Entry |-> Absent]
Written == Value \ {Pinned[x] : x \in Draft}   \* what an edit can leave
Vault == [exists : BOOLEAN, version : Nat, content : Content]
NoVault == [exists |-> FALSE, version |-> 0, content |-> Empty]
Ref == [value : Value, upload : 1..MaxUploads]
Manifest == [id : 1..MaxUploads, vaultVersion : Nat, refs : [Entry -> Ref \cup {Nothing}]]
ASSUME NothingAssumption == Nothing \notin Ref /\ Nothing \notin Manifest

\* A UserOperation carries the account's nonce, a transaction of the owner none.
Transaction == [manifest : Manifest, nonce : Nat \cup {Nothing}]

Publication == [stage : {"pin", "upload", "announce", "confirm"}, toPin : SUBSET Entry,
                version : Nat, content : Content, manifest : Manifest \cup {Nothing}]

PublishTypeOK ==
    /\ vault \in [Device -> Vault]
    /\ baseline \in [Device -> Content \cup {Nothing}]
    /\ manifest \in [Device -> Manifest \cup {Nothing}]
    /\ cache \in [Mobile -> Content]
    /\ publishing \in [Device -> Publication \cup {Nothing}]
    /\ uploads \in 0..MaxUploads
    /\ inFlight \subseteq Transaction
    /\ vaultVersion = Len(vaultHistory)
    /\ \A i \in 1..Len(vaultHistory) : vaultHistory[i] \in Manifest

PublishInit ==
    /\ VaultRegistryInit
    /\ vault = [d \in Device |-> NoVault]
    /\ baseline = [d \in Device |-> Nothing]
    /\ manifest = [d \in Device |-> Nothing]
    /\ cache = [d \in Mobile |-> Empty]
    /\ publishing = [d \in Device |-> Nothing]
    /\ uploads = 0
    /\ inFlight = {}

-----------------------------------------------------------------------------
\* What a device compares with: an empty vault before its first publication.
Baseline(d) == IF baseline[d] = Nothing THEN Empty ELSE baseline[d]
Changed(content, base) == {e \in Entry : content[e] # base[e]}
\* The refs of a manifest, and the content they stand for.
Refs(m) == IF m = Nothing THEN [e \in Entry |-> Nothing] ELSE m.refs
Resolved(m) ==
    [e \in Entry |-> IF Refs(m)[e] = Nothing THEN Absent ELSE Refs(m)[e].value]

\* Every repository call loads the vault, changes it, counts it and saves it.
Saved(content, version) == [exists |-> TRUE, version |-> version, content |-> content]

\* A user's edit of entry e: added, updated, marked favourite or deleted.
Edit(d, e, x) ==
    /\ x # vault[d].content[e]
    /\ vault[d].version < MaxVersion
    /\ vault' = [vault EXCEPT ![d] =
          Saved([vault[d].content EXCEPT ![e] = x], vault[d].version + 1)]
    /\ UNCHANGED <<baseline, manifest, cache, publishing, uploads, inFlight, vaultVersion, vaultHistory>>

\* The manifest a device posts: refs of the last manifest it knows for what is
\* unchanged, a fresh upload of `content' for what `changed' names, and nothing
\* for what is gone from `current', the vault on disk.
RefsKeepingRemoved(d, content, current, changed) ==
    [e \in Entry |->
        IF e \notin changed \/ content[e] = Absent
        THEN Refs(manifest[d])[e]
        ELSE [value |-> content[e], upload |-> uploads + 1]]

NewRefs(d, content, current, changed) ==
    [e \in Entry |->
        IF e \notin changed THEN Refs(manifest[d])[e]
        ELSE IF current[e] = Absent THEN Nothing
        ELSE IF content[e] = Absent THEN Refs(manifest[d])[e]
        ELSE [value |-> content[e], upload |-> uploads + 1]]

NewManifest(d, version, content, current) ==
    [id |-> uploads + 1, vaultVersion |-> version,
     refs |-> NewRefs(d, content, current, Changed(current, Baseline(d)))]

-----------------------------------------------------------------------------
(* The Desktop: vault_publish holds the copy it loaded from start to end.   *)

DesktopStart(d) ==
    /\ publishing[d] = Nothing
    /\ vault[d].exists
    /\ publishing' = [publishing EXCEPT ![d] =
          [stage |-> "pin", toPin |-> {}, version |-> vault[d].version,
           content |-> vault[d].content, manifest |-> Nothing]]
    /\ UNCHANGED <<vault, baseline, manifest, cache, uploads, inFlight, vaultVersion, vaultHistory>>

\* After each document is uploaded the loaded copy is saved, whatever was saved
\* meanwhile.
DesktopPin(d, e) ==
    LET p == publishing[d] IN
    /\ p # Nothing /\ p.stage = "pin"
    /\ p.content[e] \in Draft
    /\ LET pinned == [p.content EXCEPT ![e] = Pinned[@]] IN
       /\ publishing' = [publishing EXCEPT ![d].content = pinned]
       /\ vault' = [vault EXCEPT ![d] = Saved(pinned, p.version)]
    /\ UNCHANGED <<baseline, manifest, cache, uploads, inFlight, vaultVersion, vaultHistory>>

\* Entries, then the manifest, are posted; the manifest and the baseline are
\* then written, in this order: a crash may come between the two.
DesktopUpload(d, crash) ==
    LET p == publishing[d]
        m == NewManifest(d, p.version, p.content, p.content) IN
    /\ p # Nothing /\ p.stage = "pin"
    /\ \A e \in Entry : p.content[e] \notin Draft
    /\ uploads < MaxUploads
    /\ uploads' = uploads + 1
    /\ manifest' = [manifest EXCEPT ![d] = m]
    /\ baseline' = IF crash THEN baseline ELSE [baseline EXCEPT ![d] = p.content]
    /\ publishing' = [publishing EXCEPT ![d] =
          IF crash THEN Nothing ELSE [p EXCEPT !.stage = "announce", !.manifest = m]]
    /\ UNCHANGED <<vault, cache, inFlight, vaultVersion, vaultHistory>>

\* updateVault through the owner's wallet, or through a UserOperation.
DesktopAnnounce(d, nonce) ==
    LET p == publishing[d] IN
    /\ p # Nothing /\ p.stage = "announce"
    /\ nonce \in {vaultVersion, Nothing}
    /\ inFlight' = inFlight \cup {[manifest |-> p.manifest, nonce |-> nonce]}
    /\ publishing' = [publishing EXCEPT ![d] = Nothing]
    /\ UNCHANGED <<vault, baseline, manifest, cache, uploads, vaultVersion, vaultHistory>>

-----------------------------------------------------------------------------
(* The Mobile: VaultPublishService.publish captures the vault after the     *)
(* documents, and writes what it published when updateVault has returned.   *)

MobileStart(d) ==
    /\ publishing[d] = Nothing
    /\ vault[d].exists
    /\ publishing' = [publishing EXCEPT ![d] =
          [stage |-> "pin", toPin |-> {e \in Entry : vault[d].content[e] \in Draft},
           version |-> 0, content |-> Empty, manifest |-> Nothing]]
    /\ UNCHANGED <<vault, baseline, manifest, cache, uploads, inFlight, vaultVersion, vaultHistory>>

\* setDocumentPinInfo is an edit of its own; an entry gone or no longer a
\* document is skipped.
MobilePin(d, e) ==
    LET p == publishing[d]
        x == vault[d].content[e] IN
    /\ p # Nothing /\ p.stage = "pin" /\ e \in p.toPin
    /\ publishing' = [publishing EXCEPT ![d].toPin = @ \ {e}]
    /\ vault' = IF x \notin Draft THEN vault ELSE
          [vault EXCEPT ![d] = Saved([vault[d].content EXCEPT ![e] = Pinned[x]],
                                     vault[d].version + 1)]
    /\ UNCHANGED <<baseline, manifest, cache, uploads, inFlight, vaultVersion, vaultHistory>>

MobileCapture(d) ==
    LET p == publishing[d] IN
    /\ p # Nothing /\ p.stage = "pin" /\ p.toPin = {}
    /\ publishing' = [publishing EXCEPT ![d] =
          [p EXCEPT !.stage = "upload", !.version = vault[d].version,
                    !.content = vault[d].content]]
    /\ UNCHANGED <<vault, baseline, manifest, cache, uploads, inFlight, vaultVersion, vaultHistory>>

\* What changed is read from the disk again, the values are the captured ones.
\* Each entry posted is kept in the cache.
CachedAfterUpload(d, m) ==
    [e \in Entry |-> IF /\ m.refs[e] # Nothing
                        /\ m.refs[e].upload = m.id
                     THEN m.refs[e].value ELSE cache[d][e]]

MobileUpload(d) ==
    LET p == publishing[d]
        m == NewManifest(d, p.version, p.content, vault[d].content) IN
    /\ p # Nothing /\ p.stage = "upload"
    /\ uploads < MaxUploads
    /\ uploads' = uploads + 1
    /\ cache' = [cache EXCEPT ![d] = CachedAfterUpload(d, m)]
    /\ publishing' = [publishing EXCEPT ![d] = [p EXCEPT !.stage = "announce", !.manifest = m]]
    /\ UNCHANGED <<vault, baseline, manifest, inFlight, vaultVersion, vaultHistory>>

MobileAnnounce(d) ==
    LET p == publishing[d] IN
    /\ p # Nothing /\ p.stage = "announce"
    /\ inFlight' = inFlight \cup {[manifest |-> p.manifest, nonce |-> vaultVersion]}
    /\ publishing' = [publishing EXCEPT ![d].stage = "confirm"]
    /\ UNCHANGED <<vault, baseline, manifest, cache, uploads, vaultVersion, vaultHistory>>

\* _executeViaUserOp returns on a receipt, whatever it says, and after 30 polls
\* without one.  The manifest is written before the baseline.
MobileCommit(d, crash) ==
    LET p == publishing[d] IN
    /\ p # Nothing /\ p.stage = "confirm"
    /\ manifest' = [manifest EXCEPT ![d] = p.manifest]
    /\ baseline' = IF crash THEN baseline ELSE [baseline EXCEPT ![d] = p.content]
    /\ publishing' = [publishing EXCEPT ![d] = Nothing]
    /\ UNCHANGED <<vault, cache, uploads, inFlight, vaultVersion, vaultHistory>>

-----------------------------------------------------------------------------
\* An upload, the signer or the network fails, or the app dies.
Abandon(d) ==
    /\ publishing[d] # Nothing
    /\ publishing' = [publishing EXCEPT ![d] = Nothing]
    /\ UNCHANGED <<vault, baseline, manifest, cache, uploads, inFlight, vaultVersion, vaultHistory>>

\* A UserOperation is included only while its nonce is the account's.
Mined(t) ==
    /\ t.nonce \in {vaultVersion, Nothing}
    /\ UpdateVault(t.manifest)
    /\ inFlight' = inFlight \ {t}
    /\ UNCHANGED <<vault, baseline, manifest, cache, publishing, uploads>>

\* Reverted, replaced, or never included.
Failed(t) ==
    /\ inFlight' = inFlight \ {t}
    /\ UNCHANGED <<vault, baseline, manifest, cache, publishing, uploads, vaultVersion, vaultHistory>>

DesktopNext(d) ==
    \/ DesktopStart(d)
    \/ \E e \in Entry : DesktopPin(d, e)
    \/ \E crash \in BOOLEAN : DesktopUpload(d, crash)
    \/ \E nonce \in {vaultVersion, Nothing} : DesktopAnnounce(d, nonce)

MobileNext(d) ==
    \/ MobileStart(d)
    \/ \E e \in Entry : MobilePin(d, e)
    \/ MobileCapture(d)
    \/ MobileUpload(d)
    \/ MobileAnnounce(d)
    \/ \E crash \in BOOLEAN : MobileCommit(d, crash)

PublishNext ==
    \/ \E d \in Device, e \in Entry, x \in Written \cup {Absent} : Edit(d, e, x)
    \/ \E d \in Desktop : DesktopNext(d)
    \/ \E d \in Mobile : MobileNext(d)
    \/ \E d \in Device : Abandon(d)
    \/ \E t \in inFlight : Mined(t) \/ Failed(t)

PublishSpec == PublishInit /\ [][PublishNext]_publishVars
=============================================================================
