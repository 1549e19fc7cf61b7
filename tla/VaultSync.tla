----------------------------- MODULE VaultSync ------------------------------
(***************************************************************************)
(* VaultSyncService.sync: a Mobile app reads the identity's VaultRef and,   *)
(* when its version is greater than that of the local copy, downloads the   *)
(* entries whose ref changed since the last manifest it knows and rebuilds  *)
(* its copy.  The Desktop publishes and never reads back.  Any edit, any    *)
(* publication of the same app and any transaction may come between two     *)
(* steps of a sync.                                                         *)
(***************************************************************************)
EXTENDS VaultPublish

VARIABLE syncing        \* mobile -> the pull under way

syncVars == <<publishVars, syncing>>

Pull == [manifest : Manifest, changed : SUBSET Entry]

SyncTypeOK == PublishTypeOK /\ syncing \in [Mobile -> Pull \cup {Nothing}]

SyncInit == PublishInit /\ syncing = [d \in Mobile |-> Nothing]

-----------------------------------------------------------------------------
\* The chain's version counts publications, the local one counts edits.
Behind(d) == vaultVersion > vault[d].version

\* Nothing to pull; with equal versions the copy on disk becomes the baseline.
SyncUpToDate(d) ==
    /\ syncing[d] = Nothing
    /\ HasVault /\ ~Behind(d)
    /\ baseline' = IF vaultVersion = vault[d].version
                   THEN [baseline EXCEPT ![d] = vault[d].content] ELSE baseline
    /\ UNCHANGED <<vault, manifest, cache, publishing, uploads, inFlight, vaultVersion, vaultHistory, syncing>>

\* manifestChangedEntryIds: what the last known manifest does not name alike.
ChangedRefs(m, last) ==
    {e \in Entry : m.refs[e] # Nothing /\ m.refs[e] # Refs(last)[e]}

SyncStart(d) ==
    /\ syncing[d] = Nothing
    /\ HasVault /\ Behind(d)
    /\ syncing' = [syncing EXCEPT ![d] =
          [manifest |-> CurrentPointer, changed |-> ChangedRefs(CurrentPointer, manifest[d])]]
    /\ UNCHANGED publishVars

\* The cache of d once the entries of a set have been downloaded.
Downloaded(d, got) ==
    [e \in Entry |-> IF e \in got THEN syncing[d].manifest.refs[e].value ELSE cache[d][e]]

\* A download fails after some entries: the copy stays as it was.
SyncFails(d, got) ==
    /\ syncing[d] # Nothing
    /\ got \subseteq syncing[d].changed
    /\ cache' = [cache EXCEPT ![d] = Downloaded(d, got)]
    /\ syncing' = [syncing EXCEPT ![d] = Nothing]
    /\ UNCHANGED <<vault, baseline, manifest, publishing, uploads, inFlight, vaultVersion, vaultHistory>>

\* reassembleFromManifest: downloaded entries, and those missing from the copy
\* now on disk, come from the cache; the others stay as they are on disk.
ReassembledFromDisk(d, files) ==
    [e \in Entry |->
        IF syncing[d].manifest.refs[e] = Nothing THEN Absent
        ELSE IF e \in syncing[d].changed THEN files[e] ELSE vault[d].content[e]]

Reassembled(d, files) ==
    [e \in Entry |->
        IF syncing[d].manifest.refs[e] = Nothing THEN Absent
        ELSE IF e \in syncing[d].changed \/ vault[d].content[e] = Absent
        THEN files[e] ELSE vault[d].content[e]]

\* vault.enc, vault.manifest.enc and the baseline are written in this order;
\* `written' says how many of them before the app dies, if it does.
SyncFinish(d, written) ==
    LET p == syncing[d]
        files == Downloaded(d, p.changed)
        rebuilt == Reassembled(d, files) IN
    /\ p # Nothing
    /\ cache' = [cache EXCEPT ![d] = files]
    /\ vault' = [vault EXCEPT ![d] = Saved(rebuilt, p.manifest.vaultVersion)]
    /\ manifest' = IF written < 2 THEN manifest ELSE [manifest EXCEPT ![d] = p.manifest]
    /\ baseline' = IF written < 3 THEN baseline ELSE [baseline EXCEPT ![d] = rebuilt]
    /\ syncing' = [syncing EXCEPT ![d] = Nothing]
    /\ UNCHANGED <<publishing, uploads, inFlight, vaultVersion, vaultHistory>>

SyncNext ==
    \/ PublishNext /\ UNCHANGED syncing
    \/ \E d \in Mobile : SyncUpToDate(d) \/ SyncStart(d)
    \/ \E d \in Mobile, got \in SUBSET Entry : SyncFails(d, got)
    \/ \E d \in Mobile, written \in 1..3 : SyncFinish(d, written)

SyncSpec == SyncInit /\ [][SyncNext]_syncVars

-----------------------------------------------------------------------------
(* Properties *)

\* Every entry of the last manifest a Mobile knows has its blob in the cache,
\* through failed downloads, abandoned publications and publications that
\* finish during a pull.  reassembleFromManifest silently drops an entry whose
\* blob is missing.
CacheCoversManifest ==
    \A d \in Mobile, e \in Entry :
        Refs(manifest[d])[e] # Nothing => cache[d][e] # Absent

\* A pull leaves exactly the entries of the manifest it pulled, those the user
\* had deleted on this device included.
PullRestoresEveryEntryA ==
    \A d \in Mobile, written \in 1..3 : SyncFinish(d, written) =>
        \A e \in Entry :
            vault'[d].content[e] # Absent <=> syncing[d].manifest.refs[e] # Nothing
PullRestoresEveryEntry == [][PullRestoresEveryEntryA]_syncVars

\* Posting only what changed is as good as posting everything: a device whose
\* baseline is the content of its last manifest posts a manifest of exactly the
\* vault it publishes.
IncrementalIsFullA ==
    \A d \in Device :
        LET p == publishing[d] IN
        /\ \/ DesktopUpload(d, FALSE)
           \/ MobileUpload(d) /\ vault[d].content = p.content
        /\ Baseline(d) = Resolved(manifest[d])
        => Resolved(publishing'[d].manifest) = p.content
IncrementalIsFull == [][IncrementalIsFullA]_syncVars

\* lib.rs:632: vault_publish "publishes the local vault": the manifest it posts
\* names the content it loaded, also after a crash in an earlier publication.
PublishesTheVaultA ==
    \A d \in Desktop : DesktopUpload(d, FALSE) =>
        Resolved(publishing'[d].manifest) = publishing[d].content
PublishesTheVault == [][PublishesTheVaultA]_syncVars

\* vault.rs:425: commands that change the vault exclude each other from load to
\* save, so that none loses the other's change: a save keeps every edit before.
SaveKeepsEditsA ==
    \A d \in Desktop, e \in Entry : DesktopPin(d, e) =>
        \A other \in Entry \ {e} : vault'[d].content[other] = vault[d].content[other]
SaveKeepsEdits == [][SaveKeepsEditsA]_syncVars

\* vault_storage_provider.dart:30: if updateVault fails on chain, the publication
\* is not recorded as done: the last manifest a Mobile records without a pull is
\* one the chain has accepted, or may still accept.
RecordedWasAcceptedA ==
    \A d \in Mobile : MobileCommit(d, FALSE) =>
        \/ \E i \in 1..Len(vaultHistory) : vaultHistory[i] = manifest'[d]
        \/ \E t \in inFlight : t.manifest = manifest'[d]
RecordedWasAccepted == [][RecordedWasAcceptedA]_syncVars

\* vault_sync_service.dart:134: "only when the two versions are equal is it safe
\* to mark as published up to here": what is marked is what the chain holds.
MarkedIsPublishedA ==
    \A d \in Mobile : SyncUpToDate(d) /\ baseline'[d] # baseline[d] =>
        baseline'[d] = Resolved(CurrentPointer)
MarkedIsPublished == [][MarkedIsPublishedA]_syncVars

\* Every entry of the last manifest a Mobile knows has its blob in the cache
\* (vault_sync_service.dart).
SyncConsistent == SyncTypeOK /\ CacheCoversManifest

\* With edits, crashes and publications between the steps of a pull: what a Mobile has
\* cached covers its manifest, and a pull restores every entry of the one it pulled
\* (vault_sync_service.dart).
SyncCorrect == []SyncConsistent /\ PullRestoresEveryEntry
=============================================================================
