--------------------------- MODULE VaultSyncProofs --------------------------
(***************************************************************************)
(* For any number of apps, entries, values and uploads: the cache of a      *)
(* Mobile holds what the last manifest it knows names, and a pull restores  *)
(* the manifest it pulled.  Both rest on what two operations in the middle  *)
(* of their work have ensured: a publication that has posted its manifest   *)
(* keeps the blobs in the cache, and a pull has to download only what the   *)
(* cache may lack.                                                          *)
(***************************************************************************)
EXTENDS VaultSync, SequenceTheorems, TLAPS

\* A manifest is there once it has been posted.
PublishTyped ==
    /\ PublishTypeOK
    /\ vaultHistory \in Seq(Manifest)
    /\ \A d \in Device :
          /\ publishing[d] # Nothing
          /\ publishing[d].stage \in {"announce", "confirm"}
          => publishing[d].manifest \in Manifest

\* A pull downloads what exists.
SyncTyped ==
    /\ PublishTyped
    /\ syncing \in [Mobile -> Pull \cup {Nothing}]
    /\ \A d \in Mobile : syncing[d] # Nothing =>
          \A e \in syncing[d].changed : syncing[d].manifest.refs[e] # Nothing

\* The blobs of a manifest that has been posted and not yet written.
PostedCovered ==
    \A d \in Mobile :
        publishing[d] # Nothing /\ publishing[d].stage \in {"announce", "confirm"} =>
            \A e \in Entry :
                publishing[d].manifest.refs[e] # Nothing => cache[d][e] # Absent

\* The blobs a pull does not download.
PullCovered ==
    \A d \in Mobile : syncing[d] # Nothing =>
        \A e \in Entry \ syncing[d].changed :
            syncing[d].manifest.refs[e] # Nothing => cache[d][e] # Absent

SyncInv == SyncTyped /\ CacheCoversManifest /\ PostedCovered /\ PullCovered

-----------------------------------------------------------------------------
(* Lemmas about the operators of the model.                                 *)

\* The refs of a manifest, or of none.
LEMMA RefsType ==
    ASSUME NEW m \in Manifest \cup {Nothing}
    PROVE  Refs(m) \in [Entry -> Ref \cup {Nothing}]
BY DEF Refs, Manifest

\* What is uploaded is written down in a ref of that upload.
LEMMA NewRefsType ==
    ASSUME PublishTyped, NEW d \in Device, NEW content \in Content, NEW current \in Content,
           NEW version \in Nat, uploads < MaxUploads
    PROVE  /\ NewManifest(d, version, content, current) \in Manifest
           /\ NewManifest(d, version, content, current).id = uploads + 1
<1> USE VaultAssumption
<1>1. manifest[d] \in Manifest \cup {Nothing}
  BY DEF PublishTyped, PublishTypeOK
<1>2. uploads + 1 \in 1..MaxUploads
  BY DEF PublishTyped, PublishTypeOK
<1>3. \A changed : NewRefs(d, content, current, changed) \in [Entry -> Ref \cup {Nothing}]
  BY <1>1, <1>2, RefsType DEF NewRefs, Ref, Content
<1>4. QED BY <1>2, <1>3 DEF NewManifest, Manifest

\* A downloaded entry is an entry.
LEMMA DownloadedType ==
    ASSUME SyncTyped, NEW d \in Mobile, syncing[d] # Nothing,
           NEW got \in SUBSET Entry, got \subseteq syncing[d].changed
    PROVE  /\ Downloaded(d, got) \in Content
           /\ \A e \in got : Downloaded(d, got)[e] \in Value
           /\ \A e \in Entry \ got : Downloaded(d, got)[e] = cache[d][e]
<1>1. syncing[d] \in Pull /\ cache[d] \in Content
  BY DEF SyncTyped, PublishTyped, PublishTypeOK
<1>2. \A e \in got : /\ syncing[d].manifest.refs[e] \in Ref
                     /\ syncing[d].manifest.refs[e].value \in Value
  BY <1>1 DEF Pull, Manifest, Ref, SyncTyped
<1>3. QED BY <1>1, <1>2 DEF Downloaded, Content

-----------------------------------------------------------------------------
(* Types.                                                                   *)

LEMMA InitInv == SyncInit => SyncInv
<1> SUFFICES ASSUME SyncInit PROVE SyncInv
  OBVIOUS
<1> USE VaultAssumption DEF SyncInit, PublishInit, VaultRegistryInit
<1>1. Empty \in Content
  BY DEF Empty, Content
<1>2. NoVault \in Vault
  BY <1>1 DEF NoVault, Vault
<1>3. PublishTyped
  BY <1>1, <1>2 DEF PublishTyped, PublishTypeOK, Device
<1>4. SyncTyped
  BY <1>3 DEF SyncTyped
<1>5. CacheCoversManifest /\ PostedCovered /\ PullCovered
  BY DEF CacheCoversManifest, PostedCovered, PullCovered, Refs, Device
<1>6. QED BY <1>4, <1>5 DEF SyncInv

\* A publication under way, and the copy beside it.
LEMMA PublicationFields ==
    ASSUME PublishTyped, NEW d \in Device
    PROVE  /\ vault[d].content \in Content /\ vault[d].version \in Nat
           /\ publishing[d] # Nothing =>
                 /\ publishing[d] \in Publication
                 /\ publishing[d].content \in Content /\ publishing[d].version \in Nat
BY DEF PublishTyped, PublishTypeOK, Publication, Vault

LEMMA DesktopKeepsTypes ==
    ASSUME PublishTyped, NEW d \in Desktop, DesktopNext(d) PROVE PublishTyped'
<1> DEFINE p == publishing[d]
<1> USE VaultAssumption
<1>1. d \in Device
  BY DEF Device
<1>2. /\ vault[d].content \in Content /\ vault[d].version \in Nat
      /\ p # Nothing =>
            p \in Publication /\ p.content \in Content /\ p.version \in Nat
  BY <1>1, PublicationFields
<1>3. CASE DesktopStart(d)
  <2>1. [stage |-> "pin", toPin |-> {}, version |-> vault[d].version,
         content |-> vault[d].content, manifest |-> Nothing] \in Publication
    BY <1>2 DEF Publication
  <2>2. QED BY <1>1, <1>3, <2>1 DEF DesktopStart, PublishTyped, PublishTypeOK
<1>4. ASSUME NEW e \in Entry, DesktopPin(d, e) PROVE PublishTyped'
  <2> DEFINE pinned == [p.content EXCEPT ![e] = Pinned[@]]
             q == [p EXCEPT !.content = pinned]
  <2>1. p # Nothing /\ p.stage = "pin" /\ p.content[e] \in Draft
    BY <1>4 DEF DesktopPin
  <2>2. pinned \in Content
    BY <1>2, <2>1 DEF Content
  <2>3. Saved(pinned, p.version) \in Vault
    BY <1>2, <2>1, <2>2 DEF Saved, Vault
  <2>4. q \in Publication /\ q.stage = "pin"
    BY <1>2, <2>1, <2>2 DEF Publication
  <2>5. /\ publishing' = [publishing EXCEPT ![d] = q]
        /\ vault' = [vault EXCEPT ![d] = Saved(pinned, p.version)]
        /\ UNCHANGED <<baseline, manifest, cache, uploads, inFlight, vaultVersion, vaultHistory>>
    BY <1>4 DEF DesktopPin
  <2> HIDE DEF pinned, q
  <2>6. QED BY <1>1, <2>3, <2>4, <2>5 DEF PublishTyped, PublishTypeOK
<1>5. ASSUME NEW crash \in BOOLEAN, DesktopUpload(d, crash) PROVE PublishTyped'
  <2> DEFINE m == NewManifest(d, p.version, p.content, p.content)
  <2>1. p # Nothing /\ uploads < MaxUploads
    BY <1>5 DEF DesktopUpload
  <2>2. m \in Manifest
    BY <1>1, <1>2, <2>1, NewRefsType
  <2>3. [p EXCEPT !.stage = "announce", !.manifest = m] \in Publication
    BY <1>2, <2>1, <2>2 DEF Publication
  <2>4. [p EXCEPT !.stage = "announce", !.manifest = m].manifest = m
    BY <1>2, <2>1 DEF Publication
  <2>5. /\ manifest' = [manifest EXCEPT ![d] = m]
        /\ baseline' = IF crash THEN baseline ELSE [baseline EXCEPT ![d] = p.content]
        /\ publishing' = [publishing EXCEPT ![d] =
              IF crash THEN Nothing ELSE [p EXCEPT !.stage = "announce", !.manifest = m]]
        /\ uploads' = uploads + 1
        /\ UNCHANGED <<vault, cache, inFlight, vaultVersion, vaultHistory>>
    BY <1>5 DEF DesktopUpload
  <2> HIDE DEF m
  <2>6. QED BY <1>1, <1>2, <2>1, <2>2, <2>3, <2>4, <2>5 DEF PublishTyped, PublishTypeOK
<1>6. ASSUME NEW nonce \in {vaultVersion, Nothing}, DesktopAnnounce(d, nonce) PROVE PublishTyped'
  <2>1. p.manifest \in Manifest /\ vaultVersion \in Nat
    BY <1>1, <1>6 DEF DesktopAnnounce, PublishTyped, PublishTypeOK
  <2>2. [manifest |-> p.manifest, nonce |-> nonce] \in Transaction
    BY <2>1 DEF Transaction
  <2>3. QED BY <1>1, <1>6, <2>2 DEF DesktopAnnounce, PublishTyped, PublishTypeOK
<1>7. QED BY <1>3, <1>4, <1>5, <1>6 DEF DesktopNext

LEMMA MobileKeepsTypes ==
    ASSUME PublishTyped, NEW d \in Mobile, MobileNext(d) PROVE PublishTyped'
<1> DEFINE p == publishing[d]
<1> USE VaultAssumption
<1>1. d \in Device
  BY DEF Device
<1>2. /\ vault[d].content \in Content /\ vault[d].version \in Nat
      /\ p # Nothing =>
            p \in Publication /\ p.content \in Content /\ p.version \in Nat
  BY <1>1, PublicationFields
<1>3. CASE MobileStart(d)
  <2> DEFINE q == [stage |-> "pin", toPin |-> {e \in Entry : vault[d].content[e] \in Draft},
                   version |-> 0, content |-> Empty, manifest |-> Nothing]
  <2>1. q \in Publication /\ q.stage = "pin"
    BY DEF Publication, Empty, Content
  <2>2. publishing' = [publishing EXCEPT ![d] = q]
    BY <1>3 DEF MobileStart
  <2> HIDE DEF q
  <2>3. QED BY <1>1, <1>3, <2>1, <2>2 DEF MobileStart, PublishTyped, PublishTypeOK
<1>4. ASSUME NEW e \in Entry, MobilePin(d, e) PROVE PublishTyped'
  <2> DEFINE q == [p EXCEPT !.toPin = @ \ {e}]
             pinned == [vault[d].content EXCEPT ![e] = Pinned[vault[d].content[e]]]
  <2>1. p # Nothing /\ p.stage = "pin"
    BY <1>4 DEF MobilePin
  <2>2. q \in Publication /\ q.stage = "pin"
    BY <1>2, <2>1 DEF Publication
  <2>3. vault[d].content[e] \in Draft => Saved(pinned, vault[d].version + 1) \in Vault
    BY <1>2 DEF Saved, Vault, Content
  <2>4. /\ publishing' = [publishing EXCEPT ![d] = q]
        /\ vault' = IF vault[d].content[e] \notin Draft THEN vault
                    ELSE [vault EXCEPT ![d] = Saved(pinned, vault[d].version + 1)]
    BY <1>4 DEF MobilePin
  <2> HIDE DEF q, pinned
  <2>5. QED BY <1>1, <1>4, <2>2, <2>3, <2>4 DEF MobilePin, PublishTyped, PublishTypeOK
<1>5. CASE MobileCapture(d)
  <2> DEFINE q == [p EXCEPT !.stage = "upload", !.version = vault[d].version,
                            !.content = vault[d].content]
  <2>1. p # Nothing
    BY <1>5 DEF MobileCapture
  <2>2. q \in Publication /\ q.stage = "upload"
    BY <1>2, <2>1 DEF Publication
  <2>3. publishing' = [publishing EXCEPT ![d] = q]
    BY <1>5 DEF MobileCapture
  <2> HIDE DEF q
  <2>4. QED BY <1>1, <1>5, <2>2, <2>3 DEF MobileCapture, PublishTyped, PublishTypeOK
<1>6. CASE MobileUpload(d)
  <2> DEFINE m == NewManifest(d, p.version, p.content, vault[d].content)
             q == [p EXCEPT !.stage = "announce", !.manifest = m]
  <2>1. p # Nothing /\ uploads < MaxUploads
    BY <1>6 DEF MobileUpload
  <2>2. m \in Manifest
    BY <1>1, <1>2, <2>1, NewRefsType
  <2>3. q \in Publication /\ q.manifest = m
    BY <1>2, <2>1, <2>2 DEF Publication
  <2>4. CachedAfterUpload(d, m) \in Content
    BY <2>2 DEF CachedAfterUpload, Manifest, Ref, Content, PublishTyped, PublishTypeOK
  <2>5. /\ publishing' = [publishing EXCEPT ![d] = q]
        /\ cache' = [cache EXCEPT ![d] = CachedAfterUpload(d, m)]
        /\ uploads' = uploads + 1
        /\ UNCHANGED <<vault, baseline, manifest, inFlight, vaultVersion, vaultHistory>>
    BY <1>6 DEF MobileUpload
  <2> HIDE DEF m, q
  <2>6. QED BY <1>1, <2>1, <2>2, <2>3, <2>4, <2>5 DEF PublishTyped, PublishTypeOK
<1>7. CASE MobileAnnounce(d)
  <2> DEFINE q == [p EXCEPT !.stage = "confirm"]
  <2>1. p # Nothing /\ p.manifest \in Manifest /\ vaultVersion \in Nat
    BY <1>1, <1>7 DEF MobileAnnounce, PublishTyped, PublishTypeOK
  <2>2. [manifest |-> p.manifest, nonce |-> vaultVersion] \in Transaction
    BY <2>1 DEF Transaction
  <2>3. q \in Publication /\ q.manifest = p.manifest
    BY <1>2, <2>1 DEF Publication
  <2>4. publishing' = [publishing EXCEPT ![d] = q]
    BY <1>7 DEF MobileAnnounce
  <2> HIDE DEF q
  <2>5. QED BY <1>1, <1>7, <2>1, <2>2, <2>3, <2>4 DEF MobileAnnounce, PublishTyped, PublishTypeOK
<1>8. ASSUME NEW crash \in BOOLEAN, MobileCommit(d, crash) PROVE PublishTyped'
  <2>1. p.manifest \in Manifest /\ p.content \in Content
    BY <1>1, <1>2, <1>8 DEF MobileCommit, PublishTyped
  <2>2. QED BY <1>1, <1>8, <2>1 DEF MobileCommit, PublishTyped, PublishTypeOK
<1>9. QED BY <1>3, <1>4, <1>5, <1>6, <1>7, <1>8 DEF MobileNext

\* The steps of publications and transactions keep the types.
LEMMA PublishKeepsTypes ==
    ASSUME PublishTyped, PublishNext PROVE PublishTyped'
<1> USE VaultAssumption
<1>1. ASSUME NEW d \in Device, NEW e \in Entry, NEW x \in Written \cup {Absent}, Edit(d, e, x)
      PROVE  PublishTyped'
  <2> DEFINE edited == [vault[d].content EXCEPT ![e] = x]
  <2>1. edited \in Content
    BY PublicationFields DEF Written, Content
  <2>2. Saved(edited, vault[d].version + 1) \in Vault
    BY <2>1, PublicationFields DEF Saved, Vault
  <2>3. vault' = [vault EXCEPT ![d] = Saved(edited, vault[d].version + 1)]
    BY <1>1 DEF Edit
  <2> HIDE DEF edited
  <2>4. QED BY <1>1, <2>2, <2>3 DEF Edit, PublishTyped, PublishTypeOK
<1>2. ASSUME NEW d \in Device, Abandon(d) PROVE PublishTyped'
  BY <1>2 DEF Abandon, PublishTyped, PublishTypeOK
<1>3. ASSUME NEW t \in inFlight, Mined(t) PROVE PublishTyped'
  <2>1. t.manifest \in Manifest /\ vaultHistory \in Seq(Manifest)
    BY DEF PublishTyped, PublishTypeOK, Transaction
  <2>2. /\ vaultHistory' \in Seq(Manifest)
        /\ vaultVersion' = Len(vaultHistory')
        /\ \A i \in 1..Len(vaultHistory') : vaultHistory'[i] \in Manifest
    BY <1>3, <2>1 DEF Mined, UpdateVault, PublishTyped, PublishTypeOK
  <2>3. QED BY <1>3, <2>2 DEF Mined, PublishTyped, PublishTypeOK
<1>4. ASSUME NEW t \in inFlight, Failed(t) PROVE PublishTyped'
  BY <1>4 DEF Failed, PublishTyped, PublishTypeOK
<1>5. QED
  BY <1>1, <1>2, <1>3, <1>4, DesktopKeepsTypes, MobileKeepsTypes DEF PublishNext

LEMMA StepKeepsTypes ==
    ASSUME SyncTyped, [SyncNext]_syncVars PROVE SyncTyped'
<1> USE VaultAssumption DEF SyncTyped
<1>1. \A d \in Mobile : d \in Device
  BY DEF Device
<1>2. CASE PublishNext /\ UNCHANGED syncing
  BY <1>2, PublishKeepsTypes
<1>3. ASSUME NEW d \in Mobile, SyncUpToDate(d) PROVE SyncTyped'
  <2>1. vault[d].content \in Content
    BY <1>1, PublicationFields
  <2>2. QED BY <1>1, <1>3, <2>1 DEF SyncUpToDate, PublishTyped, PublishTypeOK
<1>4. ASSUME NEW d \in Mobile, SyncStart(d) PROVE SyncTyped'
  <2> DEFINE q == [manifest |-> CurrentPointer, changed |-> ChangedRefs(CurrentPointer, manifest[d])]
  <2>1. CurrentPointer \in Manifest
    BY <1>4 DEF SyncStart, HasVault, CurrentPointer, PublishTyped, PublishTypeOK
  <2>2. q \in Pull /\ \A e \in q.changed : q.manifest.refs[e] # Nothing
    BY <2>1 DEF Pull, ChangedRefs
  <2>3. syncing' = [syncing EXCEPT ![d] = q] /\ UNCHANGED publishVars
    BY <1>4 DEF SyncStart
  <2> HIDE DEF q
  <2>4. QED BY <2>2, <2>3 DEF publishVars, PublishTyped, PublishTypeOK
<1>5. ASSUME NEW d \in Mobile, NEW got \in SUBSET Entry, SyncFails(d, got) PROVE SyncTyped'
  <2>1. Downloaded(d, got) \in Content
    BY <1>5, DownloadedType DEF SyncFails
  <2>2. QED BY <1>5, <2>1 DEF SyncFails, PublishTyped, PublishTypeOK
<1>6. ASSUME NEW d \in Mobile, NEW written \in 1..3, SyncFinish(d, written) PROVE SyncTyped'
  <2> DEFINE p == syncing[d]
             files == Downloaded(d, p.changed)
             rebuilt == Reassembled(d, files)
  <2>1. p # Nothing /\ p \in Pull /\ p.manifest \in Manifest /\ p.changed \in SUBSET Entry
    BY <1>6 DEF SyncFinish, Pull
  <2>2. files \in Content
    BY <2>1, DownloadedType
  <2>3. rebuilt \in Content
    BY <1>1, <2>2, PublicationFields DEF Reassembled, Content
  <2>4. Saved(rebuilt, p.manifest.vaultVersion) \in Vault
    BY <2>1, <2>3 DEF Saved, Vault, Manifest
  <2>5. /\ cache' = [cache EXCEPT ![d] = files]
        /\ vault' = [vault EXCEPT ![d] = Saved(rebuilt, p.manifest.vaultVersion)]
        /\ manifest' = IF written < 2 THEN manifest ELSE [manifest EXCEPT ![d] = p.manifest]
        /\ baseline' = IF written < 3 THEN baseline ELSE [baseline EXCEPT ![d] = rebuilt]
        /\ syncing' = [syncing EXCEPT ![d] = Nothing]
        /\ UNCHANGED <<publishing, uploads, inFlight, vaultVersion, vaultHistory>>
    BY <1>6 DEF SyncFinish
  <2> HIDE DEF files, rebuilt
  <2>6. PublishTyped'
    BY <1>1, <2>1, <2>2, <2>3, <2>4, <2>5 DEF PublishTyped, PublishTypeOK
  <2>7. QED BY <2>5, <2>6
<1>7. CASE UNCHANGED syncVars
  BY <1>7 DEF syncVars, publishVars, PublishTyped, PublishTypeOK
<1>8. QED BY <1>2, <1>3, <1>4, <1>5, <1>6, <1>7 DEF SyncNext

-----------------------------------------------------------------------------
(* The cache.                                                               *)

\* No step takes a blob out of a cache.
LEMMA CacheGrows ==
    ASSUME SyncTyped, [SyncNext]_syncVars,
           NEW d \in Mobile, NEW e \in Entry, cache[d][e] # Absent
    PROVE  cache'[d][e] # Absent
<1> USE VaultAssumption
<1>1. cache \in [Mobile -> Content] /\ d \in Device
  BY DEF SyncTyped, PublishTyped, PublishTypeOK, Device
<1>2. ASSUME NEW c \in Mobile, MobileUpload(c) PROVE cache'[d][e] # Absent
  <2> DEFINE m == NewManifest(c, publishing[c].version, publishing[c].content, vault[c].content)
  <2>1. c \in Device /\ publishing[c] # Nothing /\ uploads < MaxUploads
    BY <1>2 DEF MobileUpload, Device
  <2>2. m \in Manifest
    BY <2>1, PublicationFields, NewRefsType DEF SyncTyped
  <2>3. CachedAfterUpload(c, m)[e] = cache[c][e] \/ CachedAfterUpload(c, m)[e] \in Value
    BY <2>2 DEF CachedAfterUpload, Manifest, Ref
  <2>4. cache' = [cache EXCEPT ![c] = CachedAfterUpload(c, m)]
    BY <1>2 DEF MobileUpload
  <2> HIDE DEF m
  <2>5. QED BY <1>1, <2>3, <2>4
<1>3. ASSUME NEW c \in Mobile, NEW got \in SUBSET Entry, got \subseteq syncing[c].changed,
             syncing[c] # Nothing, cache' = [cache EXCEPT ![c] = Downloaded(c, got)]
      PROVE  cache'[d][e] # Absent
  <2>1. Downloaded(c, got)[e] = cache[c][e] \/ Downloaded(c, got)[e] \in Value
    BY <1>3, DownloadedType
  <2>2. QED BY <1>1, <1>3, <2>1
<1>4. ASSUME NEW c \in Mobile, NEW written \in 1..3, SyncFinish(c, written)
      PROVE  cache'[d][e] # Absent
  <2>1. syncing[c] # Nothing /\ syncing[c].changed \in SUBSET Entry
    BY <1>4 DEF SyncFinish, SyncTyped, Pull
  <2>2. cache' = [cache EXCEPT ![c] = Downloaded(c, syncing[c].changed)]
    BY <1>4 DEF SyncFinish
  <2>3. QED BY <1>3, <2>1, <2>2
<1>5. ASSUME NEW c \in Mobile, NEW got \in SUBSET Entry, SyncFails(c, got)
      PROVE  cache'[d][e] # Absent
  BY <1>3, <1>5 DEF SyncFails
<1>6. CASE UNCHANGED cache
  BY <1>6
<1>7. ASSUME NEW c \in Desktop, DesktopNext(c) PROVE UNCHANGED cache
  BY <1>7 DEF DesktopNext, DesktopStart, DesktopPin, DesktopUpload, DesktopAnnounce
<1>8. ASSUME NEW c \in Mobile, MobileNext(c) PROVE MobileUpload(c) \/ UNCHANGED cache
  BY <1>8 DEF MobileNext, MobileStart, MobilePin, MobileCapture, MobileAnnounce, MobileCommit
<1>9. ASSUME PublishNext PROVE (\E c \in Mobile : MobileUpload(c)) \/ UNCHANGED cache
  BY <1>7, <1>8, <1>9 DEF PublishNext, Edit, Abandon, Mined, Failed
<1>10. ASSUME NEW c \in Mobile, SyncUpToDate(c) \/ SyncStart(c) PROVE UNCHANGED cache
  BY <1>10 DEF SyncUpToDate, SyncStart, publishVars
<1>11. CASE UNCHANGED syncVars
  BY <1>6, <1>11 DEF syncVars, publishVars
<1>12. QED BY <1>2, <1>4, <1>5, <1>6, <1>9, <1>10, <1>11 DEF SyncNext

\* The manifest a Mobile knows changes when a publication or a pull ends.
LEMMA KnownStaysCovered ==
    ASSUME SyncInv, [SyncNext]_syncVars PROVE CacheCoversManifest'
<1> USE VaultAssumption, NothingAssumption DEF SyncInv
<1> SUFFICES ASSUME NEW d \in Mobile, NEW e \in Entry, Refs(manifest'[d])[e] # Nothing
             PROVE  cache'[d][e] # Absent
  BY DEF CacheCoversManifest, Refs
<1>1. /\ d \in Device /\ d \notin Desktop
      /\ manifest \in [Device -> Manifest \cup {Nothing}]
      /\ cache \in [Mobile -> Content]
  BY DEF SyncTyped, PublishTyped, PublishTypeOK, Device
<1>2. CASE manifest'[d] = manifest[d]
  BY <1>2, CacheGrows DEF CacheCoversManifest
<1>3. ASSUME NEW crash \in BOOLEAN, MobileCommit(d, crash) PROVE cache'[d][e] # Absent
  <2>1. /\ manifest'[d] = publishing[d].manifest
        /\ publishing[d] # Nothing /\ publishing[d].stage = "confirm"
        /\ UNCHANGED cache
    BY <1>1, <1>3 DEF MobileCommit
  <2>2. publishing[d].manifest # Nothing
    BY <1>1, <2>1 DEF SyncTyped, PublishTyped
  <2>3. QED BY <2>1, <2>2 DEF PostedCovered, Refs
<1>4. ASSUME NEW written \in 1..3, SyncFinish(d, written), manifest'[d] # manifest[d]
      PROVE  cache'[d][e] # Absent
  <2> DEFINE p == syncing[d]
  <2>1. p # Nothing /\ p \in Pull /\ p.changed \in SUBSET Entry /\ p.manifest \in Manifest
    BY <1>4 DEF SyncFinish, SyncTyped, Pull
  <2>2. manifest'[d] = p.manifest /\ cache'[d] = Downloaded(d, p.changed)
    BY <1>1, <1>4 DEF SyncFinish
  <2>3. p.manifest.refs[e] # Nothing
    BY <2>1, <2>2 DEF Refs
  <2>4. CASE e \in p.changed
    BY <2>1, <2>2, <2>4, DownloadedType
  <2>5. CASE e \notin p.changed
    BY <2>1, <2>2, <2>3, <2>5, DownloadedType DEF PullCovered
  <2>6. QED BY <2>4, <2>5
<1>5. ASSUME NEW c \in Desktop, DesktopNext(c) PROVE manifest'[d] = manifest[d]
  BY <1>1, <1>5 DEF DesktopNext, DesktopStart, DesktopPin, DesktopUpload, DesktopAnnounce
<1>6. ASSUME NEW c \in Mobile, MobileNext(c), ~\E crash \in BOOLEAN : MobileCommit(d, crash)
      PROVE  manifest'[d] = manifest[d]
  BY <1>1, <1>6 DEF MobileNext, MobileStart, MobilePin, MobileCapture, MobileUpload,
                    MobileAnnounce, MobileCommit
<1>7. ASSUME PublishNext, ~\E crash \in BOOLEAN : MobileCommit(d, crash)
      PROVE  manifest'[d] = manifest[d]
  BY <1>5, <1>6, <1>7 DEF PublishNext, Edit, Abandon, Mined, Failed
<1>8. ASSUME NEW c \in Mobile,
             \/ SyncUpToDate(c) \/ SyncStart(c)
             \/ \E got \in SUBSET Entry : SyncFails(c, got)
             \/ c # d /\ \E written \in 1..3 : SyncFinish(c, written)
      PROVE  manifest'[d] = manifest[d]
  BY <1>1, <1>8 DEF SyncUpToDate, SyncStart, SyncFails, SyncFinish, publishVars
<1>9. CASE UNCHANGED syncVars
  BY <1>2, <1>9 DEF syncVars, publishVars
<1>10. QED BY <1>2, <1>3, <1>4, <1>7, <1>8, <1>9 DEF SyncNext

\* A publication keeps each blob it posts; the others the last manifest had.
LEMMA PostedStaysCovered ==
    ASSUME SyncInv, [SyncNext]_syncVars PROVE PostedCovered'
<1> USE VaultAssumption, NothingAssumption DEF SyncInv
<1> SUFFICES ASSUME NEW d \in Mobile, publishing'[d] # Nothing,
                    publishing'[d].stage \in {"announce", "confirm"},
                    NEW e \in Entry, publishing'[d].manifest.refs[e] # Nothing
             PROVE  cache'[d][e] # Absent
  BY DEF PostedCovered
<1>1. /\ d \in Device /\ d \notin Desktop
      /\ publishing \in [Device -> Publication \cup {Nothing}]
      /\ cache \in [Mobile -> Content]
      /\ publishing[d] # Nothing => publishing[d] \in Publication
  BY DEF SyncTyped, PublishTyped, PublishTypeOK, Device
<1>2. CASE publishing'[d] = publishing[d]
  BY <1>2, CacheGrows DEF PostedCovered
<1>3. CASE MobileUpload(d)
  <2> DEFINE p == publishing[d]
             m == NewManifest(d, p.version, p.content, vault[d].content)
  <2>1. p # Nothing /\ uploads < MaxUploads
    BY <1>3 DEF MobileUpload
  <2>2. m \in Manifest /\ m.id = uploads + 1
    BY <1>1, <2>1, PublicationFields, NewRefsType DEF SyncTyped
  <2>3. publishing'[d].manifest = m /\ cache'[d] = CachedAfterUpload(d, m)
    BY <1>1, <1>3, <2>1 DEF MobileUpload, Publication
  <2>4. m.refs[e] # Nothing => m.refs[e] \in Ref
    BY <2>2 DEF Manifest
  <2>5. \/ m.refs[e] = Refs(manifest[d])[e]
        \/ m.refs[e] = Nothing
        \/ m.refs[e] = [value |-> p.content[e], upload |-> uploads + 1]
    BY DEF NewManifest, NewRefs
  <2> HIDE DEF m
  <2>6. CASE m.refs[e] = [value |-> p.content[e], upload |-> uploads + 1]
    BY <2>2, <2>3, <2>4, <2>6 DEF CachedAfterUpload, Ref
  <2>7. CASE m.refs[e] = Refs(manifest[d])[e]
    <3>1. cache[d][e] # Absent
      BY <2>3, <2>7 DEF CacheCoversManifest
    <3>2. QED BY <3>1, CacheGrows
  <2>8. QED BY <2>3, <2>5, <2>6, <2>7
<1>4. CASE MobileAnnounce(d)
  <2>1. /\ publishing[d] # Nothing /\ publishing[d].stage = "announce"
        /\ publishing'[d].manifest = publishing[d].manifest
    BY <1>1, <1>4 DEF MobileAnnounce, Publication
  <2>2. QED BY <2>1, CacheGrows DEF PostedCovered
<1>5. ASSUME NEW c \in Desktop, DesktopNext(c) PROVE publishing'[d] = publishing[d]
  BY <1>1, <1>5 DEF DesktopNext, DesktopStart, DesktopPin, DesktopUpload, DesktopAnnounce
<1>6. ASSUME NEW c \in Mobile, c # d, MobileNext(c) PROVE publishing'[d] = publishing[d]
  BY <1>1, <1>6 DEF MobileNext, MobileStart, MobilePin, MobileCapture, MobileUpload,
                    MobileAnnounce, MobileCommit
<1>7. ~(MobileStart(d) \/ (\E x \in Entry : MobilePin(d, x)) \/ MobileCapture(d))
  <2>1. ~MobileStart(d)
    BY <1>1 DEF MobileStart
  <2>2. ASSUME NEW x \in Entry, MobilePin(d, x) PROVE FALSE
    BY <1>1, <2>2 DEF MobilePin, Publication
  <2>3. ASSUME MobileCapture(d) PROVE FALSE
    <3>1. /\ publishing[d] \in Publication
          /\ publishing'[d] = [publishing[d] EXCEPT !.stage = "upload",
                !.version = vault[d].version, !.content = vault[d].content]
      BY <1>1, <2>3 DEF MobileCapture
    <3>2. publishing'[d].stage = "upload"
      BY <3>1 DEF Publication
    <3>3. QED BY <3>2
  <2>4. QED BY <2>1, <2>2, <2>3
<1>8. ~(\E crash \in BOOLEAN : MobileCommit(d, crash)) /\ ~Abandon(d)
  BY <1>1 DEF MobileCommit, Abandon
<1>9. ASSUME NEW c \in Device, c # d, Abandon(c) PROVE publishing'[d] = publishing[d]
  BY <1>1, <1>9 DEF Abandon
<1>10. CASE PublishNext
  <2>1. \/ publishing'[d] = publishing[d]
        \/ MobileNext(d)
    BY <1>5, <1>6, <1>8, <1>9, <1>10 DEF PublishNext, Edit, Mined, Failed
  <2>2. QED BY <1>2, <1>3, <1>4, <1>7, <1>8, <2>1 DEF MobileNext
<1>11. ASSUME NEW c \in Mobile,
              \/ SyncUpToDate(c) \/ SyncStart(c)
              \/ \E got \in SUBSET Entry : SyncFails(c, got)
              \/ \E written \in 1..3 : SyncFinish(c, written)
      PROVE  publishing'[d] = publishing[d]
  BY <1>11 DEF SyncUpToDate, SyncStart, SyncFails, SyncFinish, publishVars
<1>12. CASE UNCHANGED syncVars
  BY <1>2, <1>12 DEF syncVars, publishVars
<1>13. QED BY <1>2, <1>10, <1>11, <1>12 DEF SyncNext

\* A pull leaves out only refs of the manifest known when it started.
LEMMA PullStaysCovered ==
    ASSUME SyncInv, [SyncNext]_syncVars PROVE PullCovered'
<1> USE NothingAssumption DEF SyncInv
<1> SUFFICES ASSUME NEW d \in Mobile, syncing'[d] # Nothing,
                    NEW e \in Entry \ syncing'[d].changed, syncing'[d].manifest.refs[e] # Nothing
             PROVE  cache'[d][e] # Absent
  BY DEF PullCovered
<1>1. syncing \in [Mobile -> Pull \cup {Nothing}]
  BY DEF SyncTyped
<1>2. CASE syncing'[d] = syncing[d]
  BY <1>2, CacheGrows DEF PullCovered
<1>3. CASE SyncStart(d)
  <2>1. /\ syncing'[d].manifest = CurrentPointer
        /\ syncing'[d].changed = ChangedRefs(CurrentPointer, manifest[d])
    BY <1>1, <1>3 DEF SyncStart
  <2>2. Refs(manifest[d])[e] # Nothing
    BY <2>1 DEF ChangedRefs
  <2>3. QED BY <2>2, CacheGrows DEF CacheCoversManifest
<1>4. ASSUME NEW c \in Mobile,
             \/ SyncUpToDate(c)
             \/ c # d /\ SyncStart(c)
             \/ \E got \in SUBSET Entry : SyncFails(c, got)
             \/ \E written \in 1..3 : SyncFinish(c, written)
      PROVE  syncing'[d] = syncing[d]
  BY <1>1, <1>4 DEF SyncUpToDate, SyncStart, SyncFails, SyncFinish
<1>5. CASE UNCHANGED syncVars
  BY <1>2, <1>5 DEF syncVars
<1>6. QED BY <1>2, <1>3, <1>4, <1>5 DEF SyncNext

LEMMA SyncInvHolds == SyncSpec => []SyncInv
<1>1. SyncInv /\ [SyncNext]_syncVars => SyncInv'
  BY StepKeepsTypes, KnownStaysCovered, PostedStaysCovered, PullStaysCovered DEF SyncInv
<1>2. QED BY <1>1, InitInv, PTL DEF SyncSpec

-----------------------------------------------------------------------------
(* Theorems.                                                                *)

\* The files of both apps, and the history of the registry, are what the
\* program can read back, after any crash.
THEOREM SyncTypeOKHolds == SyncSpec => []SyncTypeOK
<1>1. SyncInv => SyncTypeOK
  BY DEF SyncInv, SyncTyped, PublishTyped, SyncTypeOK
<1>2. QED BY <1>1, SyncInvHolds, PTL

\* Whatever fails or dies, reassembleFromManifest finds the blob of every entry
\* of the manifest a Mobile has on disk.
THEOREM CacheCoversManifestHolds == SyncSpec => []CacheCoversManifest
<1>1. SyncInv => CacheCoversManifest
  BY DEF SyncInv
<1>2. QED BY <1>1, SyncInvHolds, PTL

\* Files keep their shape and a Mobile's cache covers its manifest.
THEOREM SyncConsistentHolds == SyncSpec => []SyncConsistent
  BY SyncTypeOKHolds, CacheCoversManifestHolds, PTL DEF SyncConsistent

LEMMA PullRestores == ASSUME SyncInv PROVE PullRestoresEveryEntryA
<1> USE VaultAssumption DEF SyncInv
<1> SUFFICES ASSUME NEW d \in Mobile, NEW written \in 1..3, SyncFinish(d, written), NEW e \in Entry
             PROVE  vault'[d].content[e] # Absent <=> syncing[d].manifest.refs[e] # Nothing
  BY DEF PullRestoresEveryEntryA
<1> DEFINE p == syncing[d]
           files == Downloaded(d, p.changed)
<1>1. p # Nothing /\ p \in Pull /\ p.changed \in SUBSET Entry
  BY DEF SyncFinish, SyncTyped, Pull
<1>2. vault'[d].content = Reassembled(d, files)
  BY DEF SyncFinish, Saved, SyncTyped, PublishTyped, PublishTypeOK, Device
<1>3. CASE p.manifest.refs[e] = Nothing
  BY <1>2, <1>3 DEF Reassembled
<1>4. CASE p.manifest.refs[e] # Nothing /\ e \in p.changed
  BY <1>1, <1>2, <1>4, DownloadedType DEF Reassembled
<1>5. CASE p.manifest.refs[e] # Nothing /\ e \notin p.changed
  <2>1. files[e] # Absent
    BY <1>1, <1>5, DownloadedType DEF PullCovered
  <2>2. QED BY <1>2, <1>5, <2>1 DEF Reassembled
<1>6. QED BY <1>3, <1>4, <1>5

\* A pull loses no entry and keeps none that the manifest does not name,
\* whatever the copy on disk has become meanwhile.
THEOREM PullRestoresEveryEntryHolds == SyncSpec => PullRestoresEveryEntry
<1>1. SyncInv => [PullRestoresEveryEntryA]_syncVars
  BY PullRestores
<1>2. QED BY <1>1, SyncInvHolds, PTL DEF PullRestoresEveryEntry

\* With baseline and last manifest in step, the new refs stand for the content.
LEMMA RefsResolve ==
    ASSUME PublishTyped, NEW d \in Device, NEW content \in Content, NEW version \in Nat,
           uploads < MaxUploads, Baseline(d) = Resolved(manifest[d])
    PROVE  Resolved(NewManifest(d, version, content, content)) = content
<1> USE VaultAssumption, NothingAssumption
<1> DEFINE m == NewManifest(d, version, content, content)
<1>1. m \in Manifest
  BY NewRefsType
<1>2. Refs(m) = NewRefs(d, content, content, Changed(content, Baseline(d)))
  BY <1>1 DEF Refs, NewManifest
<1>3. ASSUME NEW e \in Entry PROVE Resolved(m)[e] = content[e]
  <2>1. CASE content[e] = Baseline(d)[e]
    BY <1>2, <2>1 DEF Resolved, NewRefs, Changed
  <2>2. CASE content[e] # Baseline(d)[e] /\ content[e] = Absent
    BY <1>2, <2>2 DEF Resolved, NewRefs, Changed
  <2>3. CASE content[e] # Baseline(d)[e] /\ content[e] # Absent
    <3>1. Refs(m)[e] = [value |-> content[e], upload |-> uploads + 1]
      BY <1>2, <2>3 DEF NewRefs, Changed
    <3>2. [value |-> content[e], upload |-> uploads + 1] \in Ref
      BY <2>3 DEF Ref, Content, PublishTyped, PublishTypeOK
    <3>3. QED BY <3>1, <3>2 DEF Resolved
  <2>4. QED BY <2>1, <2>2, <2>3
<1>4. Resolved(m) = [e \in Entry |-> Resolved(m)[e]] /\ content = [e \in Entry |-> content[e]]
  BY DEF Resolved, Content
<1>5. QED BY <1>3, <1>4

\* As long as a device's baseline is the content of its last manifest, posting
\* the difference posts the vault, for the Desktop and for a Mobile.
THEOREM IncrementalIsFullHolds == SyncSpec => IncrementalIsFull
<1>1. SyncInv => [IncrementalIsFullA]_syncVars
  <2> SUFFICES ASSUME SyncInv, NEW d \in Device, Baseline(d) = Resolved(manifest[d]),
                      \/ DesktopUpload(d, FALSE)
                      \/ MobileUpload(d) /\ vault[d].content = publishing[d].content
               PROVE  Resolved(publishing'[d].manifest) = publishing[d].content
    BY DEF IncrementalIsFullA
  <2> DEFINE p == publishing[d]
             m == NewManifest(d, p.version, p.content, p.content)
  <2>1. PublishTyped /\ p # Nothing /\ uploads < MaxUploads
    BY DEF SyncInv, SyncTyped, DesktopUpload, MobileUpload
  <2>2. p \in Publication /\ p.content \in Content /\ p.version \in Nat
    BY <2>1, PublicationFields
  <2>3. publishing' = [publishing EXCEPT ![d] = [p EXCEPT !.stage = "announce", !.manifest = m]]
    BY DEF DesktopUpload, MobileUpload
  <2>4. publishing'[d].manifest = m
    BY <2>1, <2>2, <2>3 DEF PublishTyped, PublishTypeOK, Publication
  <2>5. QED BY <2>1, <2>2, <2>4, RefsResolve
<1>2. QED BY <1>1, SyncInvHolds, PTL DEF IncrementalIsFull

\* Both together: the cache covers the manifest, and a pull restores what it pulled.
THEOREM SyncCorrectHolds == SyncSpec => SyncCorrect
BY SyncConsistentHolds, PullRestoresEveryEntryHolds, PTL DEF SyncCorrect
=============================================================================
