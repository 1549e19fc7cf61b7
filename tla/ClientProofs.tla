---------------------------- MODULE ClientProofs ----------------------------
(***************************************************************************)
(* What runs in a browser and on a website, for any pages, ports, sessions *)
(* and verifications: LoginAutofill, DeliveryRoutes, SdkVerification and   *)
(* ExtensionSession, in that order. Each has an invariant that adds to its *)
(* property what the handlers under way rely on.                           *)
(***************************************************************************)
EXTENDS ExtensionSession, LoginAutofill, DeliveryRoutes, SdkVerification,
    FiniteSetTheorems, TLAPS

-----------------------------------------------------------------------------
(*****************************************************************************)
(* LoginAutofill.  One icon per field is not inductive: between two scans a  *)
(* field may wait for the worker, and it has no icon then.  That a login is  *)
(* proposed again only by submits that waited together rests on their order. *)
(*****************************************************************************)

Fields == PasswordFields \union {NameField}
Stage == {"unheard", "asked", "known", "new", "repeated", "proposed"}
SubmitRecord == [stage : Stage, login : Logins, beside : SUBSET Submits]

\* A field that waits for the worker has no icon, one that no scan has seen
\* neither waits nor has one.
IconInv ==
    /\ held \in Held
    /\ rendered \subseteq Fields /\ processed \subseteq rendered \intersect PasswordFields
    /\ named \subseteq processed
    /\ asking \in [PasswordFields -> 0 .. 1]
    /\ icons \subseteq PasswordFields \X ((SUBSET Logins) \ {{}})
    /\ \A o, p \in icons : o[1] = p[1] => o = p
    /\ \A o \in icons : asking[o[1]] = 0 /\ o[1] \in processed
    /\ \A f \in PasswordFields : asking[f] = 1 => f \in processed
    /\ capturing \subseteq processed /\ \A f, g \in capturing : f = g

\* Submits are heard in their order.  An earlier one that a later one did not find
\* waiting was over by then: proposed with another name, or not to be proposed.
SubmitInv ==
    /\ submits \in [Submits -> SubmitRecord] /\ proposed \subseteq Logins
    /\ \A i \in Submits : submits[i].stage = "proposed" => submits[i].login \in proposed
    /\ \A i, j \in Submits : i < j /\ submits[j].stage # "unheard" =>
          /\ submits[i].stage # "unheard"
          /\ submits[j].stage # "repeated" /\ i \notin submits[j].beside =>
                 \/ submits[i].stage = "repeated"
                 \/ submits[i].stage = "proposed" /\ submits[i].login # submits[j].login

LoginInv == IconInv /\ SubmitInv

\* A set whose elements are all equal has one at most.
LEMMA AtMostOne ==
  ASSUME NEW S, \A x, y \in S : x = y
  PROVE  Cardinality(S) \in 0..1 /\ (S = {} => Cardinality(S) = 0)
<1>1. CASE S = {}
  BY <1>1, FS_EmptySet
<1>2. CASE S # {}
  <2>1. PICK x \in S : TRUE
    BY <1>2
  <2>2. S = {x}
    BY <2>1
  <2> QED
    BY <1>2, <2>2, FS_Singleton
<1> QED
  BY <1>1, <1>2

\* The invariant gives what the run checks.
LEMMA LoginInvImplies == LoginInv => LoginCorrect
<1> SUFFICES ASSUME LoginInv PROVE LoginCorrect
  OBVIOUS
<1>1. Cardinality(capturing) <= 1
  BY AtMostOne DEF LoginInv, IconInv
<1>2. LoginTypeOK
  <2>1. asking \in [PasswordFields -> 0 .. 2]
    BY DEF LoginInv, IconInv
  <2>2. submits \in [Submits -> [stage : {"unheard", "asked", "known", "new", "repeated", "proposed"},
                                 login : Logins, beside : SUBSET Submits]]
    BY DEF LoginInv, SubmitInv, SubmitRecord, Stage
  <2> QED
    BY <1>1, <2>1, <2>2 DEF LoginTypeOK, LoginInv, IconInv, SubmitInv, Fields
<1>3. OneIconPerField
  <2> SUFFICES ASSUME NEW f \in PasswordFields
               PROVE  asking[f] + Cardinality({o \in icons : o[1] = f}) <= 1
    BY DEF OneIconPerField
  <2> DEFINE I == {o \in icons : o[1] = f}
  <2>1. Cardinality(I) \in 0..1 /\ (I = {} => Cardinality(I) = 0)
    <3>1. \A x, y \in I : x = y
      BY DEF LoginInv, IconInv
    <3> QED
      BY <3>1, AtMostOne
  <2>2. asking[f] \in 0..1 /\ (asking[f] = 1 => I = {})
    BY DEF LoginInv, IconInv
  <2> QED
    BY <2>1, <2>2
<1>4. RepeatNeedsAQuickSubmit
  BY DEF RepeatNeedsAQuickSubmit, LoginInv, SubmitInv, Submits
<1> QED
  BY <1>2, <1>3, <1>4 DEF LoginCorrect

\* A page begins without a submit, and the invariant holds there.
LEMMA NoSubmits ==
  [i \in Submits |-> NoSubmit] \in [Submits -> SubmitRecord]
BY LoginAssumption DEF NoSubmit, SubmitRecord, Stage

LEMMA LoginInvInit == LoginInit => LoginInv
BY NoSubmits DEF LoginInit, Fresh, LoginInv, IconInv, SubmitInv, Fields, NoSubmit

\* The steps that leave the submits alone.
LEMMA IconStep ==
  ASSUME LoginInv, UNCHANGED <<submits, proposed>>,
         StoreSession \/ Render \/ Scan \/ \E f \in PasswordFields : AttachIcon(f) \/ ShowNothing(f)
  PROVE  IconInv'
<1>0. IconInv
  BY DEF LoginInv
<1>1. CASE StoreSession
  BY <1>0, <1>1 DEF StoreSession, pageVars, IconInv
<1>2. CASE Render
  BY <1>0, <1>2 DEF Render, IconInv, Fields
<1>3. CASE Scan
  <2>1. Found \subseteq PasswordFields \intersect rendered /\ Found \intersect processed = {}
    BY DEF Found
  <2>2. /\ processed' = processed \union Found /\ rendered' = rendered
        /\ \A f \in PasswordFields : asking[f] \in 0..1
    BY <1>0, <1>3 DEF Scan, IconInv
  <2>3. \A f \in PasswordFields :
            /\ f \in Found => asking[f] = 0 /\ asking'[f] = 1
            /\ f \notin Found => asking'[f] = asking[f]
    <3> SUFFICES ASSUME NEW f \in PasswordFields
                 PROVE  /\ f \in Found => asking[f] = 0 /\ asking'[f] = 1
                        /\ f \notin Found => asking'[f] = asking[f]
      OBVIOUS
    <3>1. asking'[f] = IF f \in Found /\ asking[f] < 2 THEN asking[f] + 1 ELSE asking[f]
      BY <1>3 DEF Scan
    <3>2. f \in Found => asking[f] = 0
      BY <1>0, <2>1, <2>2 DEF IconInv
    <3> QED
      BY <3>1, <3>2
  <2>4. asking' \in [PasswordFields -> 0..1]
    <3>1. asking' = [f \in PasswordFields |-> asking'[f]]
      BY <1>3 DEF Scan
    <3> QED
      BY <2>2, <2>3, <3>1
  <2>5. named' \subseteq processed'
    BY <1>0, <1>3, <2>2 DEF Scan, IconInv
  <2>6. capturing' \subseteq processed' /\ \A f, g \in capturing' : f = g
    <3>1. CASE capturing = {}
      <4>1. PICK f \in Found : capturing' = {f}
        BY <1>3, <3>1 DEF Scan, Listeners
      <4> QED
        BY <2>2, <4>1
    <3>2. CASE capturing # {}
      BY <1>0, <1>3, <2>2, <3>2 DEF Scan, Listeners, IconInv
    <3> QED
      BY <3>1, <3>2
  <2>7. icons' = icons /\ held' = held
    BY <1>3 DEF Scan
  <2>8. \A o \in icons : o[1] \in PasswordFields /\ o[1] \notin Found
    BY <1>0, <2>1 DEF IconInv
  <2> QED
    BY <1>0, <2>1, <2>2, <2>3, <2>4, <2>5, <2>6, <2>7, <2>8 DEF IconInv
<1>4. ASSUME NEW f \in PasswordFields, AttachIcon(f) PROVE IconInv'
  <2>1. asking[f] = 1 /\ asking' = [asking EXCEPT ![f] = 0] /\ f \in processed
    <3>1. asking[f] \in 0..1 /\ asking[f] > 0 /\ asking' = [asking EXCEPT ![f] = asking[f] - 1]
      BY <1>0, <1>4 DEF AttachIcon, Answerable, IconInv
    <3>2. asking[f] = 1 /\ asking[f] - 1 = 0
      BY <3>1
    <3> QED
      BY <1>0, <3>1, <3>2 DEF IconInv
  <2>2. Matching \in (SUBSET Logins) \ {{}}
    <3>1. held \in Held /\ held.logins # {}
      BY <1>0, <1>4 DEF AttachIcon, Matching, IconInv
    <3>2. CASE held = NothingHeld
      BY <3>1, <3>2 DEF NothingHeld
    <3>3. CASE held # NothingHeld
      <4>1. held \in [live : {TRUE}, logins : SUBSET Logins]
        BY <3>1, <3>3 DEF Held
      <4> QED
        BY <3>1, <4>1 DEF Matching
    <3> QED
      BY <3>2, <3>3
  <2>3. icons' = icons \union {<<f, Matching>>} /\ UNCHANGED <<held, rendered, processed, named, capturing>>
    BY <1>4 DEF AttachIcon
  <2>4. \A o \in icons : o[1] # f
    BY <1>0, <2>1 DEF IconInv
  <2> QED
    BY <1>0, <2>1, <2>2, <2>3, <2>4 DEF IconInv
<1>5. ASSUME NEW f \in PasswordFields, ShowNothing(f) PROVE IconInv'
  <2>1. asking[f] = 1 /\ asking' = [asking EXCEPT ![f] = 0]
    <3>1. asking[f] \in 0..1 /\ asking[f] > 0 /\ asking' = [asking EXCEPT ![f] = asking[f] - 1]
      BY <1>0, <1>5 DEF ShowNothing, Answerable, IconInv
    <3>2. asking[f] = 1 /\ asking[f] - 1 = 0
      BY <3>1
    <3> QED
      BY <1>0, <3>1, <3>2 DEF IconInv
  <2> QED
    BY <1>0, <1>5, <2>1 DEF ShowNothing, IconInv
<1> QED
  BY <1>1, <1>2, <1>3, <1>4, <1>5

\* What a listener or an answer does to one submit.
LEMMA SubmitStep ==
  ASSUME SubmitInv, NEW i \in Submits, NEW r \in SubmitRecord,
         submits' = [submits EXCEPT ![i] = r],
         proposed' = IF r.stage = "proposed" THEN proposed \union {r.login} ELSE proposed,
         \/ /\ submits[i].stage \in {"asked", "new"}
            /\ r.login = submits[i].login /\ r.beside = submits[i].beside
            /\ r.stage \in {"known", "new", "proposed"}
         \/ /\ submits[i].stage = "unheard" /\ \A j \in 1 .. i - 1 : submits[j].stage # "unheard"
            /\ r.stage = IF r.login \in proposed THEN "repeated" ELSE "asked"
            /\ r.beside = Waiting
  PROVE  SubmitInv'
<1>1. /\ submits' \in [Submits -> SubmitRecord] /\ proposed' \subseteq Logins
      /\ submits'[i] = r /\ \A j \in Submits \ {i} : submits'[j] = submits[j]
      /\ proposed \subseteq proposed'
  BY DEF SubmitInv, SubmitRecord
<1>2. \A j \in Submits : submits'[j].stage = "proposed" => submits'[j].login \in proposed'
  BY <1>1 DEF SubmitInv
<1>3. ASSUME NEW a \in Submits, NEW b \in Submits, a < b, submits'[b].stage # "unheard"
      PROVE  /\ submits'[a].stage # "unheard"
             /\ submits'[b].stage # "repeated" /\ a \notin submits'[b].beside =>
                    \/ submits'[a].stage = "repeated"
                    \/ submits'[a].stage = "proposed" /\ submits'[a].login # submits'[b].login
  <2>1. a # b /\ a \in Nat /\ b \in Nat /\ a \in 1 .. b - 1
    BY <1>3 DEF Submits
  <2>2. submits[a].stage \in Stage /\ submits[b].stage \in Stage
    BY DEF SubmitInv, SubmitRecord
  <2>3. CASE submits[i].stage \in {"asked", "new"}
    BY <1>1, <1>3, <2>1, <2>3 DEF SubmitInv
  <2>4. CASE /\ submits[i].stage = "unheard" /\ \A j \in 1 .. i - 1 : submits[j].stage # "unheard"
             /\ r.stage = IF r.login \in proposed THEN "repeated" ELSE "asked"
             /\ r.beside = Waiting
    <3>1. CASE b = i
      <4>1. submits'[a] = submits[a] /\ submits[a].stage # "unheard"
        BY <1>1, <2>1, <2>4, <3>1
      <4>2. a \notin Waiting => submits[a].stage \in {"repeated", "proposed"}
        BY <2>2, <4>1 DEF Waiting, Stage
      <4> QED
        BY <1>1, <2>4, <3>1, <4>1, <4>2 DEF SubmitInv
    <3>2. CASE b # i
      <4>1. submits'[b] = submits[b] /\ a # i
        BY <1>1, <1>3, <2>1, <2>4, <3>2 DEF SubmitInv
      <4> QED
        BY <1>1, <1>3, <4>1 DEF SubmitInv
    <3> QED
      BY <3>1, <3>2
  <2> QED
    BY <2>3, <2>4
<1> QED
  BY <1>1, <1>2, <1>3 DEF SubmitInv

\* Each step moves an icon or one submit, and keeps the other part.
LEMMA LoginInvNext == LoginInv /\ [LoginNext]_loginVars => LoginInv'
<1> SUFFICES ASSUME LoginInv, [LoginNext]_loginVars PROVE LoginInv'
  OBVIOUS
<1>0. IconInv /\ SubmitInv /\ \A i \in Submits : submits[i] \in SubmitRecord
  BY DEF LoginInv, SubmitInv
<1>1. UNCHANGED <<submits, proposed>> => SubmitInv'
  BY <1>0 DEF SubmitInv, Submits
<1>2. UNCHANGED <<held, rendered, processed, named, asking, icons, capturing>> => IconInv'
  BY <1>0 DEF IconInv
<1>3. CASE StoreSession \/ Render \/ Scan \/ \E f \in PasswordFields : AttachIcon(f) \/ ShowNothing(f)
  <2>1. UNCHANGED <<submits, proposed>>
    BY <1>3 DEF StoreSession, pageVars, Render, Scan, AttachIcon, ShowNothing
  <2> QED
    BY <1>1, <1>3, <2>1, IconStep DEF LoginInv
<1>4. CASE Submit
  <2>1. PICK i \in Submits, f \in capturing, name \in Logins :
            /\ submits[i].stage = "unheard" /\ \A j \in 1 .. i - 1 : submits[j].stage # "unheard"
            /\ submits' = [submits EXCEPT ![i] =
                  [stage |-> IF Read(f, name) \in proposed THEN "repeated" ELSE "asked",
                   login |-> Read(f, name), beside |-> Waiting]]
            /\ UNCHANGED <<held, rendered, processed, named, asking, icons, capturing, proposed>>
    BY <1>4 DEF Submit
  <2> DEFINE r == [stage |-> IF Read(f, name) \in proposed THEN "repeated" ELSE "asked",
                   login |-> Read(f, name), beside |-> Waiting]
  <2>2. r \in SubmitRecord /\ r.login = Read(f, name) /\ r.beside = Waiting
        /\ r.stage = IF Read(f, name) \in proposed THEN "repeated" ELSE "asked"
    BY LoginAssumption DEF SubmitRecord, Stage, Read, Waiting
  <2>3. SubmitInv'
    <3> HIDE DEF r
    <3>1. submits' = [submits EXCEPT ![i] = r] /\ proposed' = proposed /\ r.stage # "proposed"
      BY <2>1, <2>2 DEF r
    <3> QED
      BY <1>0, <2>1, <2>2, <3>1, SubmitStep
  <2> QED
    BY <1>2, <2>1, <2>3 DEF LoginInv
<1>5. ASSUME NEW i \in Submits, AnswerMatch(i) PROVE LoginInv'
  <2> DEFINE r == [submits[i] EXCEPT !.stage = IF submits[i].login \in Matching THEN "known" ELSE "new"]
  <2>1. r \in SubmitRecord /\ r.login = submits[i].login /\ r.beside = submits[i].beside
        /\ r.stage \in {"known", "new"}
    BY <1>0 DEF SubmitRecord, Stage
  <2>2. submits' = [submits EXCEPT ![i] = r] /\ submits[i].stage = "asked" /\ proposed' = proposed
    BY <1>5 DEF AnswerMatch
  <2> HIDE DEF r
  <2>3. SubmitInv'
    BY <1>0, <2>1, <2>2, SubmitStep
  <2> QED
    BY <1>2, <1>5, <2>3 DEF AnswerMatch, LoginInv
<1>6. ASSUME NEW i \in Submits, AnswerFails(i) PROVE LoginInv'
  <2> DEFINE r == [submits[i] EXCEPT !.stage = "known"]
  <2>1. r \in SubmitRecord /\ r.login = submits[i].login /\ r.beside = submits[i].beside /\ r.stage = "known"
    BY <1>0 DEF SubmitRecord, Stage
  <2>2. submits' = [submits EXCEPT ![i] = r] /\ submits[i].stage = "asked" /\ proposed' = proposed
    BY <1>6 DEF AnswerFails
  <2> HIDE DEF r
  <2>3. SubmitInv'
    BY <1>0, <2>1, <2>2, SubmitStep
  <2> QED
    BY <1>2, <1>6, <2>3 DEF AnswerFails, LoginInv
<1>7. ASSUME NEW i \in Submits, Propose(i) PROVE LoginInv'
  <2> DEFINE r == [submits[i] EXCEPT !.stage = "proposed"]
  <2>1. r \in SubmitRecord /\ r.login = submits[i].login /\ r.beside = submits[i].beside /\ r.stage = "proposed"
    BY <1>0 DEF SubmitRecord, Stage
  <2>2. submits' = [submits EXCEPT ![i] = r] /\ submits[i].stage = "new"
        /\ proposed' = proposed \union {submits[i].login}
    BY <1>7 DEF Propose, ProposedWith
  <2> HIDE DEF r
  <2>3. SubmitInv'
    BY <1>0, <2>1, <2>2, SubmitStep
  <2> QED
    BY <1>2, <1>7, <2>3 DEF Propose, LoginInv
<1>8. CASE Reload
  <2>1. IconInv'
    BY <1>0, <1>8 DEF Reload, IconInv, Fields
  <2>2. SubmitInv'
    BY <1>8, NoSubmits DEF Reload, SubmitInv, NoSubmit
  <2> QED
    BY <2>1, <2>2 DEF LoginInv
<1>9. CASE UNCHANGED loginVars
  BY <1>1, <1>2, <1>9 DEF loginVars, pageVars, LoginInv
<1> QED
  BY <1>3, <1>4, <1>5, <1>6, <1>7, <1>8, <1>9 DEF LoginNext

\* For any fields, logins and submits: a field has one icon at most, and a login is
\* proposed again only when two submits waited together (formDetection.ts,
\* newCredentialCapture.ts).
THEOREM LoginCorrectHolds == LoginSpec => []LoginCorrect
BY LoginInvInit, LoginInvNext, LoginInvImplies, PTL DEF LoginSpec

-----------------------------------------------------------------------------
(*****************************************************************************)
(* DeliveryRoutes.  One invariant per route.  A Desktop that was there all   *)
(* the time is on a port still to come, or on the one that answered; a phone *)
(* in a batch that has not gone by.                                          *)
(*****************************************************************************)

Ending == {"held", "answered", "astray", "error", "not-found", "idle"}
Searching == [phase : Ending \cup {"pinging", "posting"}, at : PortNumber, steady : BOOLEAN]
Sweeping == [phase : {"idle", "pushing", "no-address", "delivered", "missed"}, at : Target, steady : BOOLEAN]
Publishing == {"none", "add", "import", "publish", "remove", "done", "gaveUp", "unremoved", "stopped"}
Kubo == [keys : SUBSET Drops, content : SUBSET Drops, records : SUBSET Drops]

\* While the Desktop has been there all the time, it is on a port that is not
\* asked yet, and then on the one that answered.
SearchInv ==
    /\ port \in [PortNumber -> {"closed", "other", "truthid"}]
    /\ \A p, q \in PortNumber : port[p] = "truthid" /\ port[q] = "truthid" => p = q
    /\ search \in Searching
    /\ search.phase = "pinging" /\ search.steady =>
           \E p \in PortNumber : p >= search.at /\ port[p] = "truthid"
    /\ search.phase = "posting" /\ search.steady => port[search.at] = "truthid"
    /\ search.phase \in {"not-found", "astray"} => ~search.steady

\* While the phone has listened all the time, its batch has not gone by.
SweepInv ==
    /\ phoneAt \in Target \cup {0} /\ sweep \in Sweeping
    /\ sweep.phase = "pushing" /\ sweep.steady => phoneAt \in Target /\ phoneAt >= sweep.at
    /\ sweep.phase = "missed" => ~sweep.steady

\* The node holds what the calls so far have left there.
KuboInv ==
    /\ publication \in [Drops -> Publishing] /\ kubo \in Kubo
    /\ kubo.records \subseteq kubo.content
    /\ \A s \in Drops :
          /\ publication[s] \in {"import", "publish", "remove"} => s \in kubo.content
          /\ s \in kubo.keys =>
                 publication[s] \in {"publish", "remove", "gaveUp", "unremoved", "stopped"}

RoutesInv == SearchInv /\ SweepInv /\ KuboInv

\* The invariant gives what the run checks.
LEMMA RoutesInvImplies == RoutesInv => RoutesCorrect
<1> SUFFICES ASSUME RoutesInv PROVE RoutesCorrect
  OBVIOUS
<1>1. Cardinality({p \in PortNumber : port[p] = "truthid"}) <= 1
  BY AtMostOne DEF RoutesInv, SearchInv
<1>2. RoutesTypeOK
  BY <1>1 DEF RoutesTypeOK, RoutesInv, SearchInv, SweepInv, KuboInv, Searching, Sweeping, Kubo
<1>3. RunningDesktopIsFound /\ AstrayOnlyAfterTheDesktop
  BY DEF RunningDesktopIsFound, AstrayOnlyAfterTheDesktop, RoutesInv, SearchInv
<1>4. ListeningPhoneIsReached
  BY DEF ListeningPhoneIsReached, RoutesInv, SweepInv
<1>5. RecordsHaveContent /\ KeysAreTidied
  BY DEF RecordsHaveContent, KeysAreTidied, RoutesInv, KuboInv, Kubo
<1> QED
  BY <1>2, <1>3, <1>4, <1>5 DEF RoutesCorrect

\* It holds before anything was looked for.
LEMMA RoutesInvInit == RoutesInit => RoutesInv
<1> SUFFICES ASSUME RoutesInit PROVE RoutesInv
  OBVIOUS
<1>1. SearchInv
  BY RoutesAssumption DEF RoutesInit, SearchInv, Searching, Ending, Unstarted, PortNumber
<1>2. SweepInv
  BY RoutesAssumption DEF RoutesInit, SweepInv, Sweeping, Unstarted, Target
<1>3. KuboInv
  BY DEF RoutesInit, KuboInv, Kubo, Publishing
<1> QED
  BY <1>1, <1>2, <1>3 DEF RoutesInv

\* Where the search goes after a port that did not answer, and the sweep after a
\* batch.
LEMMA NextPortFacts ==
  ASSUME SearchInv
  PROVE  /\ TryNextPort \in Searching /\ TryNextPort.steady = search.steady
         /\ search.at < Ports => TryNextPort.phase = search.phase /\ TryNextPort.at = search.at + 1
         /\ ~(search.at < Ports) => TryNextPort.phase = "not-found"
         /\ [TryNextPort EXCEPT !.steady = FALSE] \in Searching
         /\ [TryNextPort EXCEPT !.steady = FALSE].steady = FALSE
         /\ [TryNextPort EXCEPT !.steady = FALSE].phase = TryNextPort.phase
<1>1. CASE search.at < Ports
  <2>1. search.at + 1 \in PortNumber
    BY <1>1, RoutesAssumption DEF SearchInv, Searching, PortNumber
  <2> QED
    BY <1>1, <2>1 DEF TryNextPort, SearchInv, Searching
<1>2. CASE ~(search.at < Ports)
  BY <1>2 DEF TryNextPort, SearchInv, Searching, Ending
<1> QED
  BY <1>1, <1>2

LEMMA NextBatchFacts ==
  ASSUME SweepInv
  PROVE  /\ NextBatch \in Sweeping /\ NextBatch.steady = sweep.steady
         /\ sweep.at + Concurrency <= Targets =>
                NextBatch.phase = sweep.phase /\ NextBatch.at = sweep.at + Concurrency
         /\ ~(sweep.at + Concurrency <= Targets) => NextBatch.phase = "missed"
         /\ [NextBatch EXCEPT !.steady = FALSE] \in Sweeping
         /\ [NextBatch EXCEPT !.steady = FALSE].steady = FALSE
<1>1. CASE sweep.at + Concurrency <= Targets
  <2>1. sweep.at + Concurrency \in Target
    BY <1>1, RoutesAssumption DEF SweepInv, Sweeping, Target
  <2> QED
    BY <1>1, <2>1 DEF NextBatch, SweepInv, Sweeping
<1>2. CASE ~(sweep.at + Concurrency <= Targets)
  BY <1>2 DEF NextBatch, SweepInv, Sweeping
<1> QED
  BY <1>1, <1>2

\* One step per route: the search for the Desktop,
LEMMA SearchStep ==
  ASSUME SearchInv,
         \/ StartSearch \/ Post \/ DesktopDecides
         \/ \E p \in PortNumber : StartDesktop(p) \/ Listener(p) \/ Ping(p) \/ NoPing(p)
  PROVE  SearchInv'
<1>1. CASE StartSearch
  <2>1. search' \in Searching /\ search'.phase = "pinging" /\ search'.at = 1
        /\ search'.steady = DesktopListens
    BY <1>1, RoutesAssumption DEF StartSearch, Searching, Ending, PortNumber, DesktopListens
  <2> QED
    BY <1>1, <2>1, RoutesAssumption DEF StartSearch, SearchInv, DesktopListens, PortNumber
<1>2. CASE Post
  <2>1. /\ search' \in Searching /\ search'.steady = search.steady
        /\ search'.phase \in {"held", "astray", "error"}
        /\ search'.phase = "astray" => port[search.at] = "other"
    BY <1>2 DEF Post, SearchInv, Searching, Ending
  <2> QED
    BY <1>2, <2>1 DEF Post, SearchInv
<1>3. CASE DesktopDecides
  BY <1>3 DEF DesktopDecides, SearchInv, Searching, Ending
<1>4. ASSUME NEW p \in PortNumber, StartDesktop(p) PROVE SearchInv'
  BY <1>4 DEF StartDesktop, SearchInv, DesktopListens
<1>5. ASSUME NEW p \in PortNumber, Listener(p) PROVE SearchInv'
  <2>1. /\ search' \in Searching /\ search'.phase = search.phase /\ search'.at = search.at
        /\ search'.steady <=> search.steady /\ port[p] # "truthid"
    BY <1>5 DEF Listener, SearchInv, Searching
  <2>2. port' \in [PortNumber -> {"closed", "other", "truthid"}] /\ port'[p] # "truthid"
        /\ \A q \in PortNumber \ {p} : port'[q] = port[q]
    BY <1>5 DEF Listener, SearchInv
  <2>3. search.at \in PortNumber
    BY DEF SearchInv, Searching
  <2> QED
    BY <2>1, <2>2, <2>3 DEF SearchInv
<1>6. ASSUME NEW p \in PortNumber, Ping(p) PROVE SearchInv'
  BY <1>6 DEF Ping, IsTruthID, SearchInv, Searching, Ending
<1>7. ASSUME NEW p \in PortNumber, NoPing(p) PROVE SearchInv'
  <2>1. search.at \in 1..Ports /\ Ports \in Nat
    BY RoutesAssumption DEF SearchInv, Searching, PortNumber
  <2>2. CASE IsTruthID(p)
    BY <1>7, <2>1, <2>2, NextPortFacts DEF NoPing, SearchInv
  <2>3. CASE ~IsTruthID(p)
    BY <1>7, <2>1, <2>3, NextPortFacts DEF NoPing, SearchInv, IsTruthID, PortNumber
  <2> QED
    BY <2>2, <2>3
<1> QED
  BY <1>1, <1>2, <1>3, <1>4, <1>5, <1>6, <1>7

\* the sweep for the phone,
LEMMA SweepStep ==
  ASSUME SweepInv, StartSweep \/ PhoneTakes \/ NobodyTakes \/ \E t \in Target : PhoneListens(t)
  PROVE  SweepInv'
<1>0. sweep.at \in 1..Targets /\ Targets \in Nat /\ Concurrency \in Nat \ {0}
  BY RoutesAssumption DEF SweepInv, Sweeping, Target
<1>1. CASE StartSweep
  <2>1. /\ sweep' \in Sweeping /\ sweep'.phase \in {"pushing", "no-address"} /\ sweep'.at = 1
        /\ sweep'.steady <=> phoneAt # 0
    <3>0. PICK phase \in {"pushing", "no-address"} :
              sweep' = [phase |-> phase, at |-> 1, steady |-> phoneAt # 0]
      BY <1>1 DEF StartSweep
    <3>1. \A b \in BOOLEAN : [phase |-> phase, at |-> 1, steady |-> b] \in Sweeping
      BY RoutesAssumption DEF Sweeping, Target
    <3>2. (phoneAt # 0) \in BOOLEAN
      OBVIOUS
    <3>3. sweep' = [phase |-> phase, at |-> 1, steady |-> (phoneAt # 0)]
      BY <3>0
    <3>4. sweep' \in Sweeping
      BY <3>1, <3>2, <3>3
    <3> QED
      BY <3>3, <3>4
  <2> QED
    BY <1>1, <2>1, RoutesAssumption DEF StartSweep, SweepInv, Target
<1>2. CASE PhoneTakes
  <2>1. CASE sweep' = [sweep EXCEPT !.phase = "delivered"]
    BY <1>2, <2>1 DEF PhoneTakes, SweepInv, Sweeping
  <2>2. CASE sweep' = [NextBatch EXCEPT !.steady = FALSE]
    BY <1>2, <2>2, NextBatchFacts DEF PhoneTakes, SweepInv
  <2> QED
    BY <1>2, <2>1, <2>2 DEF PhoneTakes
<1>3. CASE NobodyTakes
  <2>1. CASE phoneAt \in Batch
    BY <1>3, <2>1, NextBatchFacts DEF NobodyTakes, SweepInv
  <2>2. CASE phoneAt \notin Batch
    BY <1>0, <1>3, <2>2, NextBatchFacts DEF NobodyTakes, SweepInv, Batch, Target
  <2> QED
    BY <2>1, <2>2
<1>4. ASSUME NEW t \in Target, PhoneListens(t) PROVE SweepInv'
  BY <1>4 DEF PhoneListens, SweepInv, Sweeping
<1> QED
  BY <1>1, <1>2, <1>3, <1>4

\* and the publication through a Kubo node.
LEMMA KuboStep ==
  ASSUME KuboInv,
         \/ \E s \in Drops : StartPublishing(s) \/ KuboAdd(s) \/ KuboImportKey(s)
                             \/ KuboPublishName(s) \/ KuboRemoveKey(s)
         \/ WorkerStops
  PROVE  KuboInv'
<1>1. ASSUME NEW s \in Drops, StartPublishing(s) PROVE KuboInv'
  BY <1>1 DEF StartPublishing, KuboInv, Publishing
<1>2. ASSUME NEW s \in Drops, KuboAdd(s) PROVE KuboInv'
  BY <1>2 DEF KuboAdd, Call, KuboInv, Kubo, Publishing
<1>3. ASSUME NEW s \in Drops, KuboImportKey(s) PROVE KuboInv'
  BY <1>3 DEF KuboImportKey, Call, KuboInv, Kubo, Publishing
<1>4. ASSUME NEW s \in Drops, KuboPublishName(s) PROVE KuboInv'
  BY <1>4 DEF KuboPublishName, Call, KuboInv, Kubo, Publishing, AfterPublish
<1>5. ASSUME NEW s \in Drops, KuboRemoveKey(s) PROVE KuboInv'
  BY <1>5 DEF KuboRemoveKey, Call, KuboInv, Kubo, Publishing
<1>6. CASE WorkerStops
  BY <1>6 DEF WorkerStops, KuboInv, Kubo, Publishing
<1> QED
  BY <1>1, <1>2, <1>3, <1>4, <1>5, <1>6

\* Every step is one of the three, and leaves the other two alone.
LEMMA RoutesInvNext == RoutesInv /\ [RoutesNext]_routeVars => RoutesInv'
<1> SUFFICES ASSUME RoutesInv, [RoutesNext]_routeVars PROVE RoutesInv'
  OBVIOUS
<1>1. UNCHANGED <<port, search>> => SearchInv'
  BY DEF RoutesInv, SearchInv
<1>2. UNCHANGED <<phoneAt, sweep>> => SweepInv'
  BY DEF RoutesInv, SweepInv
<1>3. UNCHANGED <<publication, kubo>> => KuboInv'
  BY DEF RoutesInv, KuboInv
<1>4. CASE \/ StartSearch \/ Post \/ DesktopDecides
           \/ \E p \in PortNumber : StartDesktop(p) \/ Listener(p) \/ Ping(p) \/ NoPing(p)
  <2>1. UNCHANGED <<phoneAt, sweep, publication, kubo>>
    BY <1>4 DEF StartSearch, Post, DesktopDecides, StartDesktop, Listener, Ping, NoPing
  <2> QED
    BY <1>2, <1>3, <1>4, <2>1, SearchStep DEF RoutesInv
<1>5. CASE StartSweep \/ PhoneTakes \/ NobodyTakes \/ \E t \in Target : PhoneListens(t)
  <2>1. UNCHANGED <<port, search, publication, kubo>>
    BY <1>5 DEF StartSweep, PhoneTakes, NobodyTakes, PhoneListens
  <2> QED
    BY <1>1, <1>3, <1>5, <2>1, SweepStep DEF RoutesInv
<1>6. CASE \/ \E s \in Drops : StartPublishing(s) \/ KuboAdd(s) \/ KuboImportKey(s)
                               \/ KuboPublishName(s) \/ KuboRemoveKey(s)
           \/ WorkerStops
  <2>1. UNCHANGED <<port, search, phoneAt, sweep>>
    BY <1>6 DEF StartPublishing, KuboAdd, KuboImportKey, KuboPublishName, KuboRemoveKey, WorkerStops
  <2> QED
    BY <1>1, <1>2, <1>6, <2>1, KuboStep DEF RoutesInv
<1>7. CASE UNCHANGED routeVars
  BY <1>1, <1>2, <1>3, <1>7 DEF routeVars, RoutesInv
<1> QED
  BY <1>4, <1>5, <1>6, <1>7 DEF RoutesNext

\* For any number of ports, addresses, batches and drops: a Desktop that is there
\* throughout is reached, and so is a phone where the browser tells an address;
\* nothing is posted where the Desktop has not been, and a dead drop has content
\* and leaves no key behind (desktopDelivery.ts, lanDelivery.ts, deadDropPublish.ts).
THEOREM RoutesCorrectHolds == RoutesSpec => []RoutesCorrect
BY RoutesInvInit, RoutesInvNext, RoutesInvImplies, PTL DEF RoutesSpec

-----------------------------------------------------------------------------
(*****************************************************************************)
(* SdkVerification.  A verification reads the chain twice.  What makes its   *)
(* answer true of some moment is that, while it is under way, it has seen    *)
(* every state since its first read.                                         *)
(*****************************************************************************)

Settled == {"none", "valid", "invalid", "answered", "thrown", "status"}
CheckPhase == Settled \cup {"isDeviceActive", "getDevice", "both", "session-read", "revoked-read"}
AnyChallenge == Challenges \cup {CHOOSE c \in Challenges : TRUE}

CheckRecord ==
    [phase : CheckPhase, challenge : AnyChallenge, of : AnyChallenge, from : Nat,
     identity : {Owner, Nobody}, exists : BOOLEAN, revoked : BOOLEAN, active : BOOLEAN,
     live : BOOLEAN, absent : BOOLEAN]

SdkTyped ==
    /\ now \in 0..MaxClock /\ device \in {"unknown", "active", "revoked"}
    /\ session \in {"unknown", "live", "revoked"}
    /\ issuedAt \in [Challenges -> 0..(MaxClock + 1)]
    /\ signed \subseteq {c \in Challenges : Issued(c)}
    /\ check \in [Checks -> CheckRecord]

\* A verification that has read the challenge's age and the device's first answer.
PassedTheChecks(r) ==
    /\ r.of = r.challenge /\ r.challenge \in Challenges /\ Issued(r.challenge)
    /\ r.from - issuedAt[r.challenge] <= ttlMs
    /\ r.phase # "isDeviceActive" => r.active

\* What a verification knows of the chain: while it is under way it has seen the
\* present, and what it says it has seen.
CheckFine(r) ==
    /\ r.phase = "valid" <=> r.identity # Nobody
    /\ r.phase \notin Settled => (device = "active" => r.active) /\ (session = "live" => r.live)
    /\ r.phase \in {"isDeviceActive", "getDevice", "valid"} => PassedTheChecks(r)
    /\ r.phase \in {"revoked-read", "answered"} /\ ~r.revoked => r.live

SdkInv == SdkTyped /\ \A v \in Checks : CheckFine(check[v])

\* The invariant gives what the run checks.
LEMMA SdkInvImplies == SdkInv => SdkCorrect
BY DEF SdkInv, SdkCorrect, SdkTyped, SdkTypeOK, ValidLoginWasFresh, CheckRecord, CheckFine, PassedTheChecks,
       GoodSessionWasLive, Reported

\* A verification that has not begun knows nothing, and has nothing to answer for.
LEMMA NoCheckFine == NoCheck \in CheckRecord /\ CheckFine(NoCheck)
BY SdkAssumption DEF NoCheck, CheckRecord, CheckPhase, Settled, AnyChallenge, CheckFine

LEMMA SdkInvInit == SdkInit => SdkInv
BY NoCheckFine, SdkAssumption DEF SdkInit, SdkInv, SdkTyped, Issued

\* One verification takes a step, the website's state and the chain do not.
LEMMA OneCheckMoves ==
  ASSUME SdkInv, NEW v \in Checks, NEW r \in CheckRecord, CheckFine(r),
         check' = [check EXCEPT ![v] = r], UNCHANGED <<now, device, session, issuedAt, signed>>
  PROVE  SdkInv'
<1>1. SdkTyped'
  BY DEF SdkInv, SdkTyped, Issued
<1>2. ASSUME NEW w \in Checks PROVE CheckFine(check[w])'
  <2>1. check'[w] = IF w = v THEN r ELSE check[w]
    BY DEF SdkInv, SdkTyped
  <2>2. CheckFine(check[w])
    BY DEF SdkInv
  <2> QED
    BY <2>1, <2>2 DEF CheckFine, PassedTheChecks, Issued
<1> QED
  BY <1>1, <1>2 DEF SdkInv

\* A verification that begins has read nothing yet.
LEMMA BegunFine ==
  ASSUME SdkTyped, NEW p \in CheckPhase
  PROVE  /\ Begun(p) \in CheckRecord
         /\ Begun(p).phase = p /\ Begun(p).from = now /\ Begun(p).identity = Nobody
         /\ ~Begun(p).revoked
         /\ device = "active" <=> Begun(p).active
         /\ session = "live" <=> Begun(p).live
<1>1. NoCheck \in CheckRecord
  BY NoCheckFine
<1>2. now \in Nat
  BY SdkAssumption DEF SdkTyped
<1> QED
  BY <1>1, <1>2 DEF Begun, CheckRecord, NoCheck

\* The chain moves: every verification under way has now seen that too.
LEMMA ChainMoves ==
  ASSUME SdkInv, UNCHANGED <<now, issuedAt, signed>>,
         device' \in {"unknown", "active", "revoked"}, session' \in {"unknown", "live", "revoked"},
         check' = Seen(device', session')
  PROVE  SdkInv'
<1> DEFINE Sees(r) ==
      IF r.phase \in Settled THEN r
      ELSE [r EXCEPT !.active = @ \/ device' = "active", !.live = @ \/ session' = "live",
                     !.absent = @ \/ session' = "unknown"]
<1>1. ASSUME NEW w \in Checks
      PROVE  check'[w] \in CheckRecord /\ CheckFine(check[w])'
  <2>1. check'[w] = Sees(check[w])
    BY DEF Seen, Settled
  <2>2. check[w] \in CheckRecord /\ CheckFine(check[w])
    BY DEF SdkInv, SdkTyped
  <2>3. CASE check[w].phase \in Settled
    BY <2>1, <2>2, <2>3 DEF CheckFine, PassedTheChecks, Issued
  <2>4. CASE check[w].phase \notin Settled
    <3>1. check'[w] = [check[w] EXCEPT !.active = @ \/ device' = "active",
                                       !.live = @ \/ session' = "live",
                                       !.absent = @ \/ session' = "unknown"]
      BY <2>1, <2>4
    <3>2. check'[w] \in CheckRecord
      BY <2>2, <3>1 DEF CheckRecord
    <3>3. /\ check'[w].phase = check[w].phase /\ check'[w].identity = check[w].identity
          /\ check'[w].of = check[w].of /\ check'[w].challenge = check[w].challenge
          /\ check'[w].from = check[w].from /\ check'[w].revoked = check[w].revoked
          /\ check'[w].active <=> check[w].active \/ device' = "active"
          /\ check'[w].live <=> check[w].live \/ session' = "live"
      BY <2>2, <3>1 DEF CheckRecord
    <3>4. CheckFine(check[w])'
      BY <2>2, <2>4, <3>3 DEF CheckFine, PassedTheChecks, Issued
    <3> QED
      BY <3>2, <3>4
  <2> QED
    BY <2>3, <2>4
<1>2. SdkTyped'
  BY <1>1 DEF SdkInv, SdkTyped, Issued, Seen
<1> QED
  BY <1>1, <1>2 DEF SdkInv

\* Every step moves one verification, the chain, the website or the clock.
LEMMA SdkInvNext == SdkInv /\ [SdkNext]_sdkVars => SdkInv'
<1> SUFFICES ASSUME SdkInv, [SdkNext]_sdkVars PROVE SdkInv'
  OBVIOUS
<1>0. SdkTyped /\ \A v \in Checks : check[v] \in CheckRecord /\ CheckFine(check[v])
  BY DEF SdkInv, SdkTyped
<1>1. CASE Tick
  BY <1>1, <1>0, SdkAssumption DEF Tick, SdkInv, SdkTyped, CheckFine, PassedTheChecks, Issued
<1>2. CASE ChangeDevice
  BY <1>0, <1>2, ChainMoves DEF ChangeDevice, SdkTyped
<1>3. CASE ChangeSession
  BY <1>0, <1>3, ChainMoves DEF ChangeSession, SdkTyped
<1>4. ASSUME NEW c \in Challenges, createChallenge(c) PROVE SdkInv'
  BY <1>0, <1>4, SdkAssumption DEF createChallenge, SdkInv, SdkTyped, CheckFine, PassedTheChecks, Issued
<1>5. ASSUME NEW c \in Challenges, Sign(c) PROVE SdkInv'
  BY <1>0, <1>5 DEF Sign, SdkInv, SdkTyped, CheckFine, PassedTheChecks, Issued
<1>6. ASSUME NEW v \in Checks, NEW c \in Challenges, NEW r \in Challenges, verifyAuthResponse(v, c, r)
      PROVE  SdkInv'
  <2> DEFINE p == IF ~Expired(c) /\ SameNonce(c, r) THEN "isDeviceActive" ELSE "invalid"
             b == [Begun(p) EXCEPT !.challenge = c, !.of = r]
  <2>1. p \in CheckPhase
    BY DEF CheckPhase, Settled
  <2>2. p # "isDeviceActive" => p = "invalid"
    OBVIOUS
  <2>3. p = "isDeviceActive" => c = r /\ now - issuedAt[c] <= ttlMs
    BY <1>0, SdkAssumption DEF Expired, SameNonce, SdkTyped
  <2> HIDE DEF p
  <2>4. /\ b \in CheckRecord
        /\ b.phase = p /\ b.from = now /\ b.identity = Nobody /\ b.challenge = c /\ b.of = r
        /\ device = "active" => b.active
        /\ session = "live" => b.live
    <3>1. /\ Begun(p) \in CheckRecord
          /\ Begun(p).phase = p /\ Begun(p).from = now /\ Begun(p).identity = Nobody
          /\ device = "active" => Begun(p).active
          /\ session = "live" => Begun(p).live
      BY <1>0, <2>1, BegunFine
    <3>2. c \in AnyChallenge /\ r \in AnyChallenge
      BY DEF AnyChallenge
    <3> QED
      BY <3>1, <3>2 DEF CheckRecord
  <2>5. CheckFine(b)
    BY <1>6, <2>2, <2>3, <2>4 DEF CheckFine, PassedTheChecks, Settled, verifyAuthResponse
  <2> USE DEF p
  <2> QED
    BY <1>6, <2>4, <2>5, OneCheckMoves DEF verifyAuthResponse
<1>7. ASSUME NEW v \in Checks, ReadActive(v) PROVE SdkInv'
  <2> DEFINE b == [check[v] EXCEPT !.phase = IF DeviceActive THEN "getDevice" ELSE "invalid"]
  <2>1. b \in CheckRecord /\ CheckFine(b)
    BY <1>0, <1>7 DEF ReadActive, CheckRecord, CheckPhase, Settled, CheckFine, PassedTheChecks, DeviceActive
  <2> QED
    BY <1>7, <2>1, OneCheckMoves DEF ReadActive
<1>8. ASSUME NEW v \in Checks, ReadDevice(v) PROVE SdkInv'
  <2> DEFINE b == [check[v] EXCEPT !.phase = "valid", !.identity = Owner]
  <2>1. b \in CheckRecord /\ CheckFine(b)
    BY <1>0, <1>8, SdkAssumption DEF ReadDevice, CheckRecord, CheckPhase, Settled, CheckFine, PassedTheChecks
  <2> QED
    BY <1>8, <2>1, OneCheckMoves DEF ReadDevice
<1>9. ASSUME NEW v \in Checks, checkDeviceStatus(v) PROVE SdkInv'
  <2> DEFINE p == IF device = "unknown" THEN "thrown" ELSE "status"
  <2>1. Begun(p) \in CheckRecord /\ CheckFine(Begun(p))
    BY <1>0, BegunFine DEF CheckPhase, Settled, CheckFine
  <2> QED
    BY <1>9, <2>1, OneCheckMoves DEF checkDeviceStatus
<1>10. ASSUME NEW v \in Checks, verifySession(v) PROVE SdkInv'
  <2>1. Begun("both") \in CheckRecord /\ CheckFine(Begun("both"))
    BY <1>0, BegunFine DEF CheckPhase, Settled, CheckFine
  <2> QED
    BY <1>10, <2>1, OneCheckMoves DEF verifySession
<1>11. ASSUME NEW v \in Checks, ReadSession(v) PROVE SdkInv'
  <2>1. PICK found \in BOOLEAN :
            check' = [check EXCEPT ![v] =
                [check[v] EXCEPT !.phase = AfterRead(v, "session-read"), !.exists = found]]
    BY <1>11 DEF ReadSession
  <2> DEFINE b == [check[v] EXCEPT !.phase = AfterRead(v, "session-read"), !.exists = found]
  <2>2. b \in CheckRecord /\ CheckFine(b)
    BY <1>0, <1>11 DEF ReadSession, AfterRead, CheckRecord, CheckPhase, Settled, CheckFine
  <2> QED
    BY <1>11, <2>1, <2>2, OneCheckMoves DEF ReadSession
<1>12. ASSUME NEW v \in Checks, ReadRevoked(v) PROVE SdkInv'
  <2> DEFINE b == [check[v] EXCEPT !.phase = AfterRead(v, "revoked-read"), !.revoked = IsSessionRevoked]
  <2>1. b \in CheckRecord /\ CheckFine(b)
    BY <1>0, <1>12 DEF ReadRevoked, AfterRead, IsSessionRevoked, CheckRecord, CheckPhase, Settled, CheckFine
  <2> QED
    BY <1>12, <2>1, OneCheckMoves DEF ReadRevoked
<1>13. CASE UNCHANGED sdkVars
  BY <1>13, <1>0 DEF sdkVars, SdkInv, SdkTyped, CheckFine, PassedTheChecks, Issued
<1> QED
  BY <1>1, <1>2, <1>3, <1>4, <1>5, <1>6, <1>7, <1>8, <1>9, <1>10, <1>11, <1>12, <1>13 DEF SdkNext

\* For any challenges, lifetimes and verifications: a login that is found valid
\* answered a fresh challenge with an active device, and a session is vouched for
\* only if it was live at some moment of the check (client.ts).
THEOREM SdkCorrectHolds == SdkSpec => []SdkCorrect
BY SdkInvInit, SdkInvNext, SdkInvImplies, PTL DEF SdkSpec

-----------------------------------------------------------------------------
(*****************************************************************************)
(* ExtensionSession.  Three parties hold copies of one session.  A copy is   *)
(* fine when it was answered as it says; this is kept by every handler for   *)
(* the copy it holds, however long ago it read it.                           *)
(*****************************************************************************)

LoginRecord == [page : {"idle", "waiting", "signed", "native"},
                bridge : {"idle", "asked", "prompt", "signed", "done"}]
Signed == {r \in Requests : login[r].bridge = "signed"}

\* A session that waits is the newest, one with entries was answered, and its sign
\* count is at most the number of assertions made.
SessionFine(s) ==
    /\ s \in SessionState \cup {NoSession}
    /\ s.status = "showingQr" => s.id = created
    /\ s.status = "received" => answers[s.id] # {}
    /\ s.count <= Cardinality(Signed)

ClockInv ==
    /\ created \in 0..MaxSessions /\ lapsed \in 0..created
    /\ expiryAlarm \in 0..created
    /\ answers \in [SessionId -> SUBSET Transport]

WorkerInv ==
    /\ polls \subseteq {s \in SessionState : s.status = "showingQr"}
    /\ {pollAlarm, startMsg, resolvedMsg} \subseteq BOOLEAN
    /\ stops \in 0..MaxStops

PopupInv ==
    /\ open \in BOOLEAN /\ base \in {"pairing", "vault"} /\ lookups \subseteq SessionId
    /\ ViewFollowsSession

PageInv ==
    /\ login \in [Requests -> LoginRecord]
    /\ \A r \in Requests : login[r].page = "idle" => login[r].bridge = "idle"

ExtensionInv ==
    /\ ClockInv /\ WorkerInv /\ PopupInv /\ PageInv
    /\ SessionFine(stored) /\ SessionFine(cur)
    /\ PendingIsPolled

\* The assertions made are finite in number, before a step and after it.
LEMMA SignedCounted ==
  /\ IsFiniteSet(Signed) /\ Cardinality(Signed) \in Nat
  /\ Cardinality(Signed) <= Cardinality(Requests) /\ Cardinality(Requests) \in Nat
<1>1. Signed \subseteq Requests /\ IsFiniteSet(Requests)
  BY SessionAssumption DEF Signed
<1> QED
  BY <1>1, FS_Subset, FS_CardinalityType

LEMMA SignedCountedNext ==
  /\ IsFiniteSet(Signed') /\ Cardinality(Signed') \in Nat
  /\ Cardinality(Signed') <= Cardinality(Requests) /\ Cardinality(Requests) \in Nat
<1>1. Signed' \subseteq Requests /\ IsFiniteSet(Requests)
  BY SessionAssumption DEF Signed
<1> QED
  BY <1>1, FS_Subset, FS_CardinalityType

\* The invariant gives the state part of SessionCorrect.
LEMMA ExtensionInvImplies ==
  ExtensionInv => SessionTypeOK /\ EntriesWereApproved /\ CodeIsNewest /\ ViewFollowsSession /\ PendingIsPolled
BY DEF ExtensionInv, ClockInv, WorkerInv, PopupInv, PageInv, LoginRecord, SessionFine, SessionTypeOK,
    EntriesWereApproved, CodeIsNewest

\* Without a session there is nothing to answer for, and the invariant holds at the
\* start.
LEMMA NoSessionFine == NoSession.status = "none" /\ NoSession.count = 0 /\ NoSession.id = 0
BY DEF NoSession

LEMMA ExtensionInvInit == SessionInit => ExtensionInv
<1> SUFFICES ASSUME SessionInit PROVE ExtensionInv
  OBVIOUS
<1>0. ClockInv /\ WorkerInv
  <2>1. ClockInv
    BY SessionAssumption DEF SessionInit, ClockInv
  <2>2. pollAlarm \in BOOLEAN /\ startMsg \in BOOLEAN /\ resolvedMsg \in BOOLEAN
    BY Zenon DEF SessionInit
  <2>3. polls = {} /\ stops \in 0..MaxStops
    BY SessionAssumption DEF SessionInit
  <2> QED
    BY <2>1, <2>2, <2>3 DEF WorkerInv
<1>1. PopupInv /\ PendingIsPolled
  BY NoSessionFine DEF SessionInit, PopupInv, PendingIsPolled, ViewFollowsSession
<1>2. PageInv
  BY DEF SessionInit, Idle, PageInv, LoginRecord
<1>3. SessionFine(NoSession)
  BY SignedCounted, NoSessionFine DEF SessionFine
<1> QED
  BY <1>0, <1>1, <1>2, <1>3 DEF SessionInit, ExtensionInv

\* A step of one request: what was signed stays signed.
LEMMA RequestStep ==
  ASSUME PageInv, NEW r \in Requests, NEW l \in LoginRecord, login' = [login EXCEPT ![r] = l],
         login[r].bridge # "signed", l.page # "idle"
  PROVE  /\ PageInv'
         /\ Cardinality(Signed') = IF l.bridge = "signed" THEN Cardinality(Signed) + 1 ELSE Cardinality(Signed)
<1>1. PageInv' /\ Signed' = IF l.bridge = "signed" THEN Signed \cup {r} ELSE Signed
  BY DEF PageInv, Signed
<1>2. r \notin Signed
  BY DEF Signed
<1> QED
  BY <1>1, <1>2, SignedCounted, FS_AddElement

\* A session stays fine while none is created and no answer or assertion is undone.
LEMMA StaysFine ==
  ASSUME ClockInv, NEW s, SessionFine(s), created' = created,
         \A i \in SessionId : answers[i] \subseteq answers'[i],
         Cardinality(Signed) <= Cardinality(Signed')
  PROVE  /\ s \in SessionState \cup {NoSession}
         /\ s.status = "showingQr" => s.id = created'
         /\ s.status = "received" => answers'[s.id] # {}
         /\ s.count <= Cardinality(Signed')
<1>1. s.count \in Nat
  BY NoSessionFine, SignedCounted DEF SessionFine, SessionState
<1>2. s.status = "received" => s.id \in SessionId
  BY NoSessionFine DEF SessionFine, SessionState
<1> QED
  BY <1>1, <1>2, SignedCounted, SignedCountedNext DEF SessionFine

\* Steps that create no session, keep both copies, and do not touch what they rest on.
LEMMA CopiesStayFine ==
  ASSUME ExtensionInv, created' = created, \A i \in SessionId : answers[i] \subseteq answers'[i],
         Cardinality(Signed) <= Cardinality(Signed')
  PROVE  /\ stored' = stored => SessionFine(stored)'
         /\ stored' = cur => SessionFine(stored)'
         /\ cur' = cur => SessionFine(cur)'
         /\ cur' = stored => SessionFine(cur)'
         /\ stored' = NoSession => SessionFine(stored)'
         /\ cur' = NoSession => SessionFine(cur)'
<1>1. /\ stored \in SessionState \cup {NoSession}
      /\ stored.status = "showingQr" => stored.id = created'
      /\ stored.status = "received" => answers'[stored.id] # {}
      /\ stored.count <= Cardinality(Signed')
  BY StaysFine DEF ExtensionInv
<1>2. /\ cur \in SessionState \cup {NoSession}
      /\ cur.status = "showingQr" => cur.id = created'
      /\ cur.status = "received" => answers'[cur.id] # {}
      /\ cur.count <= Cardinality(Signed')
  BY StaysFine DEF ExtensionInv
<1>3. 0 <= Cardinality(Signed')
  BY SignedCountedNext
<1>4. stored' = stored \/ stored' = cur => SessionFine(stored)'
  BY <1>1, <1>2 DEF SessionFine
<1>5. cur' = stored \/ cur' = cur => SessionFine(cur)'
  BY <1>1, <1>2 DEF SessionFine
<1>6. stored' = NoSession => SessionFine(stored)'
  BY <1>3, NoSessionFine DEF SessionFine
<1>7. cur' = NoSession => SessionFine(cur)'
  BY <1>3, NoSessionFine DEF SessionFine
<1> QED
  BY <1>4, <1>5, <1>6, <1>7

\* What a session becomes when its entries arrive, and what a new one is.
LEMMA ReceivedFacts ==
  ASSUME NEW s \in SessionState
  PROVE  /\ Received(s) \in SessionState /\ Received(s).status = "received"
         /\ Received(s).id = s.id /\ Received(s).count = 0
<1>1. 0 \in 0..Cardinality(Requests)
  BY SignedCounted
<1> QED
  BY <1>1 DEF Received, SessionState

LEMMA NewSessionStep ==
  ASSUME ExtensionInv, NewSession, open', UNCHANGED <<lapsed, pollAlarm, resolvedMsg, polls, stops, answers, lookups, login>>,
         open' \in BOOLEAN
  PROVE  ExtensionInv'
<1> DEFINE q == QrSession(created + 1)
<1>1. created + 1 \in SessionId /\ q \in SessionState /\ q.status = "showingQr" /\ q.id = created + 1 /\ q.count = 0
  BY SessionAssumption, SignedCounted DEF NewSession, ExtensionInv, ClockInv, QrSession, SessionState, SessionId
<1>2. created' = created + 1 /\ stored' = q /\ cur' = q /\ expiryAlarm' = created + 1 /\ startMsg' = TRUE /\ base' = "pairing"
  BY DEF NewSession
<1> HIDE DEF q
<1>3. ClockInv'
  BY <1>1, <1>2 DEF ExtensionInv, ClockInv, SessionId
<1>4. WorkerInv'
  BY <1>2 DEF ExtensionInv, WorkerInv
<1>5. PopupInv'
  BY <1>1, <1>2 DEF ExtensionInv, PopupInv, ViewFollowsSession
<1>6. PageInv'
  BY DEF ExtensionInv, PageInv
<1>7. SessionFine(stored)' /\ SessionFine(cur)'
  BY <1>1, <1>2, SignedCountedNext DEF SessionFine
<1>8. PendingIsPolled'
  BY <1>2 DEF PendingIsPolled
<1> QED
  BY <1>3, <1>4, <1>5, <1>6, <1>7, <1>8 DEF ExtensionInv

\* One case for each handler of the popup, the worker, the phone, the pages and the
\* alarms.
LEMMA ExtensionInvNext == ExtensionInv /\ [SessionNext]_sessionVars => ExtensionInv'
<1> SUFFICES ASSUME ExtensionInv, [SessionNext]_sessionVars PROVE ExtensionInv'
  OBVIOUS
<1>0. ClockInv /\ WorkerInv /\ PopupInv /\ PageInv /\ SessionFine(stored) /\ SessionFine(cur) /\ PendingIsPolled
  BY DEF ExtensionInv
<1> DEFINE SameClock == UNCHANGED clockVars
           SameWorker == UNCHANGED workerVars
           Stays == Cardinality(Signed) <= Cardinality(Signed')
<1>a. UNCHANGED <<created, lapsed, expiryAlarm, answers>> =>
          ClockInv' /\ created' = created /\ \A i \in SessionId : answers[i] \subseteq answers'[i]
  BY <1>0 DEF ClockInv
<1>b. login' = login => PageInv' /\ Stays
  BY <1>0, SignedCounted DEF PageInv, Signed
<1>c. UNCHANGED workerVars => WorkerInv'
  BY <1>0 DEF WorkerInv, workerVars
<1>d. UNCHANGED popupVars => PopupInv'
  BY <1>0 DEF PopupInv, popupVars, ViewFollowsSession
<1>e. stored' = stored /\ lapsed' = lapsed /\ (pollAlarm \/ startMsg => pollAlarm' \/ startMsg') => PendingIsPolled'
  BY <1>0 DEF PendingIsPolled, Usable, IsExpired
<1> USE DEF clockVars
<1>1. CASE OpenPopup
  <2>1. CASE Resume
    <3>1. /\ UNCHANGED <<created, lapsed, expiryAlarm, answers, login, stored>>
          /\ UNCHANGED <<pollAlarm, startMsg, resolvedMsg, polls, stops, lookups>> /\ open' = TRUE
      BY <1>1, <2>1 DEF OpenPopup, Resume
    <3>2. /\ cur' = stored
          /\ base' = IF stored.status = "received" THEN "vault" ELSE "pairing"
      BY <2>1 DEF Resume, ShowEntries
    <3>3. PopupInv'
      BY <1>0, <3>1, <3>2 DEF PopupInv, ViewFollowsSession
    <3>4. SessionFine(stored)' /\ SessionFine(cur)'
      BY <1>a, <1>b, <3>1, <3>2, CopiesStayFine
    <3> QED
      BY <1>a, <1>b, <1>c, <1>e, <3>1, <3>3, <3>4 DEF ExtensionInv, workerVars
  <2>2. CASE NewSession
    BY <1>1, <2>2, NewSessionStep DEF OpenPopup
  <2> QED
    BY <1>1, <2>1, <2>2 DEF OpenPopup
<1>2. CASE ClosePopup
  <2>1. /\ UNCHANGED clockVars /\ UNCHANGED <<stored, pollAlarm, startMsg, polls, stops, login>>
        /\ open' = FALSE /\ cur' = NoSession /\ base' = "pairing" /\ lookups' = {} /\ resolvedMsg' = FALSE
    BY <1>2 DEF ClosePopup
  <2>2. WorkerInv' /\ PopupInv'
    BY <1>0, <2>1 DEF WorkerInv, PopupInv, ViewFollowsSession
  <2>3. SessionFine(stored)' /\ SessionFine(cur)'
    BY <1>a, <1>b, <2>1, CopiesStayFine
  <2> QED
    BY <1>a, <1>b, <1>e, <2>1, <2>2, <2>3 DEF ExtensionInv
<1>3. CASE StartNewSession
  BY <1>0, <1>3, NewSessionStep DEF StartNewSession, PopupInv
<1>4. CASE StartLookup
  <2>1. cur.id \in SessionId
    BY <1>0, <1>4, NoSessionFine DEF StartLookup, Usable, SessionFine, SessionState
  <2>2. PopupInv'
    BY <1>0, <1>4, <2>1 DEF StartLookup, PopupInv, ViewFollowsSession
  <2>3. SessionFine(stored)' /\ SessionFine(cur)'
    BY <1>a, <1>b, <1>4, CopiesStayFine DEF StartLookup
  <2> QED
    BY <1>a, <1>b, <1>c, <1>e, <1>4, <2>2, <2>3 DEF StartLookup, ExtensionInv, workerVars
<1>5. CASE ShowResolved
  <2>1. /\ UNCHANGED clockVars /\ UNCHANGED <<stored, pollAlarm, startMsg, polls, stops, open, lookups, login>>
        /\ resolvedMsg' = FALSE
        /\ \/ cur' = stored /\ base' = "vault" /\ stored.status = "received"
           \/ cur' = cur /\ base' = base
    BY <1>5 DEF ShowResolved, ShowEntries
  <2>2. WorkerInv' /\ PopupInv'
    BY <1>0, <2>1 DEF WorkerInv, PopupInv, ViewFollowsSession
  <2>3. SessionFine(stored)' /\ SessionFine(cur)'
    BY <1>a, <1>b, <2>1, CopiesStayFine
  <2> QED
    BY <1>a, <1>b, <1>e, <2>1, <2>2, <2>3 DEF ExtensionInv
<1>6. ASSUME NEW s \in SessionId, LookupHit(s) PROVE ExtensionInv'
  <2>1. /\ UNCHANGED clockVars /\ UNCHANGED workerVars /\ UNCHANGED <<open, login>>
        /\ lookups' = lookups \ {s} /\ answers[s] # {}
    BY <1>6 DEF LookupHit, SweepLan
  <2>2. CASE Decrypts(s)
    <3>1. cur' = Received(cur) /\ stored' = Received(cur) /\ base' = "vault"
      BY <1>6, <2>2 DEF LookupHit, ShowEntries
    <3>2. cur \in SessionState /\ cur.id = s
      BY <1>0, <2>2, NoSessionFine DEF Decrypts, SessionFine, SessionId
    <3>3. /\ Received(cur) \in SessionState /\ Received(cur).status = "received"
          /\ Received(cur).id = s /\ Received(cur).count = 0
      BY <3>2, ReceivedFacts
    <3>4. SessionFine(stored)' /\ SessionFine(cur)'
      BY <2>1, <3>1, <3>3, SignedCountedNext DEF SessionFine
    <3>5. PopupInv' /\ PendingIsPolled'
      BY <1>0, <2>1, <3>1, <3>3 DEF PopupInv, ViewFollowsSession, PendingIsPolled
    <3> QED
      BY <1>a, <1>b, <1>c, <2>1, <3>4, <3>5 DEF ExtensionInv
  <2>3. CASE ~Decrypts(s)
    <3>1. UNCHANGED <<stored, cur, base>>
      BY <1>6, <2>3 DEF LookupHit
    <3>2. PopupInv'
      BY <1>0, <2>1, <3>1 DEF PopupInv, ViewFollowsSession
    <3>3. SessionFine(stored)' /\ SessionFine(cur)'
      BY <1>a, <1>b, <2>1, <3>1, CopiesStayFine
    <3> QED
      BY <1>a, <1>b, <1>c, <1>e, <2>1, <3>1, <3>2, <3>3 DEF ExtensionInv, workerVars
  <2> QED
    BY <2>2, <2>3
<1>7. ASSUME NEW s \in SessionId, LookupMiss(s) PROVE ExtensionInv'
  <2>1. PopupInv'
    BY <1>0, <1>7 DEF LookupMiss, PopupInv, ViewFollowsSession
  <2>2. SessionFine(stored)' /\ SessionFine(cur)'
    BY <1>a, <1>b, <1>7, CopiesStayFine DEF LookupMiss
  <2> QED
    BY <1>a, <1>b, <1>c, <1>e, <1>7, <2>1, <2>2 DEF LookupMiss, ExtensionInv, workerVars
<1>8. CASE StartPolling \/ PollTick
  <2>1. /\ UNCHANGED clockVars /\ UNCHANGED popupVars /\ UNCHANGED <<stored, resolvedMsg, stops, login>>
        /\ pollAlarm' = Pollable /\ startMsg' \in {startMsg, FALSE}
        /\ polls' = IF Pollable THEN polls \cup {stored} ELSE polls
    BY <1>8 DEF StartPolling, PollTick, BeginPoll
  <2>2. Pollable => stored \in SessionState /\ stored.status = "showingQr"
    BY <1>0 DEF Pollable, SessionFine, SessionState
  <2>3. WorkerInv'
    BY <1>0, <2>1, <2>2 DEF WorkerInv, Pollable
  <2>4. PendingIsPolled'
    BY <1>0, <2>1 DEF PendingIsPolled, Pollable, Usable, IsExpired
  <2>5. SessionFine(stored)' /\ SessionFine(cur)'
    BY <1>a, <1>b, <2>1, CopiesStayFine DEF popupVars
  <2> QED
    BY <1>a, <1>b, <1>d, <2>1, <2>3, <2>4, <2>5 DEF ExtensionInv
<1>9. CASE StopWorker
  <2>1. WorkerInv'
    BY <1>0, <1>9, SessionAssumption DEF StopWorker, WorkerInv
  <2>2. SessionFine(stored)' /\ SessionFine(cur)'
    BY <1>a, <1>b, <1>9, CopiesStayFine DEF StopWorker, popupVars
  <2> QED
    BY <1>a, <1>b, <1>d, <1>e, <1>9, <2>1, <2>2 DEF StopWorker, ExtensionInv
<1>10. CASE ExpireSession
  <2>1. /\ UNCHANGED <<created, lapsed, answers, login>> /\ UNCHANGED workerVars /\ UNCHANGED popupVars
        /\ expiryAlarm' = 0 /\ stored' = NoSession /\ cur' = cur
    BY <1>10 DEF ExpireSession, popupVars
  <2>2. ClockInv' /\ PendingIsPolled'
    BY <1>0, <2>1, NoSessionFine DEF ClockInv, PendingIsPolled
  <2>3. SessionFine(stored)' /\ SessionFine(cur)'
    BY <1>b, <2>1, CopiesStayFine
  <2> QED
    BY <1>b, <1>c, <1>d, <2>1, <2>2, <2>3 DEF ExtensionInv
<1>11. ASSUME NEW p \in polls, PollHit(p) PROVE ExtensionInv'
  <2>1. /\ UNCHANGED clockVars /\ UNCHANGED popupVars /\ UNCHANGED <<startMsg, stops, login>>
        /\ polls' = polls \ {p} /\ stored' = Received(p) /\ pollAlarm' = FALSE /\ resolvedMsg' = open
        /\ cur' = cur /\ answers' = answers /\ answers[p.id] # {}
    BY <1>11 DEF PollHit, TryFetchDeadDrop, popupVars
  <2>2. /\ Received(p) \in SessionState /\ Received(p).status = "received"
        /\ Received(p).id = p.id /\ Received(p).count = 0
    BY <1>0, ReceivedFacts DEF WorkerInv
  <2>3. WorkerInv' /\ PendingIsPolled'
    BY <1>0, <2>1, <2>2 DEF WorkerInv, PopupInv, PendingIsPolled
  <2>4. SessionFine(stored)'
    BY <2>1, <2>2, SignedCountedNext DEF SessionFine
  <2>5. SessionFine(cur)'
    BY <1>a, <1>b, <2>1, CopiesStayFine
  <2> QED
    BY <1>a, <1>b, <1>d, <2>1, <2>3, <2>4, <2>5 DEF ExtensionInv
<1>12. ASSUME NEW p \in polls, PollMiss(p) PROVE ExtensionInv'
  <2>1. WorkerInv'
    BY <1>0, <1>12 DEF PollMiss, WorkerInv
  <2>2. SessionFine(stored)' /\ SessionFine(cur)'
    BY <1>a, <1>b, <1>12, CopiesStayFine DEF PollMiss, popupVars
  <2> QED
    BY <1>a, <1>b, <1>d, <1>e, <1>12, <2>1, <2>2 DEF PollMiss, ExtensionInv
<1>13. ASSUME NEW r \in Requests, AskBridge(r) \/ FindPasskey(r) \/ Decline(r) \/ ResponseTimeout(r)
                                  \/ (Approve(r) /\ ~HasPasskey)
       PROVE  ExtensionInv'
  <2>1. UNCHANGED clockVars /\ UNCHANGED workerVars /\ UNCHANGED popupVars /\ stored' = stored /\ cur' = cur
    BY <1>13 DEF AskBridge, FindPasskey, Decline, ResponseTimeout, Approve, popupVars
  <2>2. PageInv' /\ Stays
    <3>0. login[r] \in LoginRecord /\ (login[r].page = "idle" => login[r].bridge = "idle")
      BY <1>0 DEF PageInv
    <3>1. PICK l : login' = [login EXCEPT ![r] = l]
      BY <1>13 DEF AskBridge, FindPasskey, Decline, Approve, ResponseTimeout
    <3>2. l = login'[r]
      BY <1>0, <3>1 DEF PageInv
    <3>3. /\ l \in LoginRecord /\ l.page # "idle"
          /\ l.bridge = login[r].bridge \/ (login[r].bridge # "signed" /\ l.bridge # "signed")
      <4>1. CASE AskBridge(r)
        BY <1>0, <3>0, <3>2, <4>1 DEF AskBridge, PageInv, LoginRecord
      <4>2. CASE FindPasskey(r)
        BY <1>0, <3>0, <3>2, <4>2 DEF FindPasskey, PageInv, LoginRecord, Answered
      <4>3. CASE Decline(r)
        BY <1>0, <3>0, <3>2, <4>3 DEF Decline, PageInv, LoginRecord, Answered
      <4>4. CASE ResponseTimeout(r)
        BY <1>0, <3>0, <3>2, <4>4 DEF ResponseTimeout, PageInv, LoginRecord
      <4>5. CASE Approve(r) /\ ~HasPasskey
        BY <1>0, <3>0, <3>2, <4>5 DEF Approve, PageInv, LoginRecord, Answered
      <4> QED
        BY <1>13, <4>1, <4>2, <4>3, <4>4, <4>5
    <3>4. CASE login[r].bridge # "signed"
      <4>1. /\ PageInv'
            /\ Cardinality(Signed') = IF l.bridge = "signed" THEN Cardinality(Signed) + 1 ELSE Cardinality(Signed)
        BY <1>0, <3>1, <3>3, <3>4, RequestStep
      <4> QED
        BY <4>1, SignedCounted
    <3>5. CASE login[r].bridge = "signed"
      <4>1. PageInv' /\ Signed' = Signed
        BY <1>0, <3>1, <3>3, <3>5 DEF PageInv, Signed
      <4> QED
        BY <4>1, SignedCounted
    <3> QED
      BY <3>4, <3>5
  <2>3. SessionFine(stored)' /\ SessionFine(cur)'
    BY <1>a, <2>1, <2>2, CopiesStayFine
  <2> QED
    BY <1>a, <1>c, <1>d, <1>e, <2>1, <2>2, <2>3 DEF ExtensionInv, workerVars
<1>14. ASSUME NEW r \in Requests, Approve(r), HasPasskey PROVE ExtensionInv'
  <2>1. /\ UNCHANGED clockVars /\ UNCHANGED workerVars /\ UNCHANGED popupVars /\ cur' = cur
        /\ stored' = SignAssertion(stored) /\ login[r].bridge = "prompt"
        /\ login' = [login EXCEPT ![r] = [page |-> Answered(r, "signed"), bridge |-> "signed"]]
    BY <1>14 DEF Approve, popupVars
  <2>2. PageInv' /\ Cardinality(Signed') = Cardinality(Signed) + 1
    <3>1. [page |-> Answered(r, "signed"), bridge |-> "signed"] \in LoginRecord
      BY <1>0 DEF PageInv, LoginRecord, Answered
    <3>2. Answered(r, "signed") # "idle"
      BY <1>0, <2>1 DEF PageInv, Answered
    <3> QED
      BY <1>0, <2>1, <3>1, <3>2, RequestStep
  <2>3. stored \in SessionState /\ stored.status = "received" /\ stored.count \in Nat
    BY <1>0, <1>14, NoSessionFine, SignedCounted DEF HasPasskey, SessionFine, SessionState
  <2>4. /\ stored' \in SessionState /\ stored'.status = "received"
        /\ stored'.id = stored.id /\ stored'.count = stored.count + 1
    <3>1. stored.count + 1 \in 0..Cardinality(Requests)
      BY <1>0, <2>2, <2>3, SignedCounted, SignedCountedNext DEF SessionFine
    <3> QED
      BY <2>1, <2>3, <3>1 DEF SignAssertion, SessionState
  <2>5. SessionFine(stored)'
    BY <1>0, <2>1, <2>2, <2>3, <2>4, SignedCounted DEF SessionFine
  <2>6. SessionFine(cur)'
    BY <1>a, <2>1, <2>2, SignedCounted, CopiesStayFine
  <2>7. PendingIsPolled'
    BY <2>4 DEF PendingIsPolled
  <2> QED
    BY <1>a, <1>c, <1>d, <2>1, <2>2, <2>5, <2>6, <2>7 DEF ExtensionInv
<1>15. ASSUME NEW s \in SessionId, NEW via \in Transport, PhoneAnswers(s, via) PROVE ExtensionInv'
  <2>1. ClockInv' /\ \A i \in SessionId : answers[i] \subseteq answers'[i]
    BY <1>0, <1>15 DEF PhoneAnswers, ClockInv
  <2>2. SessionFine(stored)' /\ SessionFine(cur)'
    BY <1>b, <1>15, <2>1, CopiesStayFine DEF PhoneAnswers, popupVars
  <2> QED
    BY <1>b, <1>c, <1>d, <1>e, <1>15, <2>1, <2>2 DEF PhoneAnswers, ExtensionInv, workerVars
<1>16. CASE TimePasses
  <2>1. ClockInv' /\ PendingIsPolled'
    BY <1>0, <1>16, NoSessionFine DEF TimePasses, ClockInv, PendingIsPolled, Usable, IsExpired, workerVars,
        SessionFine, SessionState, SessionId
  <2>2. SessionFine(stored)' /\ SessionFine(cur)'
    BY <1>b, <1>16, CopiesStayFine DEF TimePasses, popupVars
  <2> QED
    BY <1>b, <1>c, <1>d, <1>16, <2>1, <2>2 DEF TimePasses, ExtensionInv
<1>17. CASE UNCHANGED sessionVars
  <2>1. SessionFine(stored)' /\ SessionFine(cur)'
    BY <1>a, <1>b, <1>17, CopiesStayFine DEF sessionVars
  <2> QED
    BY <1>a, <1>b, <1>c, <1>d, <1>e, <1>17, <2>1 DEF sessionVars, ExtensionInv, workerVars, popupVars
<1>18. ASSUME NEW r \in Requests,
              AskBridge(r) \/ FindPasskey(r) \/ Decline(r) \/ Approve(r) \/ ResponseTimeout(r)
       PROVE  ExtensionInv'
  BY <1>13, <1>14, <1>18
<1> QED
  BY <1>1, <1>2, <1>3, <1>4, <1>5, <1>6, <1>7, <1>8, <1>9, <1>10, <1>11, <1>12, <1>15, <1>16, <1>17, <1>18
  DEF SessionNext

\* A page that was sent to the browser's own dialog stays there.
LEMMA NativeStays ==
  ExtensionInv /\ [SessionNext]_sessionVars =>
      \A r \in Requests : login[r].page = "native" => login'[r].page = "native"
<1> SUFFICES ASSUME ExtensionInv, [SessionNext]_sessionVars, NEW r \in Requests, login[r].page = "native"
             PROVE  login'[r].page = "native"
  OBVIOUS
<1>0. login \in [Requests -> LoginRecord]
  BY DEF ExtensionInv, PageInv
<1>1. CASE \E q \in Requests : AskBridge(q) \/ FindPasskey(q) \/ Decline(q) \/ Approve(q) \/ ResponseTimeout(q)
  BY <1>0, <1>1 DEF AskBridge, FindPasskey, Decline, Approve, ResponseTimeout, Answered, LoginRecord
<1>2. CASE ~\E q \in Requests : AskBridge(q) \/ FindPasskey(q) \/ Decline(q) \/ Approve(q) \/ ResponseTimeout(q)
  <2>1. login' = login
    BY <1>2 DEF SessionNext, sessionVars, OpenPopup, Resume, NewSession, ClosePopup, StartNewSession, StartLookup,
        ShowResolved, LookupHit, LookupMiss, StartPolling, PollTick, StopWorker, ExpireSession, PollHit, PollMiss,
        PhoneAnswers, TimePasses
  <2> QED
    BY <2>1
<1> QED
  BY <1>1, <1>2

\* For any number of sessions, requests and restarts of the worker: entries are of
\* the session that was answered, the code on screen is the newest, the popup
\* follows the session, a pending one is polled, and a late approval changes
\* nothing (background.ts, popup/main.ts).
THEOREM SessionCorrectHolds == SessionSpec => SessionCorrect
<1>1. SessionSpec => []ExtensionInv
  BY ExtensionInvInit, ExtensionInvNext, PTL DEF SessionSpec
<1>2. SessionSpec => LateApprovalIsIgnored
  BY <1>1, NativeStays, PTL DEF SessionSpec, LateApprovalIsIgnored
<1> QED
  BY <1>1, <1>2, ExtensionInvImplies, PTL DEF SessionCorrect
=============================================================================
