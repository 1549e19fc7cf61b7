-------------------------- MODULE ExtensionSession --------------------------
(***************************************************************************)
(* A reading session of the browser extension.  The popup shows a QR code   *)
(* with a session id and an ephemeral key; the phone answers with the       *)
(* encrypted entries over the local network, over a dead drop, or both.     *)
(* Three parties write the one session kept in chrome.storage.session: the  *)
(* popup, the poll of the dead drop and the passkey signer, both in the     *)
(* service worker.  Alarms outlive the worker and the popup; what either    *)
(* holds in memory does not.                                                *)
(*                                                                         *)
(* Sessions are numbered in the order they are created.  All live for the   *)
(* same time (SESSION_TTL_MS), so they expire in that order and `lapsed`    *)
(* is the last one whose time has passed.  The answers of storage and of    *)
(* alarms are immediate, those of the network are not.                      *)
(***************************************************************************)
EXTENDS Naturals, FiniteSets

CONSTANTS
    Requests,       \* calls of navigator.credentials.get() by pages
    MaxSessions,    \* bound: sessions the popup creates
    MaxStops        \* bound: times the browser stops a worker in mid-poll

ASSUME SessionAssumption ==
    /\ IsFiniteSet(Requests)
    /\ MaxSessions \in Nat \ {0}
    /\ MaxStops \in Nat

VARIABLES
    created,        \* sessions created so far
    lapsed,         \* the sessions 1..lapsed are past expiresAt
    stored,         \* truthid_vault_session in chrome.storage.session
    expiryAlarm,    \* the session SESSION_EXPIRY_ALARM is set for, 0 if none
    pollAlarm,      \* DEAD_DROP_POLL_ALARM is set
    startMsg,       \* START_DEAD_DROP_POLL_MESSAGE on its way
    resolvedMsg,    \* DEAD_DROP_RESOLVED_MESSAGE on its way
    polls,          \* polls of the worker waiting for the gateway
    stops,          \* times the worker was stopped in mid-poll
    answers,        \* session -> where the phone has put its answer
    open,           \* the popup is open
    cur,            \* currentState of the popup
    base,           \* baseView of the popup
    lookups,        \* sessions the popup is looking for on the network
    login           \* request -> the page's call and its prompt

popupVars == <<open, cur, base, lookups>>
workerVars == <<pollAlarm, startMsg, resolvedMsg, polls, stops>>
clockVars == <<created, lapsed, expiryAlarm, answers>>
sessionVars == <<created, lapsed, stored, expiryAlarm, pollAlarm, startMsg, resolvedMsg,
                 polls, stops, answers, open, cur, base, lookups, login>>

SessionId == 1..MaxSessions
NoSession == [id |-> 0, status |-> "none", count |-> 0]

\* count stands for the entries: the sign count of the passkey among them.
SessionState == [id : SessionId, status : {"showingQr", "received"}, count : 0..Cardinality(Requests)]

Transport == {"lan", "drop"}
Idle == [page |-> "idle", bridge |-> "idle"]

SessionInit ==
    /\ created = 0 /\ lapsed = 0
    /\ stored = NoSession /\ cur = NoSession
    /\ expiryAlarm = 0 /\ pollAlarm = FALSE
    /\ startMsg = FALSE /\ resolvedMsg = FALSE
    /\ polls = {} /\ stops = 0
    /\ answers = [s \in SessionId |-> {}]
    /\ open = FALSE /\ base = "pairing" /\ lookups = {}
    /\ login = [r \in Requests |-> Idle]

IsExpired(s) == s.id <= lapsed
Usable(s) == s # NoSession /\ ~IsExpired(s)
Received(s) == [s EXCEPT !.status = "received", !.count = 0]
-----------------------------------------------------------------------------
(* The popup *)

QrSession(s) == [id |-> s, status |-> "showingQr", count |-> 0]

\* createNewSession and showQr: store the session, set its alarm, ask the
\* worker to poll for it and show its code.
NewSession ==
    /\ created < MaxSessions
    /\ created' = created + 1
    /\ stored' = QrSession(created + 1) /\ cur' = stored'
    /\ expiryAlarm' = created + 1
    /\ startMsg' = TRUE
    /\ base' = "pairing"

ShowEntries(s) == cur' = s /\ base' = "vault"

\* What init finds in storage goes on, whether answered or not.
Resume ==
    /\ Usable(stored)
    /\ \/ stored.status = "received" /\ ShowEntries(stored)
       \/ stored.status # "received" /\ cur' = stored /\ base' = "pairing"
    /\ UNCHANGED <<created, stored, expiryAlarm, startMsg>>

OpenPopup ==
    /\ ~open /\ open' = TRUE
    /\ Resume \/ (~Usable(stored) /\ NewSession)
    /\ UNCHANGED <<lapsed, pollAlarm, resolvedMsg, polls, stops, answers, lookups, login>>

\* Losing the focus closes the popup, with all that it has in memory.
ClosePopup ==
    /\ open /\ open' = FALSE
    /\ cur' = NoSession /\ base' = "pairing" /\ lookups' = {}
    /\ resolvedMsg' = FALSE
    /\ UNCHANGED <<clockVars, stored, pollAlarm, startMsg, polls, stops, login>>

StartNewSession ==
    /\ open
    /\ NewSession
    /\ UNCHANGED <<lapsed, pollAlarm, resolvedMsg, polls, stops, answers, open, lookups, login>>

\* "Find" (a sweep of the subnet) or "Connect" (an address typed in).
StartLookup ==
    /\ open /\ base = "pairing" /\ Usable(cur)
    /\ lookups' = lookups \cup {cur.id}
    /\ UNCHANGED <<clockVars, workerVars, stored, open, cur, base, login>>

\* handleBlobBytes uses the key of the session the popup has by now; a blob
\* of another session does not decrypt.
Decrypts(s) == cur.id = s

SweepLan(s) == "lan" \in answers[s]

LookupHit(s) ==
    /\ s \in lookups /\ SweepLan(s)
    /\ lookups' = lookups \ {s}
    /\ IF Decrypts(s)
         THEN ShowEntries(Received(cur)) /\ stored' = cur'
         ELSE UNCHANGED <<stored, cur, base>>
    /\ UNCHANGED <<clockVars, workerVars, open, login>>

LookupMiss(s) ==
    /\ s \in lookups
    /\ lookups' = lookups \ {s}
    /\ UNCHANGED <<clockVars, workerVars, stored, open, cur, base, login>>

\* The popup's listener takes over what the worker has stored.
ShowResolved ==
    /\ resolvedMsg /\ resolvedMsg' = FALSE
    /\ IF cur.status = "showingQr" /\ stored.status = "received" /\ stored.id = cur.id
         THEN ShowEntries(stored)
         ELSE UNCHANGED <<cur, base>>
    /\ UNCHANGED <<clockVars, stored, pollAlarm, startMsg, polls, stops, open, lookups, login>>
-----------------------------------------------------------------------------
(* The service worker *)

Pollable == stored # NoSession /\ stored.status # "received" /\ ~IsExpired(stored)

\* The first half of pollDeadDropOnce: it keeps the session it has loaded
\* while the gateway answers, or clears the alarm.
BeginPoll ==
    /\ pollAlarm' = Pollable
    /\ polls' = IF Pollable THEN polls \cup {stored} ELSE polls

StartPolling ==
    /\ startMsg /\ startMsg' = FALSE
    /\ BeginPoll
    /\ UNCHANGED <<clockVars, popupVars, stored, resolvedMsg, stops, login>>

PollTick ==
    /\ pollAlarm
    /\ BeginPoll
    /\ UNCHANGED <<clockVars, popupVars, stored, startMsg, resolvedMsg, stops, login>>

TryFetchDeadDrop(s) == "drop" \in answers[s]

\* The second half: what was loaded is stored again, with the entries.
PollHit(p) ==
    /\ p \in polls /\ TryFetchDeadDrop(p.id)
    /\ polls' = polls \ {p}
    /\ stored' = Received(p)
    /\ pollAlarm' = FALSE
    /\ resolvedMsg' = open
    /\ UNCHANGED <<clockVars, popupVars, startMsg, stops, login>>

\* Slip: one miss is taken for the end of the polling.
GiveUpPolling(p) ==
    /\ p \in polls
    /\ polls' = polls \ {p} /\ pollAlarm' = FALSE
    /\ UNCHANGED <<clockVars, popupVars, stored, startMsg, resolvedMsg, stops, login>>

\* The name has not propagated, the gateway failed or timed out: the alarm stays.
PollMiss(p) ==
    /\ p \in polls
    /\ polls' = polls \ {p}
    /\ UNCHANGED <<clockVars, popupVars, stored, pollAlarm, startMsg, resolvedMsg, stops, login>>

\* The browser stops the worker: its polls are gone, storage and alarms stay.
StopWorker ==
    /\ polls # {} /\ stops < MaxStops
    /\ polls' = {} /\ stops' = stops + 1
    /\ UNCHANGED <<clockVars, popupVars, stored, pollAlarm, startMsg, resolvedMsg, login>>

ExpireSession ==
    /\ expiryAlarm # 0 /\ expiryAlarm <= lapsed
    /\ expiryAlarm' = 0 /\ stored' = NoSession
    /\ UNCHANGED <<created, lapsed, answers, workerVars, popupVars, login>>
-----------------------------------------------------------------------------
(* Signing in with a passkey: page, bridge and worker *)

HasPasskey == stored.status = "received"

AnsweredLate(r, result) == result

\* A page that no longer waits has removed its listener.
Answered(r, result) == IF login[r].page = "waiting" THEN result ELSE login[r].page

SignAssertion(s) == [s EXCEPT !.count = @ + 1]

AskBridge(r) ==
    /\ login[r].page = "idle"
    /\ login' = [login EXCEPT ![r] = [page |-> "waiting", bridge |-> "asked"]]
    /\ UNCHANGED <<clockVars, workerVars, popupVars, stored>>

FindPasskey(r) ==
    /\ login[r].bridge = "asked"
    /\ login' = [login EXCEPT ![r] =
         IF HasPasskey THEN [@ EXCEPT !.bridge = "prompt"]
                       ELSE [page |-> Answered(r, "native"), bridge |-> "done"]]
    /\ UNCHANGED <<clockVars, workerVars, popupVars, stored>>

Decline(r) ==
    /\ login[r].bridge = "prompt"
    /\ login' = [login EXCEPT ![r] = [page |-> Answered(r, "native"), bridge |-> "done"]]
    /\ UNCHANGED <<clockVars, workerVars, popupVars, stored>>

\* The worker reads the session again, signs and stores the new sign count.
Approve(r) ==
    /\ login[r].bridge = "prompt"
    /\ IF HasPasskey
         THEN /\ stored' = SignAssertion(stored)
              /\ login' = [login EXCEPT ![r] = [page |-> Answered(r, "signed"), bridge |-> "signed"]]
         ELSE /\ login' = [login EXCEPT ![r] = [page |-> Answered(r, "native"), bridge |-> "done"]]
              /\ UNCHANGED stored
    /\ UNCHANGED <<clockVars, workerVars, popupVars>>

\* After RESPONSE_TIMEOUT_MS the page calls the browser's own get(); the
\* prompt stays on the screen.
ResponseTimeout(r) ==
    /\ login[r].page = "waiting"
    /\ login' = [login EXCEPT ![r].page = "native"]
    /\ UNCHANGED <<clockVars, workerVars, popupVars, stored>>
-----------------------------------------------------------------------------
(* The phone and the clock *)

PhoneAnswers(s, via) ==
    /\ lapsed < s /\ s <= created
    /\ answers' = [answers EXCEPT ![s] = @ \cup {via}]
    /\ UNCHANGED <<created, lapsed, stored, expiryAlarm, workerVars, popupVars, login>>

TimePasses ==
    /\ lapsed < created
    /\ lapsed' = lapsed + 1
    /\ UNCHANGED <<created, stored, expiryAlarm, answers, workerVars, popupVars, login>>

SessionNext ==
    \/ OpenPopup \/ ClosePopup \/ StartNewSession \/ StartLookup \/ ShowResolved
    \/ \E s \in SessionId : LookupHit(s) \/ LookupMiss(s)
    \/ StartPolling \/ PollTick \/ StopWorker \/ ExpireSession
    \/ \E p \in polls : PollHit(p) \/ PollMiss(p)
    \/ \E r \in Requests : AskBridge(r) \/ FindPasskey(r) \/ Decline(r) \/ Approve(r) \/ ResponseTimeout(r)
    \/ \E s \in SessionId, via \in Transport : PhoneAnswers(s, via)
    \/ TimePasses

CollectDrop == \E p \in polls : p.id = stored.id /\ PollHit(p)

\* Messages, alarms and timers arrive; a name that is published resolves at
\* last.  Neither the user nor the phone nor the clock owes a step.
SessionFairness ==
    /\ WF_sessionVars(StartPolling) /\ WF_sessionVars(PollTick) /\ SF_sessionVars(CollectDrop)
    /\ WF_sessionVars(ShowResolved)
    /\ \A r \in Requests : WF_sessionVars(ResponseTimeout(r))

SessionSpec == SessionInit /\ [][SessionNext]_sessionVars /\ SessionFairness
-----------------------------------------------------------------------------
SessionTypeOK ==
    /\ created \in 0..MaxSessions /\ lapsed \in 0..created
    /\ {stored, cur} \subseteq SessionState \cup {NoSession}
    /\ polls \subseteq SessionState
    /\ expiryAlarm \in 0..created
    /\ {pollAlarm, startMsg, resolvedMsg, open} \subseteq BOOLEAN
    /\ stops \in 0..MaxStops
    /\ answers \in [SessionId -> SUBSET Transport]
    /\ base \in {"pairing", "vault"}
    /\ lookups \subseteq SessionId
    /\ login \in [Requests -> [page : {"idle", "waiting", "signed", "native"},
                               bridge : {"idle", "asked", "prompt", "signed", "done"}]]

\* Entries that are stored or shown are the phone's answer to that very
\* session, however late a lookup or a poll of another session comes back.
EntriesWereApproved ==
    \A s \in {stored, cur} : s.status = "received" => answers[s.id] # {}

\* A code on the screen is that of the newest session, never one that a late
\* poll of an earlier session has put back into storage.
CodeIsNewest == cur.status = "showingQr" => cur.id = created

\* The popup stays on the code of a session exactly until it has the entries
\* of that session, whether it, the worker or an earlier popup fetched them.
ViewFollowsSession == open => (base = "vault" <=> cur.status = "received")

\* A stored session that waits for its answer is being polled, across closed
\* popups, stopped workers and polls of earlier sessions that come back late.
PendingIsPolled == stored.status = "showingQr" /\ Usable(stored) => pollAlarm \/ startMsg

\* A dead drop the phone has filled is collected, unless the session is
\* replaced, answered otherwise, or runs out of time first.
DropIsCollected ==
    \A s \in SessionId :
        (stored.id = s /\ "drop" \in answers[s])
            ~> (stored.id # s \/ stored.status = "received" \/ s <= lapsed)

\* Every page gets an answer to its call, even if nobody answers the prompt.
LoginSettles == \A r \in Requests : login[r].page = "waiting" ~> login[r].page # "waiting"

\* A page that has gone on with the browser's own passkeys is never handed an
\* assertion as well, although the prompt is still there to be approved.
LateApprovalIsIgnored ==
    [][\A r \in Requests : login[r].page = "native" => login'[r].page = "native"]_sessionVars

\* What the service worker promises of its expiry alarm: a session never
\* stays in storage with no alarm left to remove it.
StoredSessionWillExpire == stored # NoSession => expiryAlarm # 0

\* Whatever order popup, worker, phone, pages and alarms act in: entries are of
\* the session that was answered, the code on screen is the newest, the popup
\* follows the session, a pending one is polled, and a late approval does not change
\* what a page was told (background.ts, popup/main.ts).
SessionCorrect ==
    /\ [](SessionTypeOK /\ EntriesWereApproved /\ CodeIsNewest /\ ViewFollowsSession
           /\ PendingIsPolled)
    /\ LateApprovalIsIgnored
=============================================================================
