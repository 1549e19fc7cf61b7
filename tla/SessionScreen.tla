---------------------------- MODULE SessionScreen ----------------------------
(***************************************************************************)
(* The sessions of an identity on the Desktop: the login dialog, which       *)
(* authenticates with a site and records the session on the chain, and the   *)
(* tab that lists the sessions and revokes them.                             *)
(*                                                                         *)
(* Session 0 is one the phone made; session n belongs to the n-th login      *)
(* asked of the dialog (its hash is that of the challenge's nonce).  The     *)
(* screens send their transactions from the wallet: the registry takes a     *)
(* revocation from the identity's controller, which is the wallet for an     *)
(* identity made before smart accounts and the account for the others.       *)
(* Two transactions are never in one block.                                  *)
(***************************************************************************)
EXTENDS Naturals, FiniteSets, WalletWrite

CONSTANTS
    SessionLimit,   \* MAX_SESSIONS
    MaxLogins,      \* bound: logins asked
    MaxSweeps       \* bound: revocations of all sessions sent

ASSUME SessionScreenAssumption == {SessionLimit, MaxLogins, MaxSweeps} \subseteq Nat /\ SessionLimit > 0

VARIABLES
    controlledBy,   \* "wallet" or "account": the identity's controller
    created, revokedOne, swept,     \* sessions recorded, revoked one by one, and created before a sweep
    dialogOpen, logins, loginStatus,
    asked,          \* logins the site has not answered
    loginResult,    \* the login shown (0: none)
    signing,        \* logins whose session sign_session_hash is signing
    sessionHash, sessionStatus, createHook, createFor,
    tabOpen, hashesRead, listed,    \* getSessionsByIdentity; getSession of each
    revokingHash, revokeHook, revokeFor, sweepHook, sweeps, revokeAllDone,
    reportedWith,   \* history: the sessions there were when the last sweep was reported
    afloat          \* transactions of a dialog, tab or hook that no longer follows them

registryVars == <<controlledBy, created, revokedOne, swept>>
loginVars == <<dialogOpen, logins, loginStatus, asked, loginResult, signing, sessionHash, sessionStatus,
               createHook, createFor>>
listVars == <<tabOpen, hashesRead, listed, revokingHash, revokeHook, revokeFor, sweepHook, sweeps,
              revokeAllDone, reportedWith>>
sessionVars == <<registryVars, loginVars, listVars, afloat>>

Sessions == 0..MaxLogins
None == MaxLogins + 1
NoList == [of |-> {}, revoked |-> {}]
Valid(s) == s \in created \ (revokedOne \cup swept)
\* A raw session: revokeAllSessions leaves its flag alone.
Details(hashes) == [of |-> hashes, revoked |-> revokedOne \cap hashes]

SessionsInit ==
    /\ controlledBy \in {"wallet", "account"}
    /\ created = {0} /\ revokedOne = {} /\ swept = {}
    /\ dialogOpen = FALSE /\ logins = 0 /\ loginStatus = "idle" /\ asked = {} /\ loginResult = 0 /\ signing = {}
    /\ sessionHash = 0 /\ sessionStatus = "idle" /\ createHook = "idle" /\ createFor = 0
    /\ tabOpen = FALSE /\ hashesRead = {} /\ listed = NoList
    /\ revokingHash = None /\ revokeHook = "idle" /\ revokeFor = None
    /\ sweepHook = "idle" /\ sweeps = 0 /\ revokeAllDone = FALSE /\ reportedWith = {}
    /\ afloat = {}
-----------------------------------------------------------------------------
(* The login dialog.                                                          *)
OpenDialog ==
    /\ ~dialogOpen /\ dialogOpen' = TRUE
    /\ UNCHANGED <<registryVars, logins, loginStatus, asked, loginResult, signing, sessionHash, sessionStatus,
                   createHook, createFor, listVars, afloat>>

\* The session the wallet was asked for goes on without its hook.
CreationAfloat == IF Busy(createHook) THEN {<<"create", createFor>>} ELSE {}

FreshDialog ==
    /\ loginResult' = 0 /\ sessionHash' = 0 /\ sessionStatus' = "idle"
    /\ createHook' = "idle" /\ createFor' = 0 /\ afloat' = afloat \cup CreationAfloat

\* The overlay closes it at any time.  A signature asked for arrives nowhere.
CloseDialog ==
    /\ dialogOpen /\ dialogOpen' = FALSE /\ loginStatus' = "idle" /\ asked' = {} /\ signing' = {}
    /\ FreshDialog
    /\ UNCHANGED <<registryVars, logins, listVars>>

CanLogin == dialogOpen /\ loginStatus # "loading"

\* handleLogin: everything the dialog shows is reset, a signature under way is not
\* called off.
PressLogin ==
    /\ CanLogin /\ logins < MaxLogins
    /\ logins' = logins + 1 /\ loginStatus' = "loading" /\ asked' = asked \cup {logins'}
    /\ FreshDialog
    /\ UNCHANGED <<registryVars, dialogOpen, signing, listVars>>

\* The site's answer to the signed challenge, or any of the awaits failing.
LoginAnswered(n, ok) ==
    /\ n \in asked /\ asked' = asked \ {n}
    /\ IF ok THEN loginStatus' = "success" /\ loginResult' = n
             ELSE loginStatus' = "error" /\ UNCHANGED loginResult
    /\ UNCHANGED <<registryVars, dialogOpen, logins, signing, sessionHash, sessionStatus, createHook,
                   createFor, listVars, afloat>>

IsSessionBusy == sessionStatus \in {"signing", "pending"} \/ Busy(createHook)

PressCreate ==
    /\ loginStatus = "success" /\ ~IsSessionBusy /\ sessionStatus # "confirmed"
    /\ sessionStatus' = "signing" /\ sessionHash' = loginResult /\ signing' = signing \cup {loginResult}
    /\ UNCHANGED <<registryVars, dialogOpen, logins, loginStatus, asked, loginResult, createHook, createFor,
                   listVars, afloat>>

\* A new request leaves the former one without a hook.
SessionSigned(n) ==
    /\ n \in signing /\ signing' = signing \ {n}
    /\ sessionStatus' = "pending" /\ createHook' = "pending" /\ createFor' = n
    /\ afloat' = afloat \cup CreationAfloat
    /\ UNCHANGED <<registryVars, dialogOpen, logins, loginStatus, asked, loginResult, sessionHash, listVars>>

SigningFails(n) ==
    /\ n \in signing /\ signing' = signing \ {n} /\ sessionStatus' = "error"
    /\ UNCHANGED <<registryVars, dialogOpen, logins, loginStatus, asked, loginResult, sessionHash, createHook,
                   createFor, listVars, afloat>>

AnswerCreate ==
    /\ IsPending(createHook) /\ createHook' \in WalletAnswers
    /\ sessionStatus' = IF IsError(createHook') THEN "error" ELSE sessionStatus
    /\ UNCHANGED <<registryVars, dialogOpen, logins, loginStatus, asked, loginResult, signing, sessionHash,
                   createFor, listVars, afloat>>

\* The registry records the session of an active device, within the limit.
Creates(n) == n \notin created /\ Cardinality(created) < SessionLimit
CreatedWith(n) == created' = IF Creates(n) THEN created \cup {n} ELSE created

\* The receipt: the screen says so unless it was reverted, when it says nothing.
MineCreate ==
    /\ IsConfirming(createHook)
    /\ CreatedWith(createFor)
    /\ IF Creates(createFor) THEN createHook' = "success" /\ sessionStatus' = "confirmed"
                             ELSE createHook' = "reverted" /\ UNCHANGED sessionStatus
    /\ UNCHANGED <<controlledBy, revokedOne, swept, dialogOpen, logins, loginStatus, asked, loginResult, signing,
                   sessionHash, createFor, listVars, afloat>>
-----------------------------------------------------------------------------
(* The tab.                                                                   *)
OpenTab ==
    /\ ~tabOpen /\ tabOpen' = TRUE
    /\ UNCHANGED <<registryVars, loginVars, hashesRead, listed, revokingHash, revokeHook, revokeFor,
                   sweepHook, sweeps, revokeAllDone, reportedWith, afloat>>

\* What was read stays in the cache of the queries.
CloseTab ==
    /\ tabOpen /\ tabOpen' = FALSE
    /\ revokingHash' = None /\ revokeHook' = "idle" /\ revokeFor' = None
    /\ sweepHook' = "idle" /\ revokeAllDone' = FALSE
    /\ afloat' = afloat \cup (IF Busy(revokeHook) THEN {<<"revoke", revokeFor>>} ELSE {})
                        \cup (IF Busy(sweepHook) THEN {<<"sweep", None>>} ELSE {})
    /\ UNCHANGED <<registryVars, loginVars, hashesRead, listed, sweeps, reportedWith>>

\* Slip: a sweep once reported stays reported.
SweepStaysReported == UNCHANGED revokeAllDone

\* The effect on sessionResults.  Results equal to the former ones are the former
\* ones, and run no effect.
ReportEnds == revokeAllDone' = (revokeAllDone /\ listed' = listed)

\* getSessionsByIdentity: other hashes are another query, without results yet.
ReadHashes ==
    /\ tabOpen /\ hashesRead # created
    /\ hashesRead' = created /\ listed' = NoList
    /\ ReportEnds
    /\ UNCHANGED <<registryVars, loginVars, tabOpen, revokingHash, revokeHook, revokeFor, sweepHook, sweeps,
                   reportedWith, afloat>>

ReadSessions ==
    /\ tabOpen /\ listed # Details(hashesRead)
    /\ listed' = Details(hashesRead)
    /\ ReportEnds
    /\ UNCHANGED <<registryVars, loginVars, tabOpen, hashesRead, revokingHash, revokeHook, revokeFor,
                   sweepHook, sweeps, reportedWith, afloat>>

ShownRevoked(s) == s \in listed.revoked \/ revokeAllDone
ShownActive == {s \in listed.of : ~ShownRevoked(s)}

CanRevoke == tabOpen /\ ~Busy(revokeHook) /\ ~Busy(sweepHook)

PressRevokeOne(s) ==
    /\ CanRevoke /\ s \in ShownActive
    /\ revokingHash' = s /\ revokeHook' = "pending" /\ revokeFor' = s
    /\ afloat' = afloat \cup (IF Busy(revokeHook) THEN {<<"revoke", revokeFor>>} ELSE {})
    /\ UNCHANGED <<registryVars, loginVars, tabOpen, hashesRead, listed, sweepHook, sweeps, revokeAllDone,
                   reportedWith>>

AnswerRevokeOne ==
    /\ IsPending(revokeHook) /\ revokeHook' \in WalletAnswers
    /\ UNCHANGED <<registryVars, loginVars, tabOpen, hashesRead, listed, revokingHash, revokeFor, sweepHook,
                   sweeps, revokeAllDone, reportedWith, afloat>>

Revokes(s) == controlledBy = "wallet" /\ Valid(s)

\* The effect asks for both reads again: ReadHashes and ReadSessions.
MineRevokeOne ==
    /\ IsConfirming(revokeHook)
    /\ IF Revokes(revokeFor)
       THEN revokedOne' = revokedOne \cup {revokeFor} /\ revokeHook' = "success" /\ revokingHash' = None
       ELSE revokeHook' = "reverted" /\ UNCHANGED <<revokedOne, revokingHash>>
    /\ UNCHANGED <<controlledBy, created, swept, loginVars, tabOpen, hashesRead, listed, revokeFor, sweepHook,
                   sweeps, revokeAllDone, reportedWith, afloat>>

\* The button counts the sessions whose own flag is down.
PressRevokeAll ==
    /\ tabOpen /\ ~Busy(sweepHook) /\ listed.of # listed.revoked /\ sweeps < MaxSweeps
    /\ sweepHook' = "pending" /\ sweeps' = sweeps + 1
    /\ UNCHANGED <<registryVars, loginVars, tabOpen, hashesRead, listed, revokingHash, revokeHook, revokeFor,
                   revokeAllDone, reportedWith, afloat>>

AnswerRevokeAll ==
    /\ IsPending(sweepHook) /\ sweepHook' \in WalletAnswers
    /\ UNCHANGED <<registryVars, loginVars, tabOpen, hashesRead, listed, revokingHash, revokeHook, revokeFor,
                   sweeps, revokeAllDone, reportedWith, afloat>>

Sweep == swept' = IF controlledBy = "wallet" THEN swept \cup created ELSE swept

\* On the chain; the screen sees the receipt later.
MineRevokeAll ==
    /\ IsConfirming(sweepHook)
    /\ Sweep /\ sweepHook' = IF controlledBy = "wallet" THEN "mined" ELSE "reverted"
    /\ UNCHANGED <<controlledBy, created, revokedOne, loginVars, tabOpen, hashesRead, listed, revokingHash,
                   revokeHook, revokeFor, sweeps, revokeAllDone, reportedWith, afloat>>

SeeSweep ==
    /\ sweepHook = "mined" /\ sweepHook' = "success"
    /\ revokeAllDone' = TRUE /\ reportedWith' = created
    /\ UNCHANGED <<registryVars, loginVars, tabOpen, hashesRead, listed, revokingHash, revokeHook, revokeFor,
                   sweeps, afloat>>

LateTransaction(tx) ==
    /\ tx \in afloat /\ afloat' = afloat \ {tx}
    /\ CASE tx[1] = "create" -> CreatedWith(tx[2]) /\ UNCHANGED <<revokedOne, swept>>
         [] tx[1] = "revoke" -> /\ revokedOne' = revokedOne \cup (IF Revokes(tx[2]) THEN {tx[2]} ELSE {})
                                /\ UNCHANGED <<created, swept>>
         [] OTHER -> Sweep /\ UNCHANGED <<created, revokedOne>>
    /\ UNCHANGED <<controlledBy, loginVars, listVars>>
-----------------------------------------------------------------------------
SessionsNext ==
    \/ OpenDialog \/ CloseDialog \/ PressLogin \/ \E n \in asked, ok \in BOOLEAN : LoginAnswered(n, ok)
    \/ PressCreate \/ \E n \in signing : SessionSigned(n) \/ SigningFails(n)
    \/ AnswerCreate \/ MineCreate
    \/ OpenTab \/ CloseTab \/ ReadHashes \/ ReadSessions
    \/ \E s \in Sessions : PressRevokeOne(s)
    \/ AnswerRevokeOne \/ MineRevokeOne \/ PressRevokeAll \/ AnswerRevokeAll \/ MineRevokeAll \/ SeeSweep
    \/ \E tx \in afloat : LateTransaction(tx)

SessionsSpec == SessionsInit /\ [][SessionsNext]_sessionVars
-----------------------------------------------------------------------------
(* Types; the revocation the hook follows is the one the list marks.          *)
SessionsTypeOK ==
    /\ {created, revokedOne, swept, hashesRead, asked, signing, reportedWith} \subseteq SUBSET Sessions
    /\ revokedOne \cup swept \subseteq created /\ Cardinality(created) <= SessionLimit
    /\ loginStatus \in {"idle", "loading", "success", "error"}
    /\ sessionStatus \in {"idle", "signing", "pending", "confirmed", "error"}
    /\ listed.revoked \subseteq listed.of /\ listed.of \subseteq hashesRead
    /\ {createHook, revokeHook, sweepHook} \subseteq HookState \cup {"mined"}
    /\ Busy(revokeHook) => revokingHash = revokeFor

\* The login the dialog shows as done is the last one that was asked: what an
\* earlier one answers is not shown for it.
ShownLoginIsTheLast == loginResult # 0 => loginResult = logins

\* The dialog says a session is registered only when one of those it asked for was
\* recorded on the chain.
ConfirmedWasRecorded == sessionStatus = "confirmed" => createFor \in created

\* A session created after the screen reported a sweep is never listed as revoked by
\* it: the report ends when the list changes.
NewSessionIsNotSwept == revokeAllDone => listed.of \subseteq reportedWith

\* What the screens do not ensure (each is refuted by TLC).

\* A revocation the tab sends for a valid session takes effect.  (Refuted for an
\* identity whose controller is its account: the wallet sends it directly.)
RevocationTakesEffect == revokeHook = "reverted" => ~Valid(revokeFor)

\* The session shown as registered is the shown login's.
ShownSessionIsRecorded == sessionStatus = "confirmed" /\ sessionHash # 0 => sessionHash \in created

\* A session shown as active, from reads that are up to date, is valid.
ActiveIsValid == listed = Details(created) => \A s \in ShownActive : Valid(s)

\* A session shown as revoked is revoked.
RevokedIsRevoked == \A s \in listed.of : ShownRevoked(s) => ~Valid(s)

\* The login shown is the last one asked for, "registered" is said of one on the
\* chain, and a sweep is not reported for what came after it (QuickLogin.tsx,
\* ActiveSessions.tsx).
SessionsCorrect ==
    /\ SessionsTypeOK /\ ShownLoginIsTheLast /\ ConfirmedWasRecorded
    /\ NewSessionIsNotSwept
=============================================================================
