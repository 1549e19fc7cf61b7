-------------------------- MODULE SessionRegistry --------------------------
(***************************************************************************)
(* contracts/src/SessionRegistry.sol over the device and identity           *)
(* registries: the audit trail of logins a device approved, and their       *)
(* revocation.  A signature is the key it was made with: `signer' is what   *)
(* ecrecover returns, Zero for a signature that is malformed or not low-s.  *)
(* Of the list _sessionsByIdentity[i] only the length is ever used.         *)
(***************************************************************************)
EXTENDS DeviceRegistry

CONSTANTS
    Hash,           \* session hashes
    MAX_SESSIONS

ASSUME SessionAssumption == /\ MAX_SESSIONS \in Nat
                            /\ Zero \notin Device

VARIABLES
    sessions,       \* hash -> Session
    sessionCount,   \* id -> the length of _sessionsByIdentity[id]
    revokedBefore   \* id -> the block of the last revokeAllSessions, or 0

srVars == <<sessions, sessionCount, revokedBefore>>

Session == [identityId : 0..MaxId, device : Device \cup {Zero},
            createdAt : 0..MaxTime, revoked : BOOLEAN, exists : BOOLEAN]
NoSession == [identityId |-> 0, device |-> Zero, createdAt |-> 0,
              revoked |-> FALSE, exists |-> FALSE]

SRTypeOK ==
    /\ sessions \in [Hash -> Session]
    /\ sessionCount \in [Id -> 0..MAX_SESSIONS]
    /\ revokedBefore \in [Id -> 0..MaxTime]

SREmpty ==
    /\ sessions = [h \in Hash |-> NoSession]
    /\ sessionCount = [i \in Id |-> 0]
    /\ revokedBefore = [i \in Id |-> 0]

-----------------------------------------------------------------------------
SweptStrictly(h) == sessions[h].createdAt < revokedBefore[sessions[h].identityId]

\* revokeAllSessions records a block; it reaches every session up to and in it.
Swept(h) == sessions[h].createdAt <= revokedBefore[sessions[h].identityId]

IsSessionRevoked(h) == ~sessions[h].exists \/ sessions[h].revoked \/ Swept(h)

HashFree(h) == ~sessions[h].exists

DeviceSpeaksForRevoked(d, i) == Exists(d) /\ OwnerIdOf(d) = i

DeviceSpeaksFor(d, i) == Exists(d) /\ OwnerIdOf(d) = i /\ ~devices[d].revoked

SessionRoom(i) == sessionCount[i] < MAX_SESSIONS

CreateSession(h, i, d, signer) ==
    /\ HashFree(h)
    /\ signer = d
    /\ DeviceSpeaksFor(d, i)
    /\ SessionRoom(i)
    /\ sessions' = [sessions EXCEPT ![h] = [identityId |-> i, device |-> d,
          createdAt |-> now, revoked |-> FALSE, exists |-> TRUE]]
    /\ sessionCount' = [sessionCount EXCEPT ![i] = @ + 1]
    /\ UNCHANGED revokedBefore

RevokeSession(sender, h) ==
    /\ ~IsSessionRevoked(h)
    /\ CallerHasIdentity(sender)
    /\ sessions[h].identityId = IdentityIdOf(sender)
    /\ sessions' = [sessions EXCEPT ![h].revoked = TRUE]
    /\ UNCHANGED <<sessionCount, revokedBefore>>

RevokeAllSessions(sender) ==
    /\ CallerHasIdentity(sender)
    /\ revokedBefore' = [revokedBefore EXCEPT ![IdentityIdOf(sender)] = now]
    /\ UNCHANGED <<sessions, sessionCount>>

-----------------------------------------------------------------------------
SRUserNext ==
    \/ \E h \in Hash, i \in Id, d \in Device, s \in Device \cup {Zero} :
          CreateSession(h, i, d, s)
    \/ \E a \in Address, h \in Hash : RevokeSession(a, h)
    \/ \E a \in Address : RevokeAllSessions(a)

srSystemVars == <<irVars, drVars, srVars, now>>

SRNext ==
    \/ SRUserNext /\ UNCHANGED <<irVars, drVars, now>>
    \/ DRNext /\ UNCHANGED srVars

SRInit ==
    /\ IREmpty /\ identityRM = Zero
    /\ DREmpty /\ deviceRM = Zero
    /\ SREmpty
    /\ Genesis

SRSpec == SRInit /\ [][SRNext]_srSystemVars

-----------------------------------------------------------------------------
(* Properties *)

\* Whatever happens to wallets and devices afterwards (transfer, revocation,
\* re-registration, recovery, migration), a session is filed under the identity
\* its device belongs to: so its controller, and nobody else, can revoke it.
SessionFollowsDevice ==
    \A h \in Hash : sessions[h].exists =>
        /\ sessions[h].device \in Device
        /\ Exists(sessions[h].device)
        /\ OwnerIdOf(sessions[h].device) = sessions[h].identityId
        /\ sessions[h].identityId \in 1..nextId

\* A session once revoked, one by one or in bulk, is revoked for good: no later
\* call, under the same or another controller, makes a site accept it again.
RevokedForGoodA ==
    \A h \in Hash :
        sessions[h].exists /\ IsSessionRevoked(h) => IsSessionRevoked(h)'
RevokedForGood == [][RevokedForGoodA]_srSystemVars

\* revokeAllSessions leaves no session of the caller's identity standing, the
\* ones created earlier in its own block included.
SweepCompleteA ==
    \A a \in Address : RevokeAllSessions(a) =>
        \A h \in Hash : sessions[h].identityId = IdentityIdOf(a) => IsSessionRevoked(h)'
SweepComplete == [][SweepCompleteA]_srSystemVars

\* A site never sees a new valid session for a key that is not, in that very
\* transaction, an active device of the session's identity.
ValidSessionNeedsDeviceA ==
    \A h \in Hash : IsSessionRevoked(h) /\ ~IsSessionRevoked(h)' =>
        /\ IsDeviceActive(sessions'[h].device)
        /\ OwnerIdOf(sessions'[h].device) = sessions'[h].identityId
ValidSessionNeedsDevice == [][ValidSessionNeedsDeviceA]_srSystemVars

\* A session is filed under the identity its device belongs to, and no identity has
\* more than the limit (SessionRegistry.sol).
SessionRecordsAgree == SRTypeOK /\ SessionFollowsDevice

\* What is revoked stays revoked, and a sweep leaves nothing standing
\* (SessionRegistry.sol).
SessionsEnd == RevokedForGood /\ SweepComplete

\* While devices are revoked and registered again: sessions are filed under their
\* device's identity, within the limit, and what was ended stays ended
\* (SessionRegistry.sol).
SessionRecordsCorrect == []SessionRecordsAgree /\ SessionsEnd
=============================================================================
