---------------------------- MODULE SdkVerification ----------------------------
(***************************************************************************)
(* What a website does with the TypeScript SDK: it makes a challenge, has   *)
(* it signed by the user's device, verifies the answer against the device   *)
(* registry, and later asks whether the session is still good.  Each        *)
(* verification reads the chain twice, and blocks are made in between; the  *)
(* two reads about a session are made at the same time and answered in      *)
(* either order.  Answers arrive late, twice, or for an older challenge.    *)
(* One device and one session stand for all; the registries' own rules say  *)
(* what may become of them.                                                 *)
(***************************************************************************)
EXTENDS Naturals, FiniteSets

CONSTANTS
    Owner,          \* the identity the device belongs to
    Nobody,         \* no identity
    Challenges,     \* bound: challenges of the website
    Checks,         \* bound: verifications
    ttlMs,          \* how long a challenge is good for
    MaxClock        \* bound: ticks of the website's clock

ASSUME SdkAssumption ==
    /\ Owner # Nobody
    /\ IsFiniteSet(Challenges) /\ IsFiniteSet(Checks) /\ ttlMs \in Nat /\ MaxClock \in Nat

VARIABLES
    now,        \* Date.now()
    device,     \* the device in the registry
    session,    \* the session in the registry
    issuedAt,   \* challenge -> when it was made, MaxClock + 1 if it was not
    signed,     \* challenges the device has signed
    check       \* the verifications

sdkVars == <<now, device, session, issuedAt, signed, check>>

NoCheck == [phase |-> "none", challenge |-> CHOOSE c \in Challenges : TRUE,
            of |-> CHOOSE c \in Challenges : TRUE, from |-> 0, identity |-> Nobody,
            exists |-> FALSE, revoked |-> FALSE, active |-> FALSE, live |-> FALSE, absent |-> FALSE]

Issued(c) == issuedAt[c] <= now

SdkInit ==
    /\ now = 0 /\ device = "unknown" /\ session = "unknown"
    /\ issuedAt = [c \in Challenges |-> MaxClock + 1]
    /\ signed = {} /\ check = [v \in Checks |-> NoCheck]

\* What the checks under way have seen of the chain, for the properties.
Seen(d, s) ==
    [v \in Checks |->
        IF check[v].phase \in {"none", "valid", "invalid", "answered", "thrown", "status"} THEN check[v]
        ELSE [check[v] EXCEPT !.active = @ \/ d = "active", !.live = @ \/ s = "live",
                              !.absent = @ \/ s = "unknown"]]
-----------------------------------------------------------------------------
Tick ==
    /\ now < MaxClock /\ now' = now + 1
    /\ UNCHANGED <<device, session, issuedAt, signed, check>>

\* A device is registered, revoked, and registered again for its owner.
ChangeDevice ==
    /\ device' = IF device = "active" THEN "revoked" ELSE "active"
    /\ check' = Seen(device', session)
    /\ UNCHANGED <<now, session, issuedAt, signed>>

\* A session is created by an active device, and revoked for good.
ChangeSession ==
    /\ \/ session = "unknown" /\ device = "active" /\ session' = "live"
       \/ session = "live" /\ session' = "revoked"
    /\ check' = Seen(device, session')
    /\ UNCHANGED <<now, device, issuedAt, signed>>

createChallenge(c) ==
    /\ ~Issued(c) /\ issuedAt' = [issuedAt EXCEPT ![c] = now]
    /\ UNCHANGED <<now, device, session, signed, check>>

\* The user approves on the phone, at whatever time.
Sign(c) ==
    /\ Issued(c) /\ signed' = signed \cup {c}
    /\ UNCHANGED <<now, device, session, issuedAt, check>>
-----------------------------------------------------------------------------
Begun(phase) == [NoCheck EXCEPT !.phase = phase, !.from = now, !.active = device = "active",
                                !.live = session = "live", !.absent = session = "unknown"]

\* Slip: an old challenge is as good as a new one.
NeverExpired(c) == FALSE

Expired(c) == now - issuedAt[c] > ttlMs

SameNonce(c, r) == c = r

\* verifyAuthResponse up to its first read: an answer `r` signed by the device
\* is given for the challenge c, in time or not.
verifyAuthResponse(v, c, r) ==
    /\ check[v].phase = "none" /\ Issued(c) /\ r \in signed
    /\ check' = [check EXCEPT ![v] =
          [Begun(IF ~Expired(c) /\ SameNonce(c, r) THEN "isDeviceActive" ELSE "invalid")
              EXCEPT !.challenge = c, !.of = r]]
    /\ UNCHANGED <<now, device, session, issuedAt, signed>>

DeviceActive == device = "active"

ReadActive(v) ==
    /\ check[v].phase = "isDeviceActive"
    /\ check' = [check EXCEPT ![v].phase = IF DeviceActive THEN "getDevice" ELSE "invalid"]
    /\ UNCHANGED <<now, device, session, issuedAt, signed>>

\* By now the device may have been revoked.
ReadDevice(v) ==
    /\ check[v].phase = "getDevice"
    /\ check' = [check EXCEPT ![v].phase = "valid", ![v].identity = Owner]
    /\ UNCHANGED <<now, device, session, issuedAt, signed>>
-----------------------------------------------------------------------------
\* verifySession: both reads are under way.
verifySession(v) ==
    /\ check[v].phase = "none"
    /\ check' = [check EXCEPT ![v] = Begun("both")]
    /\ UNCHANGED <<now, device, session, issuedAt, signed>>

AfterRead(v, read) == IF check[v].phase = "both" THEN read ELSE "answered"

\* readSession takes any failure for a session that does not exist.
ReadSession(v) ==
    /\ check[v].phase \in {"both", "revoked-read"}
    /\ \E found \in {session # "unknown", FALSE} :
          check' = [check EXCEPT ![v].phase = AfterRead(v, "session-read"), ![v].exists = found]
    /\ UNCHANGED <<now, device, session, issuedAt, signed>>

\* isSessionRevoked is also true of a session that does not exist.
IsSessionRevoked == session # "live"

ReadRevoked(v) ==
    /\ check[v].phase \in {"both", "session-read"}
    /\ check' = [check EXCEPT ![v].phase = AfterRead(v, "revoked-read"), ![v].revoked = IsSessionRevoked]
    /\ UNCHANGED <<now, device, session, issuedAt, signed>>

\* checkDeviceStatus: getDevice reverts for a device it does not know.
checkDeviceStatus(v) ==
    /\ check[v].phase = "none"
    /\ check' = [check EXCEPT ![v] = Begun(IF device = "unknown" THEN "thrown" ELSE "status")]
    /\ UNCHANGED <<now, device, session, issuedAt, signed>>

SdkNext ==
    \/ Tick \/ ChangeDevice \/ ChangeSession
    \/ \E c \in Challenges : createChallenge(c) \/ Sign(c)
    \/ \E v \in Checks :
          \/ \E c, r \in Challenges : verifyAuthResponse(v, c, r)
          \/ ReadActive(v) \/ ReadDevice(v)
          \/ checkDeviceStatus(v) \/ verifySession(v) \/ ReadSession(v) \/ ReadRevoked(v)

SdkSpec == SdkInit /\ [][SdkNext]_sdkVars
-----------------------------------------------------------------------------
(* Types.                                                                     *)
SdkTypeOK ==
    /\ now \in 0..MaxClock /\ device \in {"unknown", "active", "revoked"}
    /\ session \in {"unknown", "live", "revoked"} /\ signed \subseteq {c \in Challenges : Issued(c)}
    /\ \A v \in Checks : check[v].phase = "valid" <=> check[v].identity # Nobody

\* A login is only accepted with an answer to its own challenge, given before the
\* challenge had expired (however long the reads then take), and from a device
\* that was active at some moment of the verification.
ValidLoginWasFresh ==
    \A v \in Checks : check[v].phase = "valid" =>
        /\ check[v].of = check[v].challenge
        /\ check[v].from - issuedAt[check[v].challenge] <= ttlMs
        /\ check[v].active

Reported(v) == check[v].phase = "answered" /\ check[v].exists

\* A session reported as good was good at some moment of the verification, in
\* whichever order the two reads were answered.
GoodSessionWasLive == \A v \in Checks : Reported(v) /\ ~check[v].revoked => check[v].live

\* A session reported as revoked was revoked (refuted: one that is created while
\* it is verified may be answered "revoked" by the first read).
RevokedWasRevoked == \A v \in Checks : Reported(v) /\ check[v].revoked => session = "revoked"

\* A session reported as missing was not there (refuted: a failing node is taken
\* for the contract's SessionNotFound).
MissingWasMissing ==
    \A v \in Checks : check[v].phase = "answered" /\ ~check[v].exists => check[v].absent

\* Asking for an unknown device is answered that it does not exist (refuted: the
\* call fails).
UnknownDeviceHasStatus == \A v \in Checks : check[v].phase # "thrown"

\* A verification that reads a moving chain more than once vouches for nothing
\* that was not true at some moment of it (client.ts).
SdkCorrect == SdkTypeOK /\ ValidLoginWasFresh /\ GoodSessionWasLive
=============================================================================
