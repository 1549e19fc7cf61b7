---------------------------- MODULE HardwareWallet ----------------------------
(***************************************************************************)
(* Connecting a Ledger or a Trezor.  The screen looks for the device, lists *)
(* the addresses of its accounts one by one and connects the chosen one;    *)
(* the wallet's connector then keeps the address it was answered and the    *)
(* index of the account that is to sign.  A call to the device may take for *)
(* ever: after HID_TIMEOUT_MS the screen gives up on it, but the call goes  *)
(* on, and so it does when the screen is left.  The two wallets are alike   *)
(* but for the reasons a device has to refuse, which the screen only shows. *)
(***************************************************************************)
EXTENDS Naturals, FiniteSets

CONSTANTS
    ACCOUNT_COUNT,  \* accounts listed
    NoAddress,      \* null
    MaxScreens      \* bound: times the screen is opened

Index == 0..(ACCOUNT_COUNT - 1)

ASSUME HardwareAssumption == ACCOUNT_COUNT \in Nat \ {0} /\ NoAddress \notin Index /\ MaxScreens \in Nat

VARIABLES
    usable,     \* the device is plugged in, unlocked and in the right app
    mounts,     \* times the screen was opened
    seeker,     \* the screen
    calls,      \* calls to the device without an answer
    connector   \* what the connector keeps between calls

hwVars == <<usable, mounts, seeker, calls, connector>>

\* `late`: the screen waits for it no more.
Call == [for : {"detect", "list", "connect"}, account : Index, late : BOOLEAN]
Waited == {c \in calls : ~c.late}

\* A mounted screen that knows nothing yet.
Fresh == [open |-> TRUE, phase |-> "detecting", selected |-> 0,
          busy |-> FALSE, connecting |-> FALSE,
          listed |-> {}, next |-> 0, loading |-> FALSE]

Closed == [Fresh EXCEPT !.open = FALSE]

HardwareInit ==
    /\ usable \in BOOLEAN
    /\ mounts = 0 /\ seeker = Closed
    /\ calls = {}
    /\ connector = [address |-> NoAddress, index |-> 0]
-----------------------------------------------------------------------------
\* The user plugs, unlocks or unplugs the device, or opens its app.
Handle ==
    /\ usable' = ~usable
    /\ UNCHANGED <<mounts, seeker, calls, connector>>

\* The choice of wallets is only on screen while none is connected.
OpenSeeker ==
    /\ ~seeker.open /\ connector.address = NoAddress /\ mounts < MaxScreens
    /\ mounts' = mounts + 1 /\ seeker' = Fresh
    /\ UNCHANGED <<usable, calls, connector>>

Ask(purpose, i) ==
    calls' = calls \cup {[for |-> purpose, account |-> i, late |-> FALSE]}

\* A tick of the interval.
Poll ==
    /\ seeker.open /\ seeker.phase = "detecting" /\ ~seeker.busy
    /\ Ask("detect", 0) /\ seeker' = [seeker EXCEPT !.busy = TRUE]
    /\ UNCHANGED <<usable, mounts, connector>>

\* The loop of the effect.  (Where it finds the device busy it would pass over
\* the account; ListFindsItFree says that it does not.)
ListNext ==
    /\ seeker.open /\ seeker.loading /\ ~seeker.busy
    /\ Ask("list", seeker.next) /\ seeker' = [seeker EXCEPT !.busy = TRUE]
    /\ UNCHANGED <<usable, mounts, connector>>

Select(i) ==
    /\ seeker.open /\ seeker.phase = "account-select" /\ ~seeker.connecting
    /\ seeker' = [seeker EXCEPT !.selected = i]
    /\ UNCHANGED <<usable, mounts, calls, connector>>

CanConnect ==
    seeker.phase = "account-select" /\ ~seeker.connecting /\ ~seeker.loading /\ ~seeker.busy

\* Slip: the index is left for the connection to set.
ChooseNothing(i) == UNCHANGED connector

\* setLedgerAccountIndex, setTrezorAccountIndex.
Choose(i) == connector' = [connector EXCEPT !.index = i]

Connect ==
    /\ seeker.open /\ CanConnect
    /\ Choose(seeker.selected) /\ Ask("connect", seeker.selected)
    /\ seeker' = [seeker EXCEPT !.busy = TRUE, !.connecting = TRUE]
    /\ UNCHANGED <<usable, mounts>>

\* Whatever is in flight stays so.
Back ==
    /\ seeker.open
    /\ seeker' = Closed
    /\ calls' = {[c EXCEPT !.late = TRUE] : c \in calls}
    /\ UNCHANGED <<usable, mounts, connector>>

\* What the screen makes of a call that failed, or took too long.
GivesUp(c) ==
    CASE c.for = "detect" -> [seeker EXCEPT !.busy = FALSE]
      [] c.for = "list" -> [seeker EXCEPT !.busy = FALSE, !.loading = FALSE]
      [] OTHER -> [seeker EXCEPT !.busy = FALSE, !.connecting = FALSE]

\* withTimeout rejects.
Expire(c) ==
    /\ ~c.late
    /\ seeker' = GivesUp(c)
    /\ calls' = (calls \ {c}) \cup {[c EXCEPT !.late = TRUE]}
    /\ UNCHANGED <<usable, mounts, connector>>

Refused(c) ==
    /\ ~usable
    /\ calls' = calls \ {c}
    /\ seeker' = IF c.late THEN seeker ELSE GivesUp(c)
    /\ UNCHANGED <<usable, mounts, connector>>

\* The first answer to a search starts the list.
Found(c) ==
    /\ usable /\ c.for = "detect"
    /\ calls' = calls \ {c}
    /\ seeker' = IF c.late THEN seeker
                 ELSE [seeker EXCEPT !.busy = FALSE, !.phase = "account-select",
                                     !.listed = {}, !.next = 0, !.loading = TRUE]
    /\ UNCHANGED <<usable, mounts, connector>>

Listed(c) ==
    /\ usable /\ c.for = "list"
    /\ calls' = calls \ {c}
    /\ seeker' = IF c.late THEN seeker
                 ELSE [seeker EXCEPT !.busy = FALSE, !.listed = @ \cup {c.account},
                                     !.next = IF c.account + 1 \in Index THEN c.account + 1 ELSE c.account,
                                     !.loading = c.account + 1 \in Index]
    /\ UNCHANGED <<usable, mounts, connector>>

\* connect() of the connector, also for a screen that has given up on it.  A
\* connected wallet closes the choice of wallets, and with it the screen.
Connected(c) ==
    /\ usable /\ c.for = "connect"
    /\ connector' = [connector EXCEPT !.address = c.account]
    /\ calls' = {[d EXCEPT !.late = TRUE] : d \in calls \ {c}}
    /\ seeker' = Closed
    /\ UNCHANGED <<usable, mounts>>

Disconnect ==
    /\ connector.address # NoAddress
    /\ connector' = [address |-> NoAddress, index |-> 0]
    /\ UNCHANGED <<usable, mounts, seeker, calls>>

HardwareNext ==
    \/ Handle \/ OpenSeeker \/ Poll \/ ListNext \/ Connect \/ Back \/ Disconnect
    \/ \E i \in Index : Select(i)
    \/ \E c \in calls : Expire(c) \/ Refused(c) \/ Found(c) \/ Listed(c) \/ Connected(c)

HardwareSpec == HardwareInit /\ [][HardwareNext]_hwVars

\* Timers and intervals of the window fire; whether the device ever answers is
\* open.
HardwareFairness ==
    /\ WF_hwVars(\E c \in calls : Expire(c))
    /\ WF_hwVars(Poll)
    /\ WF_hwVars(ListNext)
-----------------------------------------------------------------------------
(* Types.                                                                     *)
HardwareTypeOK ==
    /\ usable \in BOOLEAN /\ mounts \in 0..MaxScreens
    /\ calls \subseteq Call
    /\ connector.index \in Index /\ connector.address \in Index \cup {NoAddress}
    /\ seeker.listed \subseteq Index /\ seeker.next \in Index /\ seeker.selected \in Index
    /\ seeker.connecting => seeker.phase = "account-select" /\ ~seeker.loading

\* A screen waits for one call at a time, and knows of it: no tick, account or
\* connection is started beside another that has not been given up.
OneCallAtATime == Cardinality(Waited) <= 1 /\ (seeker.open => (seeker.busy <=> Waited # {}))

\* While the list is being read nothing else of the screen uses the device, so
\* no account is passed over; a list read to its end has them all.
ListFindsItFree ==
    seeker.open /\ seeker.loading =>
        /\ \A c \in Waited : c.for = "list"
        /\ seeker.listed = 0..(seeker.next - 1)

\* The account that signs is the one whose address the app shows, until a
\* connection the user had given up on comes about after all.
SignerIsShown == connector.address # NoAddress => connector.index = connector.address
OnlyLateAnswersMislead ==
    [][SignerIsShown /\ ~SignerIsShown' =>
          \E c \in calls : c.late /\ c.for = "connect" /\ connector'.address = c.account]_hwVars

\* A connection ends for the user whether or not the device ever answers.
ButtonReturns == []<>(~seeker.connecting \/ ~seeker.open)

\* A call that hangs does not end the search for the device.
SearchGoesOn ==
    []<>(~seeker.open \/ seeker.phase # "detecting" \/ ~seeker.busy)

\* With calls that are given up but go on: one call is waited for at a time, the
\* list is read undisturbed, and another account than the one shown signs only after
\* a late answer (ConnectLedger.tsx).
HardwareCorrect ==
    /\ [](HardwareTypeOK /\ OneCallAtATime /\ ListFindsItFree)
    /\ OnlyLateAnswersMislead
=============================================================================
