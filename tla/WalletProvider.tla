----------------------------- MODULE WalletProvider -----------------------------
(***************************************************************************)
(* What the app asks of a connected wallet: to sign a message or to send a  *)
(* transaction.  Each connector without WalletConnect remembers the address *)
(* it connected (and, for a hardware wallet, the index of its account) and  *)
(* hands wagmi a provider that reads both when it needs them: the address   *)
(* when the request arrives, the index when the signature is asked for.     *)
(* Between pressing a button and those two reads the user may log out and   *)
(* connect another account.  viem fills in the nonce and sends what was     *)
(* signed, through whichever of several public nodes answers: one may not   *)
(* have seen what another has accepted, and a reply may be lost.            *)
(***************************************************************************)
EXTENDS Naturals, FiniteSets

CONSTANTS
    HardwareAccounts,   \* accounts of the hardware wallet, 0 among them
    LocalAccount,       \* account of the key kept by the Desktop
    Unset,              \* null
    Asks,               \* bound: requests of the app
    MaxLogouts          \* bound

ASSUME ProviderAssumption ==
    /\ 0 \in HardwareAccounts /\ LocalAccount \notin HardwareAccounts
    /\ Unset \notin HardwareAccounts \cup {LocalAccount}
    /\ IsFiniteSet(Asks) /\ MaxLogouts \in Nat

VARIABLES
    current,    \* wagmi's connector, "none" without one
    cached,     \* connector -> cachedAddress, cachedAccountIndex
    asks,       \* the requests
    pool,       \* nonces of transactions that a node has accepted and that are not mined
    mined,      \* account -> its transactions on the chain
    logouts

providerVars == <<current, cached, asks, pool, mined, logouts>>

Accounts == HardwareAccounts \cup {LocalAccount}
Connector == {"hardware", "local"}
NotAsked == [phase |-> "none", wants |-> "send", of |-> "hardware", asked |-> Unset, from |-> Unset,
             nonce |-> 0, behind |-> FALSE, by |-> Unset, left |-> FALSE, alone |-> TRUE]
UnderWay(r) == asks[r].phase \in {"pressed", "received", "prepared", "signing", "signed"}

ProviderInit ==
    /\ current = "none"
    /\ cached = [w \in Connector |-> [address |-> Unset, index |-> 0]]
    /\ asks = [r \in Asks |-> NotAsked]
    /\ pool = {} /\ mined = [a \in Accounts |-> 0] /\ logouts = 0
-----------------------------------------------------------------------------

HardwareConnected(i) == [cached EXCEPT !["hardware"] = [address |-> i, index |-> i]]

ConnectHardware(i) ==
    /\ current = "none" /\ current' = "hardware" /\ cached' = HardwareConnected(i)
    /\ UNCHANGED <<asks, pool, mined, logouts>>

ConnectLocal ==
    /\ current = "none" /\ current' = "local"
    /\ cached' = [cached EXCEPT !["local"].address = LocalAccount]
    /\ UNCHANGED <<asks, pool, mined, logouts>>

\* disconnect, onDisconnect.  Requests under way are not told.
LogOut ==
    /\ current # "none" /\ logouts < MaxLogouts
    /\ cached' = [cached EXCEPT ![current] = [address |-> Unset, index |-> 0]]
    /\ current' = "none" /\ logouts' = logouts + 1
    /\ asks' = [r \in Asks |-> IF UnderWay(r) /\ asks[r].of = current
                                THEN [asks[r] EXCEPT !.left = TRUE] ELSE asks[r]]
    /\ UNCHANGED <<pool, mined>>
-----------------------------------------------------------------------------
\* A button of a screen; wagmi makes a client for the connected account.
PressButton(r, wants) ==
    /\ asks[r].phase = "none" /\ current # "none"
    /\ LET others == {s \in Asks : wants = "send" /\ UnderWay(s) /\ asks[s].wants = "send"} IN
          asks' = [s \in Asks |->
              IF s = r THEN [NotAsked EXCEPT !.phase = "pressed", !.wants = wants, !.of = current,
                                             !.asked = cached[current].address, !.alone = others = {}]
              ELSE IF s \in others THEN [asks[s] EXCEPT !.alone = FALSE] ELSE asks[s]]
    /\ UNCHANGED <<current, cached, pool, mined, logouts>>

NotConnected(r) ==
    /\ asks[r].phase = "pressed" /\ cached[asks[r].of].address = Unset
    /\ asks' = [asks EXCEPT ![r].phase = "failed"]
    /\ UNCHANGED <<current, cached, pool, mined, logouts>>

\* eth_sendTransaction: the sender is whoever is connected now.
Receive(r) ==
    /\ asks[r].phase = "pressed" /\ asks[r].wants = "send" /\ cached[asks[r].of].address # Unset
    /\ asks' = [asks EXCEPT ![r].phase = "received", ![r].from = cached[asks[r].of].address]
    /\ UNCHANGED <<current, cached, pool, mined, logouts>>

\* Slip: the nonce leaves out what waits to be mined.
NextNonceLatest(a) == mined[a]

NextNonce(a) == mined[a] + Cardinality({t \in pool : t.by = a})

\* viem asks for the nonce of the sender, and for fees and gas.  The node that
\* answers may be behind, or none answers.
PrepareTransaction(r) ==
    /\ asks[r].phase = "received"
    /\ \/ \E n \in 0..NextNonce(asks[r].from) :
             asks' = [asks EXCEPT ![r].phase = "prepared", ![r].nonce = n,
                                  ![r].behind = n < NextNonce(asks[r].from)]
       \/ asks' = [asks EXCEPT ![r].phase = "failed"]
    /\ UNCHANGED <<current, cached, pool, mined, logouts>>

SignerOf(w) == IF w = "local" THEN LocalAccount ELSE cached[w].index

\* signTransaction of the connector, or personal_sign straight away.
CallSigner(r) ==
    /\ \/ asks[r].phase = "prepared"
       \/ asks[r].phase = "pressed" /\ asks[r].wants = "sign" /\ cached[asks[r].of].address # Unset
    /\ asks' = [asks EXCEPT ![r].phase = "signing", ![r].by = SignerOf(asks[r].of)]
    /\ UNCHANGED <<current, cached, pool, mined, logouts>>

SignerRefuses(r) ==
    /\ asks[r].phase = "signing"
    /\ asks' = [asks EXCEPT ![r].phase = "failed"]
    /\ UNCHANGED <<current, cached, pool, mined, logouts>>

SignerSigns(r) ==
    /\ asks[r].phase = "signing"
    /\ asks' = [asks EXCEPT ![r].phase = IF asks[r].wants = "send" THEN "signed" ELSE "answered"]
    /\ UNCHANGED <<current, cached, pool, mined, logouts>>

Taken(r) == asks[r].nonce < mined[asks[r].by] \/ [by |-> asks[r].by, nonce |-> asks[r].nonce] \in pool

\* eth_sendRawTransaction.  A transaction may be accepted though every reply is
\* lost, and the next node asked says that it knows it: the app is told of a
\* failure.  A nonce can be used once: a second transaction with it is refused, or
\* accepted by a node that is behind, and one of the two is never mined.
Broadcast(r) ==
    /\ asks[r].phase = "signed"
    /\ \/ /\ ~Taken(r)
          /\ \E told \in {"answered", "lost"} : asks' = [asks EXCEPT ![r].phase = told]
          /\ pool' = pool \cup {[by |-> asks[r].by, nonce |-> asks[r].nonce]}
       \/ /\ Taken(r)
          /\ asks' = [asks EXCEPT ![r].phase = "clashed"]
          /\ UNCHANGED pool
       \/ /\ asks' = [asks EXCEPT ![r].phase = "failed"]    \* no node had it
          /\ UNCHANGED pool
    /\ UNCHANGED <<current, cached, mined, logouts>>

Mine(a) ==
    /\ [by |-> a, nonce |-> mined[a]] \in pool
    /\ pool' = pool \ {[by |-> a, nonce |-> mined[a]]}
    /\ mined' = [mined EXCEPT ![a] = @ + 1]
    /\ UNCHANGED <<current, cached, asks, logouts>>

ProviderNext ==
    \/ \E i \in HardwareAccounts : ConnectHardware(i)
    \/ ConnectLocal \/ LogOut
    \/ \E r \in Asks :
          \/ \E wants \in {"send", "sign"} : PressButton(r, wants)
          \/ NotConnected(r) \/ Receive(r) \/ PrepareTransaction(r) \/ CallSigner(r)
          \/ SignerRefuses(r) \/ SignerSigns(r) \/ Broadcast(r)
    \/ \E a \in Accounts : Mine(a)

ProviderSpec == ProviderInit /\ [][ProviderNext]_providerVars
-----------------------------------------------------------------------------
(* Types.                                                                     *)
ProviderTypeOK ==
    /\ current \in Connector \cup {"none"}
    /\ \A w \in Connector : current = w <=> cached[w].address # Unset
    /\ \A r \in Asks : asks[r].by \in Accounts \cup {Unset} /\ asks[r].nonce \in 0..Cardinality(Asks)
    /\ \A t \in pool : t.by \in Accounts /\ t.nonce >= mined[t.by]

\* The account that pressed the button is the account that signs, unless it
\* logged out while the request was under way.
SignedByWhoAsked == \A r \in Asks : asks[r].by \in {Unset, asks[r].asked} \/ asks[r].left

\* A request that outlived a logout was signed by this account, with a nonce that
\* may be another one's.
Strayed(a) == \E r \in Asks : asks[r].left /\ asks[r].by = a

\* A transaction with a nonce that another has taken was sent together with another,
\* was given the nonce by a node that was behind, or is of an account of which a
\* request outlived a logout.  Failures, lost replies among them, and the requests
\* made after them are no reason.
ClashNeedsCompany ==
    \A r \in Asks : asks[r].phase = "clashed" => ~asks[r].alone \/ asks[r].behind \/ Strayed(asks[r].by)

\* Every accepted transaction can be mined in its turn: none waits behind a
\* nonce nobody uses, whatever the nodes have seen, unless its account logged out
\* meanwhile.
NothingWaitsForever ==
    \A t \in pool : Strayed(t.by) \/ \A n \in mined[t.by]..t.nonce : [by |-> t.by, nonce |-> n] \in pool

\* The signer is read when the request arrives, as the sender is (refuted: a
\* transaction of one account is signed by account 0 after a logout, or by the
\* next account connected).
SignerIsSender == \A r \in Asks : asks[r].by # Unset /\ asks[r].wants = "send" => asks[r].by = asks[r].from

\* Requests sent one after the other do not clash (refuted: the second is given its
\* nonce by a node that has not seen the first).
OnlyTogetherClash == \A r \in Asks : asks[r].phase = "clashed" => ~asks[r].alone \/ Strayed(asks[r].by)

\* While the user logs out and connects again, nodes are behind and replies are
\* lost: the account that was asked signs, transactions clash only when they are
\* sent together or numbered by a node that is behind, and none waits behind a
\* nonce nobody uses (evmProviderShared.ts and its connectors, wagmi.ts).
ProviderCorrect ==
    /\ ProviderTypeOK /\ SignedByWhoAsked /\ ClashNeedsCompany /\ NothingWaitsForever
=============================================================================
