--------------------------- MODULE SocialRecovery ---------------------------
(***************************************************************************)
(* What social recovery promises, without usernames, flags or counters: an  *)
(* identity has one holder, a wallet holds at most one identity, and it     *)
(* passes to another wallet by the holder's will or after a quorum of the   *)
(* guardians the holder named has voted for that wallet and a delay since   *)
(* the attempt began has passed.  It passes in two steps at one instant: a  *)
(* completed attempt dismisses the guardians and settles who will take over,*)
(* and until the take-over the holder is still the holder and may act as    *)
(* one, naming guardians anew too.  RecoveryManager.tla implements it.      *)
(***************************************************************************)
EXTENDS Naturals, FiniteSets

CONSTANTS
    SRId,       \* identities
    Wallet,     \* wallets
    Guardian,   \* whom a holder may name as guardian
    Nobody,     \* the holder of an identity that does not exist yet
    Delay,      \* the timelock
    Last        \* bound: the last instant of a behaviour

VARIABLES
    holder,     \* identity -> its wallet, Nobody before it exists
    trust,      \* identity -> the guardians it named and their quorum
    attempt,    \* identity -> the recovery under way, if there is one
    passing,    \* identity -> who is about to take it over, if somebody is
    clock

srcVars == <<holder, trust, attempt, passing, clock>>

NoTrust == [guardians |-> {}, quorum |-> 0]
NoAttempt == [open |-> FALSE, target |-> Nobody, votes |-> {}, since |-> 0]
NotPassing == [on |-> FALSE, to |-> Nobody]

SocialInit ==
    /\ holder = [i \in SRId |-> Nobody]
    /\ trust = [i \in SRId |-> NoTrust]
    /\ attempt = [i \in SRId |-> NoAttempt]
    /\ passing = [i \in SRId |-> NotPassing]
    /\ clock = 1

FreeWallet(w) == \A i \in SRId : holder[i] # w

Enrol(i, w) ==
    /\ holder[i] = Nobody
    /\ FreeWallet(w)
    /\ holder' = [holder EXCEPT ![i] = w]
    /\ UNCHANGED <<trust, attempt, passing, clock>>

HandOver(i, w) ==
    /\ holder[i] # Nobody
    /\ FreeWallet(w)
    /\ holder' = [holder EXCEPT ![i] = w]
    /\ UNCHANGED <<trust, attempt, passing, clock>>

NameGuardians(i, G, q) ==
    /\ holder[i] # Nobody
    /\ ~attempt[i].open
    /\ trust' = [trust EXCEPT ![i] = [guardians |-> G, quorum |-> q]]
    /\ UNCHANGED <<holder, attempt, passing, clock>>

Begin(i, w) ==
    /\ holder[i] # Nobody
    /\ trust[i].guardians # {}
    /\ ~attempt[i].open
    /\ attempt' = [attempt EXCEPT ![i] =
          [open |-> TRUE, target |-> w, votes |-> {}, since |-> clock]]
    /\ UNCHANGED <<holder, trust, passing, clock>>

Vote(i, g) ==
    /\ attempt[i].open
    /\ g \in trust[i].guardians \ attempt[i].votes
    /\ attempt' = [attempt EXCEPT ![i].votes = @ \cup {g}]
    /\ UNCHANGED <<holder, trust, passing, clock>>

CallOff(i) ==
    /\ attempt[i].open
    /\ attempt' = [attempt EXCEPT ![i] = NoAttempt]
    /\ UNCHANGED <<holder, trust, passing, clock>>

Complete(i) ==
    /\ attempt[i].open
    /\ Cardinality(attempt[i].votes) >= trust[i].quorum
    /\ clock >= attempt[i].since + Delay
    /\ ~passing[i].on
    /\ passing' = [passing EXCEPT ![i] = [on |-> TRUE, to |-> attempt[i].target]]
    /\ trust' = [trust EXCEPT ![i] = NoTrust]
    /\ attempt' = [attempt EXCEPT ![i] = NoAttempt]
    /\ UNCHANGED <<holder, clock>>

TakeOver(i) ==
    /\ passing[i].on
    /\ FreeWallet(passing[i].to)
    /\ holder' = [holder EXCEPT ![i] = passing[i].to]
    /\ passing' = [passing EXCEPT ![i] = NotPassing]
    /\ UNCHANGED <<trust, attempt, clock>>

Tick ==
    /\ clock < Last
    /\ \A i \in SRId : ~passing[i].on
    /\ clock' = clock + 1
    /\ UNCHANGED <<holder, trust, attempt, passing>>

SocialNext ==
    \/ \E i \in SRId, w \in Wallet : Enrol(i, w) \/ HandOver(i, w) \/ Begin(i, w)
    \/ \E i \in SRId, G \in SUBSET Guardian :
          \E q \in 1..Cardinality(G) : NameGuardians(i, G, q)
    \/ \E i \in SRId, g \in Guardian : Vote(i, g)
    \/ \E i \in SRId : CallOff(i) \/ Complete(i) \/ TakeOver(i)
    \/ Tick

SocialSpec == SocialInit /\ [][SocialNext]_srcVars
=============================================================================
