--------------------------- MODULE IdentityCreation ---------------------------
(***************************************************************************)
(* What the Desktop shows of an identity, and the form that creates one.    *)
(* App.tsx chooses the screen by the wallet, the network, the username read *)
(* on chain and the one kept in localStorage.  The form asks the wallet for *)
(* a consent signature and, one after the other, for the transactions that  *)
(* register the identity (1), deploy its smart account (2) and fund it (3). *)
(* The read of the username is shared by both: what it returns decides      *)
(* whether the form is there at all, and a form that is gone forgets its    *)
(* step, while a request it made of the wallet goes on.                     *)
(*                                                                         *)
(* One wallet; others only take names.  The effects of React run within the *)
(* action that triggers them.                                               *)
(***************************************************************************)
EXTENDS Naturals, WalletWrite

CONSTANTS
    Usernames,
    MaxFunding      \* bound: transactions that fund the account

ASSUME CreationAssumption == "none" \notin Usernames /\ MaxFunding \in Nat

VARIABLES
    nameOf,         \* getUsernameByController of the wallet's account
    taken,          \* usernames others registered
    deployed, funded,
    connected, onBase,
    query,          \* the read of the username: "loading", "error" or "read"
    onChainUsername,\* what it last returned
    storedUsername, \* localStorage
    createForm,
    late,           \* requests whose form is gone: set of [tx, arg, hook]
    vaultKeyDerived

chainIdVars == <<nameOf, taken, deployed, funded>>
gateVars == <<connected, onBase, query, onChainUsername, storedUsername>>
creationVars == <<chainIdVars, gateVars, createForm, late, vaultKeyDerived>>

Steps == 1..3
Maybe(S) == S \cup {"none"}
NewForm == [username |-> "none", step |-> 0, consent |-> "idle", consented |-> "none",
            sent |-> "none", tx |-> [k \in Steps |-> "idle"]]

LoadingIdentity == connected /\ onBase /\ query = "loading" /\ storedUsername = "none"
CreateShown ==
    connected /\ onBase /\ ~LoadingIdentity /\ onChainUsername = "none" /\ storedUsername = "none"

FormPending == createForm.consent = "pending" \/ \E k \in Steps : Busy(createForm.tx[k])

CreationInit ==
    /\ nameOf = "none" /\ taken = {} /\ deployed = FALSE /\ funded = 0
    /\ connected = FALSE /\ onBase = TRUE
    /\ query = "loading" /\ onChainUsername = "none" /\ storedUsername = "none"
    /\ createForm = NewForm /\ late = {} /\ vaultKeyDerived = FALSE
-----------------------------------------------------------------------------

\* The form is unmounted with the screen it is on; the requests it made are not.
Remounted ==
    IF CreateShown' THEN UNCHANGED <<createForm, late>>
    ELSE /\ createForm' = NewForm
         /\ late' = late \cup {[tx |-> k, arg |-> createForm.sent, hook |-> createForm.tx[k]] :
                                  k \in {j \in Steps : Busy(createForm.tx[j])}}

\* The effect on onChainUsername.
SaveUsername(name) == storedUsername' = IF name # "none" THEN name ELSE storedUsername

ConnectIdentity ==
    /\ ~connected /\ connected' = TRUE /\ onBase' \in BOOLEAN
    /\ SaveUsername(onChainUsername)
    /\ UNCHANGED <<query, onChainUsername>> /\ Remounted
    /\ UNCHANGED <<chainIdVars, vaultKeyDerived>>

SwitchNetwork ==
    /\ connected /\ onBase' = ~onBase
    /\ UNCHANGED <<connected, query, onChainUsername, storedUsername>> /\ Remounted
    /\ UNCHANGED <<chainIdVars, vaultKeyDerived>>

\* disconnect() alone, or handleLogout.
Disconnect ==
    /\ connected /\ connected' = FALSE
    /\ storedUsername' \in {storedUsername, "none"}
    /\ UNCHANGED <<onBase, query, onChainUsername>> /\ Remounted
    /\ UNCHANGED <<chainIdVars, vaultKeyDerived>>

\* The first read, the retry button, invalidateQueries and the reads of a window
\* that is focused.
ReadUsername ==
    /\ connected /\ onBase
    /\ \/ query' = "error" /\ UNCHANGED <<onChainUsername, storedUsername>>
       \/ query' = "read" /\ onChainUsername' = nameOf /\ SaveUsername(nameOf)
    /\ UNCHANGED <<connected, onBase>> /\ Remounted
    /\ UNCHANGED <<chainIdVars, vaultKeyDerived>>

TakeUsername(n) ==
    /\ n # nameOf /\ n \notin taken /\ taken' = taken \cup {n}
    /\ UNCHANGED <<nameOf, deployed, funded, gateVars, createForm, late, vaultKeyDerived>>
-----------------------------------------------------------------------------
\* Slip: the field stays enabled while the wallet is asked.
EditAlways(n) ==
    /\ CreateShown /\ createForm' = [createForm EXCEPT !.username = n]
    /\ UNCHANGED <<chainIdVars, gateVars, late, vaultKeyDerived>>

EditUsername(n) ==
    /\ CreateShown /\ ~FormPending
    /\ createForm' = [createForm EXCEPT !.username = n] /\ createForm' # createForm
    /\ UNCHANGED <<chainIdVars, gateVars, late, vaultKeyDerived>>

\* isTaken is undefined until it is read, so a name that is taken may be submitted.
SubmitIdentity ==
    /\ CreateShown /\ createForm.step = 0 /\ createForm.username # "none" /\ ~FormPending
    /\ createForm' = [createForm EXCEPT !.step = 1, !.consent = "pending", !.consented = createForm.username]
    /\ UNCHANGED <<chainIdVars, gateVars, late, vaultKeyDerived>>

\* The signature brings step 2, whose effect asks for the first transaction.
AnswerConsent ==
    /\ createForm.consent = "pending"
    /\ \/ createForm' = [createForm EXCEPT !.consent = "error"]
       \/ createForm' = [createForm EXCEPT !.consent = "success", !.step = 2, !.sent = createForm.username,
                                           !.tx[1] = "pending"]
    /\ UNCHANGED <<chainIdVars, gateVars, late, vaultKeyDerived>>

AnswerCreation(k) ==
    /\ IsPending(createForm.tx[k])
    /\ \E a \in WalletAnswers : createForm' = [createForm EXCEPT !.tx[k] = a]
    /\ UNCHANGED <<chainIdVars, gateVars, late, vaultKeyDerived>>

\* The registry asks for the consent to this very name.
Registers(name, consented) == name = consented /\ name \notin taken /\ nameOf = "none"

\* What a mined transaction does to the chain.
Effect(k, name, consented) ==
    CASE k = 1 -> IF Registers(name, consented) THEN nameOf' = name /\ UNCHANGED <<deployed, funded>>
                  ELSE UNCHANGED <<nameOf, deployed, funded>>
      [] k = 2 -> deployed' = TRUE /\ UNCHANGED <<nameOf, funded>>
      [] k = 3 -> funded' = funded + 1 /\ UNCHANGED <<nameOf, deployed>>

\* Step k + 1, whose effect asks for the next transaction.
AskNext(f, k) == IF k = 3 THEN f ELSE [f EXCEPT !.step = k + 2, !.tx[k + 1] = "pending"]

\* Nothing looks at a receipt that says "reverted".
MineCreation(k) ==
    /\ IsConfirming(createForm.tx[k]) /\ (k = 3 => funded < MaxFunding)
    /\ Effect(k, createForm.sent, createForm.consented)
    /\ createForm' = IF k > 1 \/ Registers(createForm.sent, createForm.consented)
                     THEN AskNext([createForm EXCEPT !.tx[k] = "success"], k)
                     ELSE [createForm EXCEPT !.tx[k] = "reverted"]
    /\ UNCHANGED <<taken, gateVars, late, vaultKeyDerived>>

RetryCreation ==
    \E k \in {2, 3} :
        /\ CreateShown /\ createForm.step = k + 1 /\ IsError(createForm.tx[k])
        /\ createForm' = [createForm EXCEPT !.tx[k] = "pending"]
        /\ UNCHANGED <<chainIdVars, gateVars, late, vaultKeyDerived>>

\* Of a form that is gone.
LateAnswer(r) ==
    /\ r.hook = "pending"
    /\ \E a \in WalletAnswers :
          late' = (late \ {r}) \cup (IF a = "error" THEN {} ELSE {[r EXCEPT !.hook = a]})
    /\ UNCHANGED <<chainIdVars, gateVars, createForm, vaultKeyDerived>>

LateMine(r) ==
    /\ r.hook = "confirming" /\ late' = late \ {r} /\ (r.tx = 3 => funded < MaxFunding)
    /\ Effect(r.tx, r.arg, r.arg)
    /\ UNCHANGED <<taken, gateVars, createForm, vaultKeyDerived>>

\* The success card, while the username has not been read again.
SetUpVaultKey ==
    /\ CreateShown /\ IsSuccess(createForm.tx[3]) /\ ~vaultKeyDerived
    /\ vaultKeyDerived' = TRUE
    /\ UNCHANGED <<chainIdVars, gateVars, createForm, late>>

CreationNext ==
    \/ ConnectIdentity \/ SwitchNetwork \/ Disconnect \/ ReadUsername
    \/ \E n \in Usernames : TakeUsername(n) \/ EditUsername(n)
    \/ SubmitIdentity \/ AnswerConsent \/ RetryCreation \/ SetUpVaultKey
    \/ \E k \in Steps : AnswerCreation(k) \/ MineCreation(k)
    \/ \E r \in late : LateAnswer(r) \/ LateMine(r)

CreationSpec == CreationInit /\ [][CreationNext]_creationVars
-----------------------------------------------------------------------------
(* Types.                                                                     *)
CreationTypeOK ==
    /\ nameOf \in Maybe(Usernames) /\ taken \subseteq Usernames
    /\ deployed \in BOOLEAN /\ funded \in 0..MaxFunding
    /\ {connected, onBase, vaultKeyDerived} \subseteq BOOLEAN
    /\ query \in {"loading", "error", "read"}
    /\ {onChainUsername, storedUsername, createForm.username} \subseteq Maybe(Usernames)
    /\ createForm.step \in 0..4 /\ \A k \in Steps : createForm.tx[k] \in HookState
    /\ createForm = NewForm \/ CreateShown

\* A name is registered with the consent given to that very name, whatever is
\* typed while the wallet is asked (the field is disabled meanwhile).
ConsentIsForTheName == createForm.tx[1] # "idle" => createForm.sent = createForm.consented

\* Money is only asked for an account that is deployed: a transfer to an address
\* without code would cost the wallet its only check that the account is there.
FundsWaitForTheAccount ==
    (\/ createForm.tx[3] # "idle" \/ funded > 0 \/ \E r \in late : r.tx = 3) => deployed

\* A name kept by the screen was read on chain, not typed: a registration that
\* fails leaves no trace of its name.
StoredNameIsOwned == storedUsername # "none" => storedUsername = nameOf

\* The account is funded once, however often the step is retried.
FundedOnceOnly == funded <= 1

\* What the form does not ensure (refuted by TLC).

\* An identity whose account is not deployed keeps the form that deploys it.
IdentityKeepsItsForm ==
    nameOf # "none" /\ ~deployed /\ connected /\ onBase /\ (\A r \in late : r.tx # 2)
        => createForm.step >= 3

\* Whatever the wallet refuses and whenever the form is left: the consent is for
\* the name, the money waits for the account and is sent once, and the name that
\* is kept was read on chain (CreateIdentity.tsx).
CreationCorrect ==
    /\ CreationTypeOK /\ ConsentIsForTheName /\ FundsWaitForTheAccount
    /\ StoredNameIsOwned /\ FundedOnceOnly
=============================================================================
