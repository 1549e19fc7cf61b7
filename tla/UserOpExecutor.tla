--------------------------- MODULE UserOpExecutor ---------------------------
(* executeViaUserOp: how a Desktop has the smart account make a call, signed *)
(* with its device key and without the wallet.  It reads the account's nonce *)
(* and a gas price, has the gas estimated for an operation it has signed     *)
(* once, signs it again with that gas, hands it to the bundler and asks for   *)
(* the receipt a bounded number of times.  Any of these may fail.             *)
(* Several devices of one account do so at any time, and one device twice at *)
(* once (a publication beside a sign request): nothing excludes it.  Nonces   *)
(* are those of key 0 of the EntryPoint.                                      *)
EXTENDS Naturals, FiniteSets

CONSTANTS OpDevice,     \* device keys of the account
          MaxExecs,     \* bound: executions
          MaxPolls      \* RECEIPT_POLL_MAX_ATTEMPTS

ASSUME OpsAssumption == OpDevice # {} /\ MaxExecs \in Nat /\ MaxPolls \in Nat \ {0}

VARIABLES keysTaken,    \* devices the account takes operations of
          chainNonce,   \* the EntryPoint's nonce of the account
          op,           \* each execution: see Blank
          pool,         \* executions whose operation the bundler holds
          outcome,      \* what became of each operation on the chain
          told,         \* what the caller of each execution was told
          seen          \* history: operations executed when each read its nonce

opsVars == <<keysTaken, chainNonce, op, pool, outcome, told, seen>>

Exec == 1 .. MaxExecs

\* The signature covers the gas; "blank" is the one with 65 zero bytes.
Gas == {"zero", "short", "full"}
Blank == [stage |-> "idle", by |-> CHOOSE d \in OpDevice : TRUE, nonce |-> 0,
          gas |-> "zero", signed |-> "blank", polls |-> 0]

OpsInit ==
    /\ keysTaken = OpDevice /\ chainNonce = 0
    /\ op = [x \in Exec |-> Blank]
    /\ pool = {}
    /\ outcome = [x \in Exec |-> "none"] /\ told = [x \in Exec |-> "nothing"]
    /\ seen = [x \in Exec |-> {}]

Mined == {x \in Exec : outcome[x] # "none"}
In(x, stage) == op[x].stage = stage
Goes(x, o) == op' = [op EXCEPT ![x] = o]
Ends(x, what) ==
    /\ Goes(x, [op[x] EXCEPT !.stage = "over"])
    /\ told' = [told EXCEPT ![x] = what]

StartExecution(d) ==
    \E x \in Exec :
        /\ In(x, "idle") /\ \A y \in 1 .. x - 1 : ~In(y, "idle")
        /\ Goes(x, [Blank EXCEPT !.stage = "reading", !.by = d])
        /\ UNCHANGED <<keysTaken, chainNonce, pool, outcome, told, seen>>

NextOpNonce == chainNonce

\* getNonce of the Promise.all.
ReadNonce(x) ==
    /\ In(x, "reading")
    /\ Goes(x, [op[x] EXCEPT !.stage = "pricing", !.nonce = NextOpNonce])
    /\ seen' = [seen EXCEPT ![x] = Mined]
    /\ UNCHANGED <<keysTaken, chainNonce, pool, outcome, told>>

SignForEstimate(o) == [o EXCEPT !.signed = o.gas]

\* The other half, and the signature the estimate needs.
ReadGasPrice(x) ==
    /\ In(x, "pricing")
    /\ Goes(x, [SignForEstimate(op[x]) EXCEPT !.stage = "estimating"])
    /\ UNCHANGED <<keysTaken, chainNonce, pool, outcome, told, seen>>

\* A validation without a signature ends before the device is looked up.
Estimated(o) == IF o.signed = "blank" THEN "short" ELSE "full"
Validates(o) == o.by \in keysTaken /\ o.nonce = chainNonce

Estimate(x) ==
    /\ In(x, "estimating")
    /\ op[x].signed = "blank" \/ Validates(op[x])
    /\ LET gas == Estimated(op[x])
       IN Goes(x, [op[x] EXCEPT !.stage = "sending", !.gas = gas, !.signed = gas])
    /\ UNCHANGED <<keysTaken, chainNonce, pool, outcome, told, seen>>

\* The bundler takes what validates.  Of two operations with one nonce it may
\* keep either.
Send(x) ==
    /\ In(x, "sending")
    /\ Validates(op[x]) /\ op[x].gas = "full" /\ op[x].signed = op[x].gas
    /\ Goes(x, [op[x] EXCEPT !.stage = "polling"])
    /\ pool' = {y \in pool : op[y].nonce # op[x].nonce} \union {x}
    /\ UNCHANGED <<keysTaken, chainNonce, outcome, told, seen>>

\* Without a receipt success is false, which the publication reports so.
NoReceipt == "reverted"
ReportMined(x) == IF outcome[x] # "none" THEN "done" ELSE "reverted"
ReportOf(x) == IF outcome[x] = "success" THEN "done" ELSE "reverted"

NeverOver(polls) == FALSE
PollsOver(polls) == polls + 1 = MaxPolls

\* One turn of waitForReceipt.
AskReceipt(x) ==
    /\ In(x, "polling")
    /\ \/ /\ outcome[x] # "none" /\ Ends(x, ReportOf(x))
       \/ /\ outcome[x] = "none" /\ PollsOver(op[x].polls) /\ Ends(x, NoReceipt)
       \/ /\ outcome[x] = "none" /\ ~PollsOver(op[x].polls)
          /\ Goes(x, [op[x] EXCEPT !.polls = (@ + 1) % MaxPolls])
          /\ UNCHANGED told
    /\ UNCHANGED <<keysTaken, chainNonce, pool, outcome, seen>>

\* A call is refused or fails: the caller gets the error.
ExecutionFails(x) ==
    /\ op[x].stage \notin {"idle", "over"}
    /\ Ends(x, "error")
    /\ UNCHANGED <<keysTaken, chainNonce, pool, outcome, seen>>

\* The bundler has the operation executed, or forgets it.
Mine(x) ==
    /\ x \in pool /\ Validates(op[x])
    /\ \E what \in {"success", "failure"} : outcome' = [outcome EXCEPT ![x] = what]
    /\ chainNonce' = chainNonce + 1
    /\ pool' = pool \ {x}
    /\ UNCHANGED <<keysTaken, op, told, seen>>

ForgetOp(x) ==
    /\ x \in pool /\ pool' = pool \ {x}
    /\ UNCHANGED <<keysTaken, chainNonce, op, outcome, told, seen>>

RevokeKey(d) ==
    /\ d \in keysTaken /\ keysTaken' = keysTaken \ {d}
    /\ UNCHANGED <<chainNonce, op, pool, outcome, told, seen>>

\* A step of executeViaUserOp: a call returns or fails.
ExecStep(x) ==
    \/ ReadNonce(x) \/ ReadGasPrice(x) \/ Estimate(x) \/ Send(x)
    \/ AskReceipt(x) \/ ExecutionFails(x)

OpsNext ==
    \/ \E d \in OpDevice : StartExecution(d) \/ RevokeKey(d)
    \/ \E x \in Exec : ExecStep(x) \/ Mine(x) \/ ForgetOp(x)

\* Every call ends, and the timer of the receipt's loop runs.
OpsFairness == \A x \in Exec : WF_opsVars(ExecStep(x))

OpsSpec == OpsInit /\ [][OpsNext]_opsVars /\ OpsFairness
-----------------------------------------------------------------------------
(* Type invariant: every execution is at a line of executeViaUserOp, and the  *)
(* nonce counts the operations that were executed.                           *)
OpsTypeOK ==
    /\ keysTaken \subseteq OpDevice
    /\ op \in [Exec -> [stage : {"idle", "reading", "pricing", "estimating", "sending",
                                 "polling", "over"},
                        by : OpDevice, nonce : 0 .. chainNonce, gas : Gas,
                        signed : Gas \union {"blank"}, polls : 0 .. MaxPolls - 1]]
    /\ pool \subseteq Exec \ Mined
    /\ outcome \in [Exec -> {"none", "success", "failure"}]
    /\ told \in [Exec -> {"nothing", "done", "reverted", "error"}]
    /\ chainNonce = Cardinality(Mined)

(* A caller who is told of success has had the call made, however the         *)
(* bundler, a revocation and the other executions interfere.                  *)
DoneWasExecuted == \A x \in Exec : told[x] = "done" => outcome[x] = "success"

(* A second attempt that read the nonce while the first was pending is never *)
(* executed beside it: of two executed operations one had seen the other.     *)
SecondSawTheFirst ==
    \A x, y \in Mined : x # y => x \in seen[y] \/ y \in seen[x]

(* What is sent carries a signature of its own gas, estimated with a          *)
(* signature that took the validation as far as the device.                   *)
SentIsSignedAndCovered ==
    \A x \in Exec : op[x].stage \in {"sending", "polling"} =>
        op[x].gas = "full" /\ op[x].signed = "full"

(* An execution ends, with the bundler forgetting the operation or not.       *)
ExecutionEnds == \A x \in Exec : In(x, "reading") ~> In(x, "over")

-----------------------------------------------------------------------------
(* What the callers take for granted and the model refutes: an operation that *)
(* was reported as reverted, or failed with an error, does nothing later.     *)
(* The loop ends while the operation is pending, and so does a failing poll.  *)
RevertedDoesNothing == \A x \in Exec : told[x] = "reverted" => outcome[x] # "success"
ErrorDoesNothing == \A x \in Exec : told[x] = "error" => outcome[x] # "success"

\* Whatever the bundler forgets or delays: success is said of a call that was made,
\* a retry had seen what was pending, and what is sent is signed for its own gas
\* (userOpExecutor.ts).
OpsCorrect == OpsTypeOK /\ DoneWasExecuted /\ SecondSawTheFirst /\ SentIsSignedAndCovered
=============================================================================
