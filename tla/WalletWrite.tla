----------------------------- MODULE WalletWrite -----------------------------
(***************************************************************************)
(* A pair of wagmi's useWriteContract and useWaitForTransactionReceipt, as   *)
(* the screens of the Desktop use them: the state one such pair is in.  The  *)
(* wallet may refuse, or never answer; a transaction it sent may revert, or  *)
(* never be mined.  isError is about the wallet's answer only: a receipt     *)
(* that says "reverted" makes neither isError nor isSuccess true.            *)
(***************************************************************************)

HookState == {"idle", "pending", "error", "confirming", "success", "reverted"}

IsPending(h) == h = "pending"
IsError(h) == h = "error"
IsConfirming(h) == h = "confirming"
IsSuccess(h) == h = "success"
HasHash(h) == h \in {"confirming", "success", "reverted"}
Busy(h) == h \in {"pending", "confirming"}

\* What the wallet may answer a request.
WalletAnswers == {"error", "confirming"}
=============================================================================
