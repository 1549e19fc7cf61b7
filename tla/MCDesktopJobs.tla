---------------------------- MODULE MCDesktopJobs ----------------------------
(* The screens of the Desktop that start work which goes on without the      *)
(* user: uploads, the scan of the account's activity, the reveal of a        *)
(* pairing, the rotation of the vault key and the connection of a hardware   *)
(* wallet.                                                                   *)
(* They keep their state apart (the React state of their own components), so *)
(* one of them moves.                                                        *)
EXTENDS VaultScreen, ActivityScan, DevicePairing, KeyRotation, HardwareWallet

VARIABLE screen

jobVars == <<screen, screenVars, scanVars, pairVars, rotVars, hwVars>>

\* What is not explored starts in one of its initial states.
JobsInit ==
    /\ screen \in {"vault", "activity", "pairing", "rotation", "hardware"}
    /\ ScreenInit /\ ScanInit /\ PairInit /\ RotInit
    /\ HardwareInit
    /\ screen # "activity" => head = 1
    /\ screen # "pairing" => card = "phone"
    /\ screen # "rotation" => signers = Registrable
    /\ screen # "hardware" => usable

JobsNext ==
    /\ UNCHANGED screen
    /\ \/ screen = "vault" /\ ScreenNext /\ UNCHANGED <<scanVars, pairVars, rotVars, hwVars>>
       \/ screen = "activity" /\ ScanNext /\ UNCHANGED <<screenVars, pairVars, rotVars, hwVars>>
       \/ screen = "pairing" /\ PairNext /\ UNCHANGED <<screenVars, scanVars, rotVars, hwVars>>
       \/ screen = "rotation" /\ RotNext /\ UNCHANGED <<screenVars, scanVars, pairVars, hwVars>>
       \/ screen = "hardware" /\ HardwareNext /\ UNCHANGED <<screenVars, scanVars, pairVars, rotVars>>

JobsSpec == JobsInit /\ [][JobsNext]_jobVars

\* None of these steps is enabled in the initial states, where the screens that
\* are not explored stay.
FairJobsSpec ==
    /\ JobsSpec /\ ScreenFairness /\ ScanFairness /\ PairFairness /\ RotFairness
    /\ HardwareFairness

\* What the user waits for ends, through failures, timeouts and screens that come and
\* go: the publish buttons return, the scan's spinner stops, a reveal follows its
\* commitment, a rotation answers, and neither the connect button nor the search for a
\* hardware wallet hangs (the components of the five screens).
JobsProceed ==
    /\ ButtonsReturn /\ SpinnerStops /\ RevealFollows /\ RotationAnswers
    /\ ButtonReturns /\ SearchGoesOn
=============================================================================
