--------------------------- MODULE MCDesktopDialogs ---------------------------
(* The screens of the Desktop where the user answers step by step and the    *)
(* wallet in between: the first set-up, the money of the account, sessions,  *)
(* the import of entries, the local wallet, the requests made of a connected *)
(* wallet and the password generator; and the vault that Desktop and Mobile  *)
(* edit, publish and pull.  They keep their state apart (the React state of  *)
(* their own components, the files of the vault), so one of them moves.       *)
EXTENDS IdentityCreation, AccountTransfers, SessionScreen, VaultImport, LocalWallet,
    WalletProvider, PasswordGenerator, VaultSync, TLC

CONSTANTS chA, chB, chC, draft, doc

VARIABLE screen

TwoAlphabets == <<<<chA, chB>>, <<chC>>>>
MCPinned == [x \in Draft |-> doc]

dialogVars == <<creationVars, transferVars, sessionVars, importVars, localVars, providerVars,
                genVars, syncVars>>

ItemSymmetry == Permutations(Items)

\* What is not explored starts in one of its initial states.
DialogsInit ==
    /\ screen \in {"creation", "transfers", "sessions", "import", "wallet", "provider",
                   "generator", "vault"}
    /\ CreationInit /\ TransferInit /\ SessionsInit /\ ImportInit /\ LocalInit /\ ProviderInit
    /\ GenInit /\ SyncInit
    /\ screen # "transfers" => ethOf[OldWallet] = 0 /\ walletOn = "none"
    /\ screen # "sessions" => controlledBy = "account"
    /\ screen # "import" => \A i \in Items : copies[i] = 0
    /\ screen # "generator" => options.length = 1

DialogsNext ==
    /\ UNCHANGED screen
    /\ \/ /\ screen = "creation" /\ CreationNext
          /\ UNCHANGED <<transferVars, sessionVars, importVars, localVars, providerVars,
                         genVars, syncVars>>
       \/ /\ screen = "transfers" /\ TransferNext
          /\ UNCHANGED <<creationVars, sessionVars, importVars, localVars, providerVars,
                         genVars, syncVars>>
       \/ /\ screen = "sessions" /\ SessionsNext
          /\ UNCHANGED <<creationVars, transferVars, importVars, localVars, providerVars,
                         genVars, syncVars>>
       \/ /\ screen = "import" /\ ImportNext
          /\ UNCHANGED <<creationVars, transferVars, sessionVars, localVars, providerVars,
                         genVars, syncVars>>
       \/ /\ screen = "wallet" /\ LocalNext
          /\ UNCHANGED <<creationVars, transferVars, sessionVars, importVars, providerVars,
                         genVars, syncVars>>
       \/ /\ screen = "provider" /\ ProviderNext
          /\ UNCHANGED <<creationVars, transferVars, sessionVars, importVars, localVars,
                         genVars, syncVars>>
       \/ /\ screen = "generator" /\ GenNext
          /\ UNCHANGED <<creationVars, transferVars, sessionVars, importVars, localVars,
                         providerVars, syncVars>>
       \/ /\ screen = "vault" /\ SyncNext
          /\ UNCHANGED <<creationVars, transferVars, sessionVars, importVars, localVars,
                         providerVars, genVars>>

DialogsSpec == DialogsInit /\ [][DialogsNext]_<<screen, dialogVars>>
=============================================================================
