------------------------------ MODULE MCClients ------------------------------
(* What runs in a browser and on a website: the extension's session with the *)
(* vault, its login icons and captured logins, the ways it delivers          *)
(* proposals, and the SDK's verifications.  They share nothing that is       *)
(* modelled here, so one of them moves.                                      *)
EXTENDS ExtensionSession, LoginAutofill, DeliveryRoutes, SdkVerification

VARIABLE client

clientVars == <<client, sessionVars, loginVars, routeVars, sdkVars>>

\* What is not explored starts in one of its initial states.
ClientsInit ==
    /\ client \in {"session", "page", "routes", "website"}
    /\ SessionInit /\ LoginInit /\ RoutesInit /\ SdkInit
    /\ client # "routes" => \A p \in PortNumber : port[p] = "closed"
    /\ client # "page" => held = NothingHeld /\ rendered = {}

ClientsNext ==
    /\ UNCHANGED client
    /\ \/ client = "session" /\ SessionNext /\ UNCHANGED <<loginVars, routeVars, sdkVars>>
       \/ client = "page" /\ LoginNext /\ UNCHANGED <<sessionVars, routeVars, sdkVars>>
       \/ client = "routes" /\ RoutesNext /\ UNCHANGED <<sessionVars, loginVars, sdkVars>>
       \/ client = "website" /\ SdkNext /\ UNCHANGED <<sessionVars, loginVars, routeVars>>

\* None of the steps the extension's session owes is enabled before it starts.
FairClientsSpec == ClientsInit /\ [][ClientsNext]_clientVars /\ SessionFairness

\* With the worker stopped and started at any time: a filled dead drop is collected and
\* a page's passkey request settles (background.ts).
ClientsProceed == DropIsCollected /\ LoginSettles
=============================================================================
