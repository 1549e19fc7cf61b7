----------------------------- MODULE DeliveryRoutes -----------------------------
(***************************************************************************)
(* How the browser extension reaches the Desktop and the phone.  The        *)
(* Desktop listens on one of a few ports of the same machine, which are     *)
(* asked in their order before the proposals are posted.  The phone listens *)
(* on an address of the local network, which is swept in batches of calls   *)
(* made together, where the browser tells which network that is.  For a     *)
(* phone that is elsewhere the service worker also publishes the proposals  *)
(* through a Kubo node: it adds the content, imports a key derived from the *)
(* session, publishes a record under it and removes the key.  Every call    *)
(* may time out, with or without effect.                                    *)
(***************************************************************************)
EXTENDS Naturals, FiniteSets

CONSTANTS
    Ports,          \* bound: DESKTOP_CANDIDATE_PORTS, the ports 1..Ports
    Targets,        \* bound: hosts and ports of the network, the targets 1..Targets
    Concurrency,    \* calls of a batch
    Drops,          \* bound: sessions whose proposals are published
    MaxMoves        \* bound: times a program or the phone comes or goes

ASSUME RoutesAssumption ==
    /\ Ports \in Nat \ {0} /\ Targets \in Nat \ {0} /\ Concurrency \in Nat \ {0}
    /\ IsFiniteSet(Drops) /\ MaxMoves \in Nat

VARIABLES
    port,       \* port -> who listens there
    search,     \* the delivery to the Desktop
    phoneAt,    \* the target the phone listens at, 0 if it does not, or elsewhere
    sweep,      \* the delivery over the network
    publication,\* session -> how far the worker is
    kubo,       \* the node: keys, content and records, by session
    moves

routeVars == <<port, search, phoneAt, sweep, publication, kubo, moves>>

PortNumber == 1..Ports
Target == 1..Targets
\* `steady`: the Desktop (the phone) has been there, and quick, since the search
\* began or the ping was answered.
Unstarted == [phase |-> "idle", at |-> 1, steady |-> FALSE]

RoutesInit ==
    /\ port \in [PortNumber -> {"closed", "other"}] /\ search = Unstarted
    /\ phoneAt = 0 /\ sweep = Unstarted
    /\ publication = [s \in Drops |-> "none"]
    /\ kubo = [keys |-> {}, content |-> {}, records |-> {}]
    /\ moves = 0

Move == moves < MaxMoves /\ moves' = moves + 1
DesktopListens == \E p \in PortNumber : port[p] = "truthid"
-----------------------------------------------------------------------------
(* The Desktop.                                                               *)
\* The Desktop takes the first port that is free.
StartDesktop(p) ==
    /\ Move /\ ~DesktopListens
    /\ port[p] = "closed" /\ \A q \in 1..(p - 1) : port[q] # "closed"
    /\ port' = [port EXCEPT ![p] = "truthid"]
    /\ UNCHANGED <<search, phoneAt, sweep, publication, kubo>>

\* Another program comes, or whoever listens goes.
Listener(p) ==
    /\ Move
    /\ port' = [port EXCEPT ![p] = IF @ = "closed" THEN "other" ELSE "closed"]
    /\ search' = [search EXCEPT !.steady = @ /\ port[p] # "truthid"]
    /\ UNCHANGED <<phoneAt, sweep, publication, kubo>>

StartSearch ==
    /\ search.phase \notin {"pinging", "posting", "held"}
    /\ search' = [phase |-> "pinging", at |-> 1, steady |-> DesktopListens]
    /\ UNCHANGED <<port, phoneAt, sweep, publication, kubo, moves>>

\* The ping names the service.
IsTruthID(p) == port[p] = "truthid"

Ping(p) ==
    /\ search.phase = "pinging" /\ search.at = p /\ IsTruthID(p)
    /\ search' = [search EXCEPT !.phase = "posting", !.steady = TRUE]
    /\ UNCHANGED <<port, phoneAt, sweep, publication, kubo, moves>>

\* Slip: the first port that does not answer ends the search.
StopAtFirst == [search EXCEPT !.phase = "not-found"]

TryNextPort ==
    IF search.at < Ports THEN [search EXCEPT !.at = @ + 1] ELSE [search EXCEPT !.phase = "not-found"]

\* Nobody, somebody else, or a Desktop too slow for the ping.
NoPing(p) ==
    /\ search.phase = "pinging" /\ search.at = p
    /\ search' = IF IsTruthID(p) THEN [TryNextPort EXCEPT !.steady = FALSE] ELSE TryNextPort
    /\ UNCHANGED <<port, phoneAt, sweep, publication, kubo, moves>>

\* The proposals go to the port that was pinged, whoever listens there now.
Post ==
    /\ search.phase = "posting"
    /\ search' = [search EXCEPT !.phase = CASE port[search.at] = "truthid" -> "held"
                                            [] port[search.at] = "other" -> "astray"
                                            [] OTHER -> "error"]
    /\ UNCHANGED <<port, phoneAt, sweep, publication, kubo, moves>>

\* The user has decided, or the call has taken too long.
DesktopDecides ==
    /\ search.phase = "held"
    /\ search' = [search EXCEPT !.phase = "answered"]
    /\ UNCHANGED <<port, phoneAt, sweep, publication, kubo, moves>>
-----------------------------------------------------------------------------
(* The phone on the same network.                                             *)
\* The phone opens its server when it has scanned the code, or gives up.
PhoneListens(t) ==
    /\ Move
    /\ phoneAt' = IF phoneAt = 0 THEN t ELSE 0
    /\ sweep' = [sweep EXCEPT !.steady = FALSE]
    /\ UNCHANGED <<port, search, publication, kubo>>

\* Brave and Firefox tell no address, and no phone is tried then.
StartSweep ==
    /\ sweep.phase # "pushing"
    /\ \E phase \in {"pushing", "no-address"} :
          sweep' = [phase |-> phase, at |-> 1, steady |-> phoneAt # 0]
    /\ UNCHANGED <<port, search, phoneAt, publication, kubo, moves>>

Batch == {t \in Target : t \in sweep.at..(sweep.at + Concurrency - 1)}

NextBatch == IF sweep.at + Concurrency <= Targets
             THEN [sweep EXCEPT !.at = @ + Concurrency] ELSE [sweep EXCEPT !.phase = "missed"]

\* The phone takes the content, once (receiveOnce closes its server).
PhoneTakes ==
    /\ sweep.phase = "pushing" /\ phoneAt \in Batch
    /\ phoneAt' = 0
    /\ \/ sweep' = [sweep EXCEPT !.phase = "delivered"]
       \/ sweep' = [NextBatch EXCEPT !.steady = FALSE]      \* its answer is lost
    /\ UNCHANGED <<port, search, publication, kubo, moves>>

NobodyTakes ==
    /\ sweep.phase = "pushing"
    /\ sweep' = IF phoneAt \in Batch THEN [NextBatch EXCEPT !.steady = FALSE] ELSE NextBatch
    /\ UNCHANGED <<port, search, phoneAt, publication, kubo, moves>>
-----------------------------------------------------------------------------
(* The dead drop.  A session is published once, by the service worker.        *)
StartPublishing(s) ==
    /\ publication[s] = "none"
    /\ publication' = [publication EXCEPT ![s] = "add"]
    /\ UNCHANGED <<port, search, phoneAt, sweep, kubo, moves>>

\* A call ends well, or fails having had its effect or not.
Call(s, does, next, failing) ==
    \/ kubo' = does /\ publication' = [publication EXCEPT ![s] = next]
    \/ kubo' \in {does, kubo} /\ publication' = [publication EXCEPT ![s] = failing]

KuboAdd(s) ==
    /\ publication[s] = "add"
    /\ Call(s, [kubo EXCEPT !.content = @ \cup {s}], "import", "gaveUp")
    /\ UNCHANGED <<port, search, phoneAt, sweep, moves>>

KuboImportKey(s) ==
    /\ publication[s] = "import"
    /\ Call(s, [kubo EXCEPT !.keys = @ \cup {s}], "publish", "gaveUp")
    /\ UNCHANGED <<port, search, phoneAt, sweep, moves>>

AfterPublish == "remove"

KuboPublishName(s) ==
    /\ publication[s] = "publish"
    /\ Call(s, [kubo EXCEPT !.records = @ \cup {s}], "remove", AfterPublish)
    /\ UNCHANGED <<port, search, phoneAt, sweep, moves>>

KuboRemoveKey(s) ==
    /\ publication[s] = "remove"
    /\ Call(s, [kubo EXCEPT !.keys = @ \ {s}], "done", "unremoved")
    /\ UNCHANGED <<port, search, phoneAt, sweep, moves>>

\* The browser stops the worker, or is closed.
WorkerStops ==
    /\ Move
    /\ publication' = [s \in Drops |-> IF publication[s] \in {"add", "import", "publish", "remove"}
                                       THEN "stopped" ELSE publication[s]]
    /\ UNCHANGED <<port, search, phoneAt, sweep, kubo>>

RoutesNext ==
    \/ StartSearch \/ Post \/ DesktopDecides
    \/ \E p \in PortNumber : StartDesktop(p) \/ Listener(p) \/ Ping(p) \/ NoPing(p)
    \/ StartSweep \/ PhoneTakes \/ NobodyTakes
    \/ \E t \in Target : PhoneListens(t)
    \/ \E s \in Drops :
          StartPublishing(s) \/ KuboAdd(s) \/ KuboImportKey(s) \/ KuboPublishName(s) \/ KuboRemoveKey(s)
    \/ WorkerStops

RoutesSpec == RoutesInit /\ [][RoutesNext]_routeVars
-----------------------------------------------------------------------------
(* Types.                                                                     *)
RoutesTypeOK ==
    /\ port \in [PortNumber -> {"closed", "other", "truthid"}]
    /\ Cardinality({p \in PortNumber : port[p] = "truthid"}) <= 1
    /\ search.at \in PortNumber /\ sweep.at \in Target /\ phoneAt \in Target \cup {0}
    /\ kubo.keys \subseteq Drops /\ kubo.content \subseteq Drops /\ kubo.records \subseteq Drops

\* A Desktop that runs while it is looked for, and answers its ping in time, is
\* found, whichever port it got and whoever has the others.
RunningDesktopIsFound == search.phase = "not-found" => ~search.steady

\* The proposals reach another program only if it took the Desktop's port after
\* the ping, so that they are never posted where the Desktop has not been.
AstrayOnlyAfterTheDesktop == search.phase = "astray" => ~search.steady

\* A phone that listens throughout a sweep is reached, unless its answer is too
\* slow or gets lost: where there was an address to sweep from.
ListeningPhoneIsReached == sweep.phase = "missed" => ~sweep.steady

\* What the browser does not ensure (refuted by TLC): that a sweep is made at all.
ListeningPhoneIsTried == sweep.phase = "no-address" => ~sweep.steady

\* Whoever resolves a dead drop's record finds its content.
RecordsHaveContent == kubo.records \subseteq kubo.content

\* The node keeps a session's key only while it is published, or where the
\* import had failed, removing failed too or the worker was stopped.
KeysAreTidied ==
    \A s \in kubo.keys : publication[s] \in {"publish", "remove", "gaveUp", "unremoved", "stopped"}

\* A Desktop that is there throughout is reached, so is a phone where the browser tells
\* an address to look from, nothing is posted where the Desktop has not been, and a
\* dead drop has content and leaves no key behind (desktopDelivery.ts, lanDelivery.ts,
\* deadDropPublish.ts).
RoutesCorrect ==
    /\ RoutesTypeOK /\ RunningDesktopIsFound /\ AstrayOnlyAfterTheDesktop
    /\ ListeningPhoneIsReached /\ RecordsHaveContent /\ KeysAreTidied
=============================================================================
