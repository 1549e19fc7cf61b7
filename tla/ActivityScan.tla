---------------------------- MODULE ActivityScan ----------------------------
(***************************************************************************)
(* The account dashboard of the Desktop lists what the identity did on      *)
(* chain.  An effect scans the blocks after those of the last scan, chunk   *)
(* by chunk, shows what it finds and caches the whole list in localStorage. *)
(* The effect runs again when the identity changes or the user asks for a   *)
(* new scan; the old scan is marked cancelled but its requests go on.       *)
(*                                                                         *)
(* Every block holds one event of every identity.  A list is the number of  *)
(* times it names each event; its order follows from the block numbers.     *)
(***************************************************************************)
EXTENDS Naturals

CONSTANTS
    Identities,     \* identities the wallet may connect
    MaxBlock,       \* bound: blocks of the chain
    ChunkSize,      \* CHUNK_SIZE
    MaxScans        \* bound: scans started

ASSUME ScanAssumption ==
    {MaxBlock, MaxScans} \subseteq Nat /\ ChunkSize \in Nat \ {0} /\ "none" \notin Identities

VARIABLES
    head,           \* the latest block
    identity,       \* identityId of the mounted dashboard, "none" without one
    shown,          \* activities
    isScanning,
    error,
    cache,          \* localStorage: identity -> [last, list], last = 0 without one
    scans,          \* the scans started so far
    inFlight        \* scanInFlight

scanVars == <<head, identity, shown, isScanning, error, cache, scans, inFlight>>

Blocks == 1..MaxBlock
DeployBlock == 1
Event == Identities \X Blocks
EmptyList == [e \in Event |-> 0]
Merge(a, b) == [e \in Event |-> a[e] + b[e]]
EventsOf(i, from, to) == [e \in Event |-> IF e[1] = i /\ e[2] \in from..to THEN 1 ELSE 0]
NoCache == [last |-> 0, list |-> EmptyList]

Started == {k \in 1..MaxScans : scans[k].stage # "unused"}
NoScan == [stage |-> "unused", id |-> "none", cancelled |-> FALSE, cached |-> NoCache,
           next |-> 0, to |-> 0, found |-> EmptyList]

ScanInit ==
    /\ head \in Blocks
    /\ identity = "none" /\ shown = EmptyList /\ isScanning = FALSE /\ error = FALSE
    /\ cache = [i \in Identities |-> NoCache]
    /\ scans = [k \in 1..MaxScans |-> NoScan] /\ inFlight = FALSE
-----------------------------------------------------------------------------

\* The cleanup of the last effect, then the effect for identity i and the
\* stored cache c: list is what the screen showed until then.
RunEffect(i, c, list) ==
    LET cancelled == [k \in 1..MaxScans |->
                        IF k \in Started THEN [scans[k] EXCEPT !.cancelled = TRUE] ELSE scans[k]]
        k == CHOOSE n \in 1..MaxScans \ Started : \A o \in 1..MaxScans \ Started : n <= o
    IN  IF i = "none"
        THEN scans' = cancelled /\ inFlight' = FALSE /\ shown' = list /\ UNCHANGED <<isScanning, error>>
        ELSE /\ Started # 1..MaxScans
             /\ scans' = [cancelled EXCEPT ![k] =
                            [NoScan EXCEPT !.stage = "head", !.id = i, !.cached = c]]
             /\ shown' = IF c.last > 0 THEN c.list ELSE list
             /\ inFlight' = TRUE /\ isScanning' = TRUE /\ error' = FALSE

\* The wallet connects another identity or none.
ChangeIdentity(i) ==
    /\ i # identity /\ identity' = i
    /\ RunEffect(i, IF i = "none" THEN NoCache ELSE cache[i], shown)
    /\ UNCHANGED <<head, cache>>

Rescan ==
    /\ identity # "none"
    /\ cache' = [cache EXCEPT ![identity] = NoCache]
    /\ RunEffect(identity, NoCache, EmptyList)
    /\ UNCHANGED <<head, identity>>

\* The tab is left; its state is gone, its requests are not.
Unmount ==
    /\ identity # "none"
    /\ identity' = "none" /\ isScanning' = FALSE /\ error' = FALSE /\ inFlight' = FALSE
    /\ shown' = EmptyList
    /\ scans' = [k \in 1..MaxScans |->
                   IF k \in Started THEN [scans[k] EXCEPT !.cancelled = TRUE] ELSE scans[k]]
    /\ UNCHANGED <<head, cache>>

\* fromBlock: after the cached blocks, or from the deployment on.
NextFrom(cached, latest) ==
    IF cached.last > 0 /\ cached.last < latest THEN cached.last + 1 ELSE DeployBlock

\* getBlockNumber answers.
ReadHead(k) ==
    /\ scans[k].stage = "head"
    /\ scans' = [scans EXCEPT ![k].stage = "chunks", ![k].to = head,
                              ![k].next = NextFrom(scans[k].cached, head)]
    /\ UNCHANGED <<head, identity, shown, isScanning, error, cache, inFlight>>

\* The logs of a chunk, with the receipts and blocks they need, are all there.
ScanChunk(k) ==
    LET s == scans[k]
        to == IF s.next + ChunkSize - 1 > s.to THEN s.to ELSE s.next + ChunkSize - 1
        found == Merge(s.found, EventsOf(s.id, s.next, to))
    IN  /\ s.stage = "chunks" /\ s.next <= s.to
        /\ scans' = [scans EXCEPT ![k].found = found, ![k].next = to + 1]
        /\ shown' = IF s.cancelled THEN shown ELSE Merge(s.cached.list, found)
        /\ UNCHANGED <<head, identity, isScanning, error, cache, inFlight>>

\* Slip: a cancelled scan still caches what it found.
StoreUnchecked(k) ==
    LET s == scans[k] merged == Merge(s.cached.list, s.found)
    IN  /\ s.stage = "chunks" /\ s.next > s.to
        /\ scans' = [scans EXCEPT ![k].stage = "over"]
        /\ cache' = [cache EXCEPT ![s.id] = [last |-> s.to, list |-> merged]]
        /\ inFlight' = FALSE
        /\ IF s.cancelled THEN UNCHANGED <<shown, isScanning>>
           ELSE shown' = merged /\ isScanning' = FALSE
        /\ UNCHANGED <<head, identity, error>>

\* The end of a scan; a cancelled one changes nothing.
Store(k) ==
    LET s == scans[k] merged == Merge(s.cached.list, s.found)
    IN  /\ s.stage = "chunks" /\ s.next > s.to
        /\ scans' = [scans EXCEPT ![k].stage = "over"]
        /\ inFlight' = FALSE
        /\ IF s.cancelled THEN UNCHANGED <<shown, cache, isScanning>>
           ELSE /\ shown' = merged /\ isScanning' = FALSE
                /\ cache' = [cache EXCEPT ![s.id] = [last |-> s.to, list |-> merged]]
        /\ UNCHANGED <<head, identity, error>>

\* The public RPC refuses a request: what the chunks so far found is shown, not cached.
Fail(k) ==
    /\ scans[k].stage \in {"head", "chunks"}
    /\ scans' = [scans EXCEPT ![k].stage = "over"]
    /\ inFlight' = FALSE
    /\ IF scans[k].cancelled THEN UNCHANGED <<error, isScanning>>
       ELSE error' = TRUE /\ isScanning' = FALSE
    /\ UNCHANGED <<head, identity, shown, cache>>

MineBlock == head < MaxBlock /\ head' = head + 1
             /\ UNCHANGED <<identity, shown, isScanning, error, cache, scans, inFlight>>

ScanNext ==
    \/ Rescan \/ Unmount \/ MineBlock
    \/ \E i \in Identities \cup {"none"} : ChangeIdentity(i)
    \/ \E k \in 1..MaxScans : ReadHead(k) \/ ScanChunk(k) \/ Store(k) \/ Fail(k)

\* Requests to the RPC are answered or fail.
ScanFairness ==
    \A k \in 1..MaxScans : WF_scanVars(ReadHead(k) \/ ScanChunk(k) \/ Store(k) \/ Fail(k))

ScanSpec == ScanInit /\ [][ScanNext]_scanVars
FairScanSpec == ScanSpec /\ ScanFairness
-----------------------------------------------------------------------------
(* Types.  Only the newest scan is not cancelled, and the spinner is its own.  *)
ScanTypeOK ==
    /\ head \in Blocks /\ identity \in Identities \cup {"none"}
    /\ \A e \in Event : shown[e] \in Nat
    /\ \A i \in Identities : cache[i].last \in 0..head
    /\ \A k, o \in Started : ~scans[k].cancelled /\ ~scans[o].cancelled => k = o
    /\ \A k \in Started : ~scans[k].cancelled => scans[k].id = identity
    /\ isScanning /\ identity # "none" => \E k \in Started : ~scans[k].cancelled /\ scans[k].stage # "over"

\* The cached list misses no event of the blocks it claims to cover, and holds
\* none of another identity, however scans were cancelled, failed or restarted.
CacheHasNoGap ==
    \A i \in Identities, b \in Blocks :
        /\ b <= cache[i].last => cache[i].list[<<i, b>>] > 0
        /\ \A j \in Identities \ {i} : cache[i].list[<<j, b>>] = 0

\* When the spinner is gone without an error, the list is the identity's own and
\* is the one cached.
SettledListIsCached ==
    identity # "none" /\ ~isScanning /\ ~error => shown = cache[identity].list

\* A cancelled scan leaves the cache alone: only the running one, or the user's
\* request for a new scan, changes it, and it never goes back otherwise.
CacheMovesForward ==
    [][\A i \in Identities :
          cache'[i] # cache[i] =>
              /\ identity = i
              /\ cache'[i] = NoCache \/ cache'[i].last >= cache[i].last]_scanVars

\* A scan ends, and the spinner with it.
SpinnerStops == []<>(~isScanning \/ identity = "none")

\* What the effect does not ensure (refuted by TLC): an event is listed once.
\* The check that there is nothing to scan is never true, as a cache that
\* reaches the latest block makes the scan start from the deployment again.
ActivityIsListedOnce == \A e \in Event : shown[e] <= 1

\* However scans are cancelled, fail or start over: the cache has no gap and moves
\* forward, and a list that settled is the cached one (useSmartAccountActivity.ts).
ScanCorrect ==
    /\ [](ScanTypeOK /\ CacheHasNoGap /\ SettledListIsCached)
    /\ CacheMovesForward
=============================================================================
