--------------------------- MODULE RequestProofs ----------------------------
(***************************************************************************)
(* The request channels of the Desktop with the extension that calls them, *)
(* as composed in MCLocalRequests, for any number of calls, presses,       *)
(* remounts, proposals, fields and panels. The invariant of a channel      *)
(* follows the runs of handleApprove, of which several may be under way for*)
(* one request; those of the queue and of autofill rest on it, as they     *)
(* follow calls that the channel decides. That every slot is freed and     *)
(* every alarm stops is liveness, and stays with TLC.                      *)
(***************************************************************************)
EXTENDS MCLocalRequests, FiniteSetTheorems, TLAPS

-----------------------------------------------------------------------------
(* The channel.                                                              *)
WorkRecord == [req : Req, step : {"do", "done"}, run : 1..MaxPresses, here : BOOLEAN]
CallStates == Outcome \cup {"idle", "waiting", "gone"}
DoRuns(q) == {n \in 1..MaxPresses : \E w \in work : w.req = q /\ w.run = n /\ w.step = "do"}

ChannelTyped ==
    /\ kind \in Kind /\ slot \in Req \cup {None} /\ modal \in Req \cup {None}
    /\ call \in [Req -> CallStates]
    /\ clearing \subseteq Req /\ expired \subseteq Req /\ refused \subseteq Req
    /\ asked \in BOOLEAN /\ listening \in BOOLEAN
    /\ events \in Seq(Req) /\ stage \in {"idle", "working", "error"}
    /\ remounts \in 0..MaxRemounts[kind]

\* The runs of handleApprove are told apart by their number, and those still to
\* take effect are paid for by approvals that have not yet been used.
WorkInv ==
    /\ work \subseteq WorkRecord /\ pressed \in [Req -> 0..MaxPresses] /\ effects \in [Req -> Nat]
    /\ \A v, w \in work : v.req = w.req /\ v.run = w.run => v = w
    /\ \A w \in work : w.run <= pressed[w.req] /\ (w.step = "done" => effects[w.req] > 0)
    /\ \A q \in Req : effects[q] + Cardinality(DoRuns(q)) <= pressed[q]

DecisionInv == DecisionIsTheUsers /\ ApprovedWasDone
ChannelInv == ChannelTyped /\ WorkInv /\ DecisionInv

-----------------------------------------------------------------------------
\* The numbers of the requests, and of the runs for one of them.
LEMMA RequestFacts == /\ Max(Range(MaxCalls)) \in Nat /\ Req \subseteq Nat /\ None \notin Req
                      /\ MaxPresses \in Nat /\ MaxRemounts \in [Kind -> Nat]
<1> DEFINE S == Range(MaxCalls)
           m(k) == MaxCalls[k]
<1>1. MaxCalls \in [Kind -> Nat] /\ MaxPresses \in Nat /\ MaxRemounts \in [Kind -> Nat]
  BY RequestsAssumption
<1>2. S = {m("sign"), m("vaultEdit"), m("pin"), m("autofill")} BY <1>1 DEF Range, Kind
<1>3. m("sign") \in Nat /\ m("vaultEdit") \in Nat /\ m("pin") \in Nat /\ m("autofill") \in Nat
  BY <1>1 DEF Kind
<1> HIDE DEF m
<1>4. \E x \in S : \A y \in S : x >= y
  <2>1. ASSUME NEW a \in Nat, NEW b \in Nat PROVE \E x \in {a, b} : x >= a /\ x >= b
    OBVIOUS
  <2>2. PICK x \in {m("sign"), m("vaultEdit")} : x >= m("sign") /\ x >= m("vaultEdit") BY <1>3, <2>1
  <2>3. PICK y \in {m("pin"), m("autofill")} : y >= m("pin") /\ y >= m("autofill") BY <1>3, <2>1
  <2>4. x \in Nat /\ y \in Nat BY <1>3
  <2>5. PICK z \in {x, y} : z >= x /\ z >= y BY <2>1, <2>4
  <2>6. z \in S /\ z \in Nat BY <1>2, <2>4
  <2>7. \A u \in S : z >= u BY <1>2, <1>3, <2>2, <2>3, <2>4, <2>5, <2>6
  <2>8. QED BY <2>6, <2>7
<1>5. Max(S) \in S BY <1>4 DEF Max
<1>6. Max(S) \in Nat BY <1>2, <1>3, <1>5
<1>7. QED BY <1>1, <1>6 DEF Req, None

LEMMA DoRunsFinite ==
    ASSUME NEW q
    PROVE  /\ IsFiniteSet(DoRuns(q)) /\ Cardinality(DoRuns(q)) \in Nat
           /\ IsFiniteSet(DoRuns(q)') /\ Cardinality(DoRuns(q)') \in Nat
<1>1. IsFiniteSet(1..MaxPresses) BY RequestFacts, FS_Interval
<1>2. DoRuns(q) \in SUBSET (1..MaxPresses) /\ DoRuns(q)' \in SUBSET (1..MaxPresses) BY DEF DoRuns
<1>3. QED BY <1>1, <1>2, FS_Subset, FS_CardinalityType

\* A step that begins no run and undoes no approval.
LEMMA WorkShrinks ==
    ASSUME WorkInv, work' \subseteq work, effects' = effects, pressed' \in [Req -> 0..MaxPresses],
           \A q \in Req : pressed[q] <= pressed'[q]
    PROVE  WorkInv'
<1>1. \A q \in Req : pressed[q] \in Nat /\ pressed'[q] \in Nat /\ effects[q] \in Nat
  BY RequestFacts DEF WorkInv
<1>2. ASSUME NEW q \in Req PROVE effects'[q] + Cardinality(DoRuns(q))' <= pressed'[q]
  <2>1. DoRuns(q)' \in SUBSET DoRuns(q) BY DEF DoRuns
  <2>2. Cardinality(DoRuns(q)') <= Cardinality(DoRuns(q)) BY <2>1, DoRunsFinite, FS_Subset
  <2>3. effects[q] + Cardinality(DoRuns(q)) <= pressed[q] BY DEF WorkInv
  <2>4. effects[q] \in Nat /\ pressed[q] \in Nat /\ pressed'[q] \in Nat /\ pressed[q] <= pressed'[q] BY <1>1
  <2>5. Cardinality(DoRuns(q)) \in Nat /\ Cardinality(DoRuns(q)') \in Nat BY DoRunsFinite
  <2>6. QED BY <2>2, <2>3, <2>4, <2>5
<1>3. ASSUME NEW w \in work' PROVE w.run <= pressed'[w.req]
  <2>1. w \in work /\ w.req \in Req /\ w.run \in 1..MaxPresses BY DEF WorkInv, WorkRecord
  <2>2. w.run <= pressed[w.req] BY <2>1 DEF WorkInv
  <2>3. QED BY <1>1, <2>1, <2>2
<1>4. QED BY <1>2, <1>3 DEF WorkInv

\* Steps that leave the runs, or the decisions, alone.
LEMMA WorkStays == ASSUME WorkInv, UNCHANGED <<work, pressed, effects>> PROVE WorkInv'
BY DEF WorkInv, DoRuns

\* Calls whose state changes are answered with a decision that was made.
LEMMA CallsDecided ==
    ASSUME ChannelInv, kind' = kind, refused \subseteq refused',
           \A q \in Req : pressed[q] > 0 => pressed'[q] > 0,
           \A q \in Req : effects[q] > 0 => effects'[q] > 0,
           \A q \in Req : \/ call'[q] = call[q] \/ call'[q] \notin {"approved", "rejected"}
                          \/ call'[q] = "approved" /\ pressed'[q] > 0 /\ (kind \in Slow => effects'[q] > 0)
                          \/ call'[q] = "rejected" /\ q \in refused'
    PROVE  DecisionInv'
BY DEF ChannelInv, DecisionInv, DecisionIsTheUsers, ApprovedWasDone

LEMMA DecisionStays ==
    ASSUME ChannelInv, UNCHANGED <<kind, refused, call, pressed, effects>> PROVE DecisionInv'
BY DEF ChannelInv, DecisionInv, DecisionIsTheUsers, ApprovedWasDone

\* What Resolve leaves of the other calls.
LEMMA Resolved ==
    ASSUME ChannelTyped, NEW q \in Req, NEW o \in Outcome, Resolve(q, o)
    PROVE  /\ call' \in [Req -> CallStates] /\ slot' \in Req \cup {None}
           /\ \A s \in Req : call'[s] = call[s] \/ (s = q /\ call'[s] = o)
BY DEF ChannelTyped, Resolve, Answer, CallStates

\* The invariant holds at the start, and one lemma per step shows that it stays.
LEMMA ChannelInitInv == ASSUME ChannelInit PROVE ChannelInv
<1> USE RequestFacts DEF ChannelInit
<1>1. ChannelTyped
  <2>1. call \in [Req -> CallStates] BY DEF CallStates
  <2>2. 0 \in 0..MaxRemounts[kind] OBVIOUS
  <2>3. events \in Seq(Req) OBVIOUS
  <2>4. QED BY <2>1, <2>2, <2>3 DEF ChannelTyped
<1>2. WorkInv
  <2>1. \A q \in Req : DoRuns(q) = {} /\ pressed[q] = 0 /\ effects[q] = 0 BY DEF DoRuns
  <2>2. Cardinality({}) = 0 BY FS_EmptySet
  <2>3. ASSUME NEW q \in Req PROVE effects[q] + Cardinality(DoRuns(q)) <= pressed[q]
    <3>1. Cardinality(DoRuns(q)) = 0 BY <2>1, <2>2, Zenon
    <3>2. pressed[q] = 0 /\ effects[q] = 0 BY <2>1
    <3>3. QED BY <3>1, <3>2
  <2>4. pressed \in [Req -> 0..MaxPresses] /\ effects \in [Req -> Nat] OBVIOUS
  <2>5. QED BY <2>3, <2>4 DEF WorkInv
<1>3. DecisionInv BY DEF DecisionInv, DecisionIsTheUsers, ApprovedWasDone
<1>4. QED BY <1>1, <1>2, <1>3 DEF ChannelInv

LEMMA ParkInv == ASSUME ChannelInv, NEW q \in Req, Park(q) PROVE ChannelInv'
<1>1. ChannelTyped'
  <2>1. call' \in [Req -> CallStates] BY DEF Park, ChannelInv, ChannelTyped, CallStates, Outcome
  <2>2. events' \in Seq(Req) BY DEF Park, ChannelInv, ChannelTyped
  <2>3. slot' \in Req \cup {None} BY DEF Park, ChannelInv, ChannelTyped
  <2>4. QED BY <2>1, <2>2, <2>3 DEF Park, ChannelInv, ChannelTyped
<1>2. WorkInv' BY WorkStays DEF Park, ChannelInv
<1>3. \A s \in Req : call'[s] = call[s] \/ call'[s] \in {"waiting", "busy"}
  BY DEF Park, ChannelInv, ChannelTyped
<1>4. DecisionInv' BY <1>3, CallsDecided DEF Park
<1>5. QED BY <1>1, <1>2, <1>4 DEF ChannelInv

LEMMA HangUpInv ==
    ASSUME ChannelInv, NEW G, HangUp(G), UNCHANGED <<kind, slot, clearing, expired, windowVars>>
    PROVE  ChannelInv'
<1>1. \A s \in Req : call'[s] = call[s] \/ call'[s] = "gone" BY DEF HangUp
<1>2. call' \in [Req -> CallStates] BY DEF HangUp, ChannelInv, ChannelTyped, CallStates
<1>3. ChannelTyped' BY <1>2 DEF ChannelInv, ChannelTyped, windowVars
<1>4. WorkInv' BY WorkStays DEF ChannelInv, windowVars
<1>5. DecisionInv' BY <1>1, CallsDecided DEF windowVars
<1>6. QED BY <1>3, <1>4, <1>5 DEF ChannelInv

\* A remount lets the runs of the old modal go on.
LEMMA RemountWork ==
    ASSUME WorkInv, work' = {[w EXCEPT !.here = FALSE] : w \in work}, UNCHANGED <<pressed, effects>>
    PROVE  WorkInv'
<1>1. \A w \in WorkRecord : LET v == [w EXCEPT !.here = FALSE]
                            IN  v \in WorkRecord /\ v.req = w.req /\ v.run = w.run /\ v.step = w.step
  BY DEF WorkRecord
<1>2. ASSUME NEW v \in work'
      PROVE  \E w \in work : /\ v = [w EXCEPT !.here = FALSE] /\ v \in WorkRecord
                             /\ v.req = w.req /\ v.run = w.run /\ v.step = w.step
  <2>1. PICK w \in work : v = [w EXCEPT !.here = FALSE] OBVIOUS
  <2>2. w \in WorkRecord BY DEF WorkInv
  <2>3. v \in WorkRecord /\ v.req = w.req /\ v.run = w.run /\ v.step = w.step BY <1>1, <2>1, <2>2
  <2>4. QED BY <2>1, <2>3
<1>3. ASSUME NEW w \in work PROVE \E v \in work' : v.req = w.req /\ v.run = w.run /\ v.step = w.step
  <2>1. [w EXCEPT !.here = FALSE] \in work' OBVIOUS
  <2>2. w \in WorkRecord BY DEF WorkInv
  <2>3. QED BY <1>1, <2>1, <2>2
<1>4. \A q \in Req : DoRuns(q)' = DoRuns(q)
  <2> SUFFICES ASSUME NEW q \in Req, NEW n \in 1..MaxPresses
               PROVE  (\E w \in work' : w.req = q /\ w.run = n /\ w.step = "do")
                        <=> (\E w \in work : w.req = q /\ w.run = n /\ w.step = "do")
    BY DEF DoRuns
  <2>1. ASSUME NEW v \in work', v.req = q, v.run = n, v.step = "do"
        PROVE  \E w \in work : w.req = q /\ w.run = n /\ w.step = "do"
    BY <1>2, <2>1
  <2>2. ASSUME NEW w \in work, w.req = q, w.run = n, w.step = "do"
        PROVE  \E v \in work' : v.req = q /\ v.run = n /\ v.step = "do"
    BY <1>3, <2>2
  <2>3. QED BY <2>1, <2>2
<1>5. ASSUME NEW v \in work', NEW w \in work', v.req = w.req, v.run = w.run PROVE v = w
  <2>1. PICK a \in work : v = [a EXCEPT !.here = FALSE] /\ v.req = a.req /\ v.run = a.run BY <1>2
  <2>2. PICK b \in work : w = [b EXCEPT !.here = FALSE] /\ w.req = b.req /\ w.run = b.run BY <1>2
  <2>3. a = b BY <1>5, <2>1, <2>2 DEF WorkInv
  <2>4. QED BY <2>1, <2>2, <2>3
<1>6. \A w \in work' : w \in WorkRecord /\ w.run <= pressed[w.req] /\ (w.step = "done" => effects[w.req] > 0)
  BY <1>2 DEF WorkInv
<1>7. QED BY <1>4, <1>5, <1>6 DEF WorkInv

\* A run is begun with a number of its own.
LEMMA RunBegins ==
    ASSUME WorkInv, NEW q \in Req, pressed[q] < MaxPresses,
           pressed' = [pressed EXCEPT ![q] = @ + 1], effects' = effects,
           work' = work \cup {[req |-> q, step |-> "do", run |-> pressed'[q], here |-> TRUE]}
    PROVE  WorkInv'
<1> DEFINE n == pressed[q] + 1
           v == [req |-> q, step |-> "do", run |-> n, here |-> TRUE]
<1>1. pressed \in [Req -> 0..MaxPresses] /\ MaxPresses \in Nat /\ effects \in [Req -> Nat] /\ work \subseteq WorkRecord
  BY RequestFacts DEF WorkInv
<1>2. n \in 1..MaxPresses /\ pressed[q] \in Nat BY <1>1
<1>3. pressed'[q] = n /\ \A s \in Req : (s # q => pressed'[s] = pressed[s]) /\ pressed[s] <= pressed'[s]
      /\ pressed' \in [Req -> 0..MaxPresses]
  BY <1>1, <1>2
<1>4. v \in WorkRecord /\ v.req = q /\ v.run = n /\ v.step = "do" BY <1>2 DEF WorkRecord
<1>5. work' = work \cup {v} BY <1>3
<1>6. \A w \in work : w.req \in Req /\ w.run \in 1..MaxPresses /\ w.run <= pressed[w.req]
  BY <1>1 DEF WorkInv, WorkRecord
<1> HIDE DEF v, n
<1>7. \A w \in work : ~(w.req = q /\ w.run = n) BY <1>2, <1>6 DEF n
<1>8. ASSUME NEW a \in work', NEW b \in work', a.req = b.req, a.run = b.run PROVE a = b
  BY <1>4, <1>5, <1>7, <1>8 DEF WorkInv
<1>9. ASSUME NEW w \in work' PROVE w.run <= pressed'[w.req] /\ (w.step = "done" => effects'[w.req] > 0)
  <2>1. CASE w = v BY <1>2, <1>3, <1>4, <2>1
  <2>2. CASE w \in work
    <3>1. w.req \in Req /\ w.run \in Nat /\ w.run <= pressed[w.req] BY <1>6, <2>2
    <3>2. pressed[w.req] <= pressed'[w.req] /\ pressed[w.req] \in Nat /\ pressed'[w.req] \in Nat
      BY <1>1, <1>3, <3>1
    <3>3. QED BY <2>2, <3>1, <3>2 DEF WorkInv
  <2>3. QED BY <1>5, <2>1, <2>2
<1>10. ASSUME NEW s \in Req PROVE effects'[s] + Cardinality(DoRuns(s))' <= pressed'[s]
  <2>1. effects[s] + Cardinality(DoRuns(s)) <= pressed[s] /\ effects[s] \in Nat /\ pressed[s] \in Nat
    BY <1>1 DEF WorkInv
  <2>2. IsFiniteSet(DoRuns(s)) /\ Cardinality(DoRuns(s)) \in Nat BY DoRunsFinite
  <2>3. CASE s = q
    <3>1. DoRuns(s)' = DoRuns(s) \cup {n} BY <1>2, <1>4, <1>5, <2>3 DEF DoRuns
    <3>2. n \notin DoRuns(s) BY <1>7, <2>3 DEF DoRuns
    <3>3. Cardinality(DoRuns(s)') = Cardinality(DoRuns(s)) + 1 BY <2>2, <3>1, <3>2, FS_AddElement
    <3>4. pressed'[s] = pressed[s] + 1 BY <1>3, <2>3 DEF n
    <3>5. QED BY <2>1, <2>2, <3>3, <3>4
  <2>4. CASE s # q
    <3>1. DoRuns(s)' = DoRuns(s) BY <1>4, <1>5, <2>4 DEF DoRuns
    <3>2. QED BY <1>3, <2>1, <2>4, <3>1
  <2>5. QED BY <2>3, <2>4
<1>11. QED BY <1>1, <1>3, <1>4, <1>5, <1>8, <1>9, <1>10 DEF WorkInv

\* Its effect takes the place of the promise of it.
LEMMA RunTakesEffect ==
    ASSUME WorkInv, NEW w \in work, w.step = "do", pressed' = pressed,
           work' = (work \ {w}) \cup {[w EXCEPT !.step = "done"]},
           effects' = [effects EXCEPT ![w.req] = @ + 1]
    PROVE  WorkInv'
<1> DEFINE q == w.req
           v == [w EXCEPT !.step = "done"]
<1>1. pressed \in [Req -> 0..MaxPresses] /\ MaxPresses \in Nat /\ effects \in [Req -> Nat] /\ w \in WorkRecord
      /\ work \subseteq WorkRecord
  BY RequestFacts DEF WorkInv
<1>2. v \in WorkRecord /\ v.req = q /\ v.run = w.run /\ v.step = "done" /\ q \in Req /\ w.run \in 1..MaxPresses
  BY <1>1 DEF WorkRecord
<1>3. work' = (work \ {w}) \cup {v} OBVIOUS
<1> HIDE DEF v
<1>4. /\ effects' \in [Req -> Nat] /\ effects'[q] = effects[q] + 1
      /\ \A s \in Req : (s # q => effects'[s] = effects[s]) /\ (effects[s] > 0 => effects'[s] > 0)
  BY <1>1, <1>2
<1>5. \A u \in work : u.req = q /\ u.run = w.run => u = w BY DEF WorkInv
<1>6. ASSUME NEW a \in work', NEW b \in work', a.req = b.req, a.run = b.run PROVE a = b
  BY <1>2, <1>3, <1>5, <1>6 DEF WorkInv
<1>7. ASSUME NEW u \in work' PROVE u.run <= pressed[u.req] /\ (u.step = "done" => effects'[u.req] > 0)
  <2>1. CASE u = v
    <3>1. w.run <= pressed[q] BY DEF WorkInv
    <3>2. effects'[q] > 0 BY <1>1, <1>2, <1>4
    <3>3. QED BY <1>2, <2>1, <3>1, <3>2
  <2>2. CASE u \in work
    <3>1. u.req \in Req BY <1>1, <2>2 DEF WorkRecord
    <3>2. QED BY <1>4, <2>2, <3>1 DEF WorkInv
  <2>3. QED BY <1>3, <2>1, <2>2
<1>8. ASSUME NEW s \in Req PROVE effects'[s] + Cardinality(DoRuns(s))' <= pressed[s]
  <2>1. effects[s] + Cardinality(DoRuns(s)) <= pressed[s] /\ effects[s] \in Nat /\ pressed[s] \in Nat
    BY <1>1 DEF WorkInv
  <2>2. IsFiniteSet(DoRuns(s)) /\ Cardinality(DoRuns(s)) \in Nat BY DoRunsFinite
  <2>3. CASE s = q
    <3>1. DoRuns(s)' = DoRuns(s) \ {w.run} BY <1>2, <1>3, <1>5, <2>3 DEF DoRuns
    <3>2. w.run \in DoRuns(s) BY <1>2, <2>3 DEF DoRuns
    <3>3. Cardinality(DoRuns(s)') = Cardinality(DoRuns(s)) - 1 BY <2>2, <3>1, <3>2, FS_RemoveElement
    <3>4. effects'[s] = effects[s] + 1 BY <1>4, <2>3
    <3>5. QED BY <2>1, <2>2, <3>3, <3>4
  <2>4. CASE s # q
    <3>1. DoRuns(s)' = DoRuns(s) BY <1>2, <1>3, <2>4 DEF DoRuns
    <3>2. QED BY <1>4, <2>1, <2>4, <3>1
  <2>5. QED BY <2>3, <2>4
<1>9. QED BY <1>1, <1>2, <1>3, <1>4, <1>6, <1>7, <1>8 DEF WorkInv

-----------------------------------------------------------------------------
\* The timers, the window's steps, and the user's.
LEMMA TimeoutInv ==
    ASSUME ChannelInv, NEW q \in Req, Expire(q) \/ TimeoutFires(q) \/ ClearSlot(q) PROVE ChannelInv'
<1> USE RequestFacts
<1>1. UNCHANGED <<kind, windowVars>> BY DEF Expire, TimeoutFires, ClearSlot
<1>2. /\ call' \in [Req -> CallStates] /\ slot' \in Req \cup {None}
      /\ \A s \in Req : call'[s] = call[s] \/ call'[s] \in {"timeout", "failed"}
  BY DEF Expire, TimeoutFires, ClearSlot, Answer, ChannelInv, ChannelTyped, CallStates, Outcome
<1>3. clearing' \subseteq Req /\ expired' \subseteq Req
  BY DEF Expire, TimeoutFires, ClearSlot, ChannelInv, ChannelTyped
<1>4. ChannelTyped' BY <1>1, <1>2, <1>3 DEF ChannelInv, ChannelTyped, windowVars
<1>5. WorkInv' BY <1>1, WorkStays DEF ChannelInv, windowVars
<1>6. DecisionInv' BY <1>1, <1>2, CallsDecided DEF windowVars
<1>7. QED BY <1>4, <1>5, <1>6 DEF ChannelInv

LEMMA WindowInv == ASSUME ChannelInv, AskPending \/ StartListening \/ ShowEvent \/ Remount PROVE ChannelInv'
<1>1. UNCHANGED <<kind, slot, call, clearing, expired, pressed, refused, effects>>
  BY DEF AskPending, StartListening, ShowEvent, Remount
<1>2. CASE AskPending \/ StartListening \/ ShowEvent
  <2>1. asked' \in BOOLEAN /\ listening' \in BOOLEAN
    BY <1>2, Zenon DEF AskPending, StartListening, ShowEvent, ChannelInv, ChannelTyped
  <2>2. UNCHANGED <<work, stage, remounts>> BY <1>2 DEF AskPending, StartListening, ShowEvent
  <2>3. events' \in Seq(Req) /\ modal' \in Req \cup {None}
    BY <1>2 DEF AskPending, StartListening, ShowEvent, ChannelInv, ChannelTyped
  <2>4. ChannelTyped' BY <1>1, <2>1, <2>2, <2>3 DEF ChannelInv, ChannelTyped
  <2>5. QED BY <1>1, <2>2, <2>4, WorkStays, DecisionStays DEF ChannelInv
<1>3. CASE Remount
  <2>1. asked' \in BOOLEAN /\ listening' \in BOOLEAN BY <1>3, Zenon DEF Remount
  <2>2. events' \in Seq(Req) /\ modal' \in Req \cup {None} /\ stage' = "idle" BY <1>3 DEF Remount
  <2>3. remounts' \in 0..MaxRemounts[kind]
    BY <1>3, RequestFacts DEF Remount, ChannelInv, ChannelTyped
  <2>4. ChannelTyped' BY <1>1, <2>1, <2>2, <2>3 DEF ChannelInv, ChannelTyped
  <2>5. WorkInv' BY <1>1, <1>3, RemountWork DEF Remount, ChannelInv
  <2>6. QED BY <1>1, <2>4, <2>5, DecisionStays DEF ChannelInv
<1>4. QED BY <1>2, <1>3

LEMMA StartInv == ASSUME ChannelInv, NEW q \in Req, StartApproval(q) PROVE ChannelInv'
<1>1. /\ pressed[q] < MaxPresses /\ pressed' = [pressed EXCEPT ![q] = @ + 1]
      /\ UNCHANGED <<kind, slot, call, clearing, expired, asked, listening, events, modal, refused, effects, remounts>>
  BY DEF StartApproval, Press
<1>2. stage' \in {"idle", "working"} BY DEF StartApproval
<1>3. ChannelTyped' BY <1>1, <1>2 DEF ChannelInv, ChannelTyped
<1>4. /\ pressed' \in [Req -> 0..MaxPresses] /\ \A s \in Req : pressed[s] <= pressed'[s]
      /\ \A s \in Req : pressed[s] > 0 => pressed'[s] > 0
  BY <1>1, RequestFacts DEF ChannelInv, WorkInv
<1>5. WorkInv'
  <2>1. CASE work' = work BY <1>1, <1>4, <2>1, WorkShrinks DEF ChannelInv
  <2>2. CASE work' = work \cup {[req |-> q, step |-> "do", run |-> pressed'[q], here |-> TRUE]}
    BY <1>1, <2>2, RunBegins DEF ChannelInv
  <2>3. QED BY <2>1, <2>2 DEF StartApproval
<1>6. DecisionInv' BY <1>1, <1>4, CallsDecided
<1>7. QED BY <1>3, <1>5, <1>6 DEF ChannelInv

LEMMA DoInv == ASSUME ChannelInv, NEW w \in work, Do(w) PROVE ChannelInv'
<1>1. /\ w.step = "do" /\ work' = (work \ {w}) \cup {[w EXCEPT !.step = "done"]}
      /\ effects' = [effects EXCEPT ![w.req] = @ + 1]
      /\ UNCHANGED <<kind, slot, call, clearing, expired, asked, listening, events, modal, stage, pressed,
                     refused, remounts>>
  BY DEF Do
<1>2. ChannelTyped' BY <1>1 DEF ChannelInv, ChannelTyped
<1>3. WorkInv' BY <1>1, RunTakesEffect DEF ChannelInv
<1>4. \A s \in Req : effects[s] > 0 => effects'[s] > 0
  BY <1>1 DEF ChannelInv, WorkInv, WorkRecord
<1>5. DecisionInv' BY <1>1, <1>4, CallsDecided
<1>6. QED BY <1>2, <1>3, <1>5 DEF ChannelInv

LEMMA EndInv == ASSUME ChannelInv, NEW w \in work, Succeed(w) \/ Fail(w) PROVE ChannelInv'
<1>1. /\ work' \subseteq work
      /\ UNCHANGED <<kind, clearing, expired, asked, listening, events, pressed, refused, effects, remounts>>
  BY DEF Succeed, Fail
<1>2. /\ w.req \in Req /\ pressed[w.req] > 0 /\ (w.step = "done" => effects[w.req] > 0)
      /\ pressed \in [Req -> 0..MaxPresses] /\ \A s \in Req : pressed[s] <= pressed[s]
  <2>1. w \in WorkRecord /\ w.run <= pressed[w.req] /\ (w.step = "done" => effects[w.req] > 0)
        /\ pressed \in [Req -> 0..MaxPresses]
    BY DEF ChannelInv, WorkInv
  <2>2. w.req \in Req /\ w.run \in 1..MaxPresses BY <2>1 DEF WorkRecord
  <2>3. \A s \in Req : pressed[s] \in Nat BY <2>1, RequestFacts
  <2>4. w.run \in Nat /\ w.run > 0 BY <2>2, RequestFacts
  <2>5. pressed[w.req] > 0 BY <2>1, <2>2, <2>3, <2>4
  <2>6. QED BY <2>1, <2>2, <2>3, <2>5
<1>3. modal' \in Req \cup {None} /\ stage' \in {"idle", "working", "error"}
  <2>1. CASE Fail(w) BY <2>1 DEF Fail, ChannelInv, ChannelTyped
  <2>2. CASE Succeed(w)
    <3>1. CASE w.here /\ slot = w.req BY <2>2, <3>1 DEF Succeed, CloseModal
    <3>2. CASE w.here /\ slot # w.req BY <2>2, <3>2 DEF Succeed, ChannelInv, ChannelTyped
    <3>3. CASE ~w.here BY <2>2, <3>3 DEF Succeed, KeepModal, ChannelInv, ChannelTyped
    <3>4. QED BY <3>1, <3>2, <3>3
  <2>3. QED BY <2>1, <2>2
<1>4. /\ call' \in [Req -> CallStates] /\ slot' \in Req \cup {None}
      /\ \A s \in Req : call'[s] = call[s] \/ call'[s] = "failed"
                        \/ (s = w.req /\ call'[s] = "approved" /\ w.step = "done")
  <2>1. "approved" \in Outcome /\ "failed" \in Outcome BY DEF Outcome
  <2>2. CASE Succeed(w) BY <1>2, <2>1, <2>2, Resolved DEF Succeed, ChannelInv
  <2>3. CASE Fail(w) /\ Resolve(w.req, "failed") BY <1>2, <2>1, <2>3, Resolved DEF ChannelInv
  <2>4. CASE UNCHANGED <<slot, call>> BY <2>4 DEF ChannelInv, ChannelTyped
  <2>5. QED BY <2>2, <2>3, <2>4 DEF Fail
<1>5. ChannelTyped' BY <1>1, <1>3, <1>4 DEF ChannelInv, ChannelTyped
<1>6. WorkInv' BY <1>1, <1>2, WorkShrinks DEF ChannelInv
<1>7. DecisionInv' BY <1>1, <1>2, <1>4, CallsDecided
<1>8. QED BY <1>5, <1>6, <1>7 DEF ChannelInv

LEMMA DecideInv == ASSUME ChannelInv, NEW q \in Req, ApproveAtOnce(q) \/ Reject(q) PROVE ChannelInv'
<1>1. UNCHANGED <<kind, clearing, expired, asked, listening, events, work, effects, remounts>>
  BY DEF ApproveAtOnce, Reject
<1>2. modal' \in Req \cup {None} /\ stage' \in {"idle", "working", "error"} /\ refused' \subseteq Req
      /\ refused \subseteq refused'
  BY DEF ApproveAtOnce, Reject, CloseModal, KeepModal, ChannelInv, ChannelTyped
<1>3. /\ pressed' \in [Req -> 0..MaxPresses] /\ \A s \in Req : pressed[s] <= pressed'[s]
      /\ \A s \in Req : pressed[s] > 0 => pressed'[s] > 0
      /\ ApproveAtOnce(q) => pressed'[q] > 0
  BY RequestFacts DEF ApproveAtOnce, Reject, Press, ChannelInv, WorkInv
<1>4. /\ call' \in [Req -> CallStates] /\ slot' \in Req \cup {None}
      /\ \A s \in Req : call'[s] = call[s] \/ (s = q /\ call'[s] = "approved" /\ ApproveAtOnce(q))
                        \/ (s = q /\ call'[s] = "rejected" /\ q \in refused')
  <2>1. "approved" \in Outcome /\ "rejected" \in Outcome BY DEF Outcome
  <2>2. CASE ApproveAtOnce(q) BY <2>1, <2>2, Resolved DEF ApproveAtOnce, ChannelInv
  <2>3. CASE Reject(q) BY <2>1, <2>3, Resolved DEF Reject, ChannelInv
  <2>4. QED BY <2>2, <2>3
<1>5. ChannelTyped' BY <1>1, <1>2, <1>4 DEF ChannelInv, ChannelTyped
<1>6. WorkInv' BY <1>1, <1>3, WorkShrinks DEF ChannelInv
<1>7. ApproveAtOnce(q) => kind \notin Slow BY DEF ApproveAtOnce
<1>8. DecisionInv' BY <1>1, <1>2, <1>3, <1>4, <1>7, CallsDecided
<1>9. QED BY <1>5, <1>6, <1>8 DEF ChannelInv

\* Every step of the channel is one of these.
LEMMA ChannelUnchanged == ASSUME ChannelInv, UNCHANGED channelVars PROVE ChannelInv'
<1>1. ChannelTyped' BY DEF ChannelInv, ChannelTyped, channelVars, windowVars
<1>2. WorkInv' BY WorkStays DEF ChannelInv, channelVars, windowVars
<1>3. DecisionInv' BY DecisionStays DEF channelVars, windowVars
<1>4. QED BY <1>1, <1>2, <1>3 DEF ChannelInv

LEMMA ChannelStepInv == ASSUME ChannelInv, ChannelStep \/ OtherPrograms PROVE ChannelInv'
<1>1. ASSUME NEW q \in Req, Disconnect(q) PROVE ChannelInv' BY <1>1, HangUpInv DEF Disconnect
<1>2. CASE OtherPrograms BY <1>1, <1>2, ParkInv DEF OtherPrograms
<1>3. CASE ChannelStep
  BY <1>3, WindowInv, TimeoutInv, StartInv, DecideInv, DoInv, EndInv DEF ChannelStep
<1>4. QED BY <1>2, <1>3

\* The extension touches the channel in three ways only.
LEMMA EditsTouch ==
    ASSUME EditsStep
    PROVE  \/ UNCHANGED channelVars
           \/ \E q \in Req : Park(q)
           \/ HangUp(sending) /\ UNCHANGED <<kind, slot, clearing, expired, windowVars>>
<1> SUFFICES ASSUME EditsStep, ~UNCHANGED channelVars, ~(\E q \in Req : Park(q))
             PROVE  HangUp(sending) /\ UNCHANGED <<kind, slot, clearing, expired, windowVars>>
  OBVIOUS
<1>1. CloseEdits
  BY DEF EditsStep, Propose, Proposed, OpenEdits, SendToPhone, PermissionDenied, RetryDelivery,
     SendToDesktop, DesktopDecided, BatchRemoved, DesktopFailed, StartDelivery, Scan, ReceiveUnheard,
     Delivered, ParcelRemoved, NotDelivered
<1>2. QED BY <1>1 DEF CloseEdits

LEMMA AutofillTouches == ASSUME AutofillStep PROVE UNCHANGED channelVars \/ \E q \in Req : Park(q)
BY DEF AutofillStep, Render, ScanPage, ClickIcon, ClosePanel, PermissionAnswered, CodeDrawn, RequestExpires,
   PhoneAnswersRequest, LanAnswered, DropTick, DesktopSpeaks

\* So that every step of the composition keeps the channel's invariant.
LEMMA ChannelNextInv == ASSUME ChannelInv, [LocalNext]_localVars PROVE ChannelInv'
<1>1. CASE ChannelStep \/ OtherPrograms BY <1>1, ChannelStepInv
<1>2. CASE EditsStep BY <1>2, EditsTouch, ChannelUnchanged, ParkInv, HangUpInv
<1>3. CASE AutofillStep BY <1>3, AutofillTouches, ChannelUnchanged, ParkInv
<1>4. CASE UNCHANGED localVars BY <1>4, ChannelUnchanged DEF localVars
<1>5. QED BY <1>1, <1>2, <1>3, <1>4 DEF LocalNext

\* It gives ChannelSafe.
LEMMA ChannelImplies == ASSUME ChannelInv PROVE ChannelSafe
<1>1. WorkInv /\ ChannelTyped /\ DecisionInv BY DEF ChannelInv
<1>2. \A w \in work : w.req \in Req /\ w.run \in 1..MaxPresses BY <1>1 DEF WorkInv, WorkRecord
<1>3. ASSUME NEW q \in Req PROVE effects[q] \in 0..MaxPresses /\ effects[q] <= pressed[q]
  <2>1. effects[q] + Cardinality(DoRuns(q)) <= pressed[q] /\ effects[q] \in Nat /\ pressed[q] \in 0..MaxPresses
    BY <1>1 DEF WorkInv
  <2>2. Cardinality(DoRuns(q)) \in Nat BY DoRunsFinite
  <2>3. QED BY <2>1, <2>2, RequestFacts
<1>4. effects \in [Req -> 0..MaxPresses] BY <1>1, <1>3 DEF WorkInv
<1>5. ChannelTypeOK BY <1>1, <1>2, <1>3, <1>4 DEF ChannelTyped, ChannelTypeOK, WorkInv, CallStates
<1>6. QED BY <1>1, <1>5 DEF ChannelSafe, DecisionInv

\* For any number of calls, presses and remounts: a program is told the decision
\* the user made about its own request, and "approved" only of what was done
\* (single_slot_channel.rs and the modals).
THEOREM ChannelSafeHolds == LocalSpec => []ChannelSafe
<1>1. LocalInit => ChannelInv BY ChannelInitInv DEF LocalInit
<1>2. ChannelInv /\ [LocalNext]_localVars => ChannelInv' BY ChannelNextInv
<1>3. ChannelInv => ChannelSafe BY ChannelImplies
<1>4. QED BY <1>1, <1>2, <1>3, PTL DEF LocalSpec

\* What can take a pending request off the screen.
LEMMA ShownUntilOver ==
    ASSUME ChannelInv, ChannelStep \/ OtherPrograms \/ UNCHANGED channelVars \/ (\E q \in Req : Park(q))
             \/ (\E G : HangUp(G) /\ UNCHANGED <<kind, slot, clearing, expired, windowVars>>),
           NEW q \in Req, modal = q, slot = q, modal' # q
    PROVE  slot' # q \/ ~listening' \/ (events # <<>> /\ modal' = Head(events))
<1> USE RequestFacts
<1>1. CASE AskPending BY <1>1 DEF AskPending
<1>2. CASE ShowEvent BY <1>2 DEF ShowEvent
<1>3. CASE Remount BY <1>3 DEF Remount
<1>4. ASSUME NEW s \in Req, Reject(s) \/ ApproveAtOnce(s) PROVE slot' # q
  BY <1>4 DEF Reject, ApproveAtOnce, Press, Resolve, KeepModal
<1>5. ASSUME NEW w \in work, Succeed(w) PROVE slot' # q
  <2>1. w.here /\ slot = w.req
    <3>1. CASE w.here /\ slot # w.req BY <1>5, <3>1 DEF Succeed
    <3>2. CASE ~w.here BY <1>5, <3>2 DEF Succeed, KeepModal
    <3>3. QED BY <3>1, <3>2
  <2>2. QED BY <1>5, <2>1 DEF Succeed, Resolve
<1>6. QED
  BY <1>1, <1>2, <1>3, <1>4, <1>5 DEF ChannelStep, OtherPrograms, StartListening, Expire, TimeoutFires, ClearSlot,
     StartApproval, Do, Fail, Park, Disconnect, windowVars, channelVars

\* A request on screen stays there until it is over, the modal is remounted, or a
\* later event is shown in its place.
THEOREM PendingStaysShownHolds == LocalSpec => PendingStaysShown
<1>1. LocalInit => ChannelInv BY ChannelInitInv DEF LocalInit
<1>2. ChannelInv /\ [LocalNext]_localVars => ChannelInv' BY ChannelNextInv
<1>3. ChannelInv /\ [LocalNext]_localVars =>
        [\A q \in Req : (modal = q /\ slot = q /\ modal' # q)
            => slot' # q \/ ~listening' \/ (events # <<>> /\ modal' = Head(events))]_channelVars
  <2> SUFFICES ASSUME ChannelInv, [LocalNext]_localVars, NEW q \in Req, modal = q, slot = q, modal' # q
               PROVE  slot' # q \/ ~listening' \/ (events # <<>> /\ modal' = Head(events))
    OBVIOUS
  <2>1. CASE ChannelStep \/ OtherPrograms BY <2>1, ShownUntilOver
  <2>2. CASE EditsStep BY <2>2, EditsTouch, ShownUntilOver
  <2>3. CASE AutofillStep BY <2>3, AutofillTouches, ShownUntilOver
  <2>4. CASE UNCHANGED localVars BY <2>4, ShownUntilOver DEF localVars
  <2>5. QED BY <2>1, <2>2, <2>3, <2>4 DEF LocalNext
<1>4. QED BY <1>1, <1>2, <1>3, PTL DEF LocalSpec, PendingStaysShown

\* Both together: the channel answers each program about its own request, and keeps
\* it on screen (single_slot_channel.rs).
THEOREM ChannelCorrectHolds == LocalSpec => ChannelCorrect
BY ChannelSafeHolds, PendingStaysShownHolds, PTL DEF ChannelCorrect

-----------------------------------------------------------------------------
(* The extension's queue of proposals.                                       *)
Decided(q) == call[q] \in {"approved", "rejected"}
Taken(p) == DecidedOnDesktop(p) \/ Handed(p)

\* Each write under way has loaded what is to stay in the queue; one that adds is
\* alone, or its proposal is counted as overlapped; one that removes is due.
CopiesKeep == \A w \in writes : \A p \in saved \ overlapped : p \in w.seen \/ Taken(p)
AddsAlone == \A w \in writes : Adds(w) => w.id <= proposed /\ (w.id \in overlapped \/ writes = {w})
RemovalsDue ==
    \A w \in writes : /\ w.of = "desktop" => Decided(w.id)
                      /\ w.of = "phone" => phone[w.id] = "received"
QueueInv == NoProposalIsLost /\ CopiesKeep /\ AddsAlone /\ RemovalsDue
EditsInv == EditsTypeOK /\ QueueInv

\* What a write is.
LEMMA WriteFacts ==
    ASSUME NEW w \in Write
    PROVE  /\ w.of \in {"page", "form", "desktop", "phone"} /\ w.seen \subseteq Proposal
           /\ (Adds(w) => w.id \in Proposal)
           /\ (w.of = "desktop" => w.id \in Req) /\ (w.of = "phone" => w.id \in Delivery)
BY DEF Write, Adds

LEMMA WriteMade ==
    ASSUME NEW of, NEW id, NEW seen \in SUBSET Proposal,
           \/ of \in {"page", "form"} /\ id \in Proposal
           \/ of = "desktop" /\ id \in Req
           \/ of = "phone" /\ id \in Delivery
    PROVE  [of |-> of, id |-> id, seen |-> seen] \in Write
BY DEF Write

\* The queue of proposals: at the start, and through every step.
LEMMA EditsInitInv == ASSUME EditsInit PROVE EditsInv
<1>1. EditsTypeOK
  <2>1. popup \in BOOLEAN /\ buttons \in BOOLEAN BY Zenon DEF EditsInit
  <2>2. QED BY <2>1, EditsAssumption DEF EditsInit, EditsTypeOK, Delivery, Proposal
<1>2. QueueInv BY DEF EditsInit, QueueInv, NoProposalIsLost, CopiesKeep, AddsAlone, RemovalsDue
<1>3. QED BY <1>1, <1>2 DEF EditsInv

\* A call that was decided stays so.
LEMMA DecidedStays ==
    ASSUME ChannelInv, [LocalNext]_localVars, NEW q \in Req, Decided(q) PROVE call'[q] = call[q]
<1> USE DEF Decided
<1>1. call \in [Req -> CallStates] BY DEF ChannelInv, ChannelTyped
<1>2. ASSUME NEW p \in Req, Park(p) PROVE call'[q] = call[q] BY <1>1, <1>2 DEF Park
<1>3. ASSUME NEW G, HangUp(G) PROVE call'[q] = call[q] BY <1>1, <1>3 DEF HangUp
<1>4. ASSUME NEW p \in Req, NEW o, Resolve(p, o) PROVE call'[q] = call[q]
  BY <1>1, <1>4 DEF Resolve, Answer
<1>5. ASSUME NEW p \in Req, Expire(p) \/ TimeoutFires(p) \/ ClearSlot(p) PROVE call'[q] = call[q]
  BY <1>1, <1>5 DEF Expire, TimeoutFires, ClearSlot, Answer
<1>6. ASSUME NEW w \in work, Do(w) \/ Succeed(w) \/ Fail(w) PROVE call'[q] = call[q]
  <2>1. w.req \in Req BY DEF ChannelInv, WorkInv, WorkRecord
  <2>2. QED BY <1>4, <1>6, <2>1 DEF Do, Succeed, Fail
<1>7. CASE ChannelStep
  BY <1>4, <1>5, <1>6, <1>7 DEF ChannelStep, AskPending, StartListening, ShowEvent, Remount, StartApproval,
     ApproveAtOnce, Reject
<1>8. CASE OtherPrograms BY <1>2, <1>3, <1>8 DEF OtherPrograms, Disconnect
<1>9. CASE EditsStep BY <1>2, <1>3, <1>9, EditsTouch DEF channelVars
<1>10. CASE AutofillStep BY <1>2, <1>10, AutofillTouches DEF channelVars
<1>11. CASE UNCHANGED localVars BY <1>11 DEF localVars, channelVars
<1>12. QED BY <1>7, <1>8, <1>9, <1>10, <1>11 DEF LocalNext

\* What was decided or handed over stays so if no decided batch and no parcel is
\* written again.
LEMMA TakenStays ==
    ASSUME ChannelInv, [LocalNext]_localVars,
           \A q \in Req : Decided(q) => batch'[q] = batch[q],
           \A d \in Delivery : phone[d] = "received" => phone'[d] = "received",
           \A d \in Delivery : parcel[d] \subseteq parcel'[d],
           NEW p, Taken(p)
    PROVE  Taken(p)'
<1>1. CASE DecidedOnDesktop(p)
  <2>1. PICK q \in Req : p \in batch[q] /\ call[q] \in {"approved", "rejected"} BY <1>1 DEF DecidedOnDesktop
  <2>2. call'[q] = call[q] BY <2>1, DecidedStays DEF Decided
  <2>3. QED BY <2>1, <2>2 DEF Decided, DecidedOnDesktop, Taken
<1>2. CASE Handed(p) BY <1>2 DEF Handed, Taken
<1>3. QED BY <1>1, <1>2 DEF Taken

\* A step that saves and loads nothing of the queue: at most writes are given up.
LEMMA QueueStays ==
    ASSUME EditsInv, ChannelInv, [LocalNext]_localVars, UNCHANGED <<queue, proposed, saved, overlapped>>,
           writes' \subseteq writes,
           \A q \in Req : Decided(q) => batch'[q] = batch[q],
           \A d \in Delivery : phone[d] = "received" => phone'[d] = "received",
           \A d \in Delivery : parcel[d] \subseteq parcel'[d]
    PROVE  QueueInv'
<1>0. QueueInv /\ writes \subseteq Write BY DEF EditsInv, EditsTypeOK
<1>1. \A p : Taken(p) => Taken(p)' BY TakenStays
<1>2. NoProposalIsLost' BY <1>0, <1>1 DEF QueueInv, NoProposalIsLost, Taken
<1>3. CopiesKeep' BY <1>0, <1>1 DEF QueueInv, CopiesKeep
<1>4. AddsAlone' BY <1>0 DEF QueueInv, AddsAlone, Adds
<1>5. ASSUME NEW w \in writes' PROVE (w.of = "desktop" => Decided(w.id)') /\ (w.of = "phone" => phone'[w.id] = "received")
  <2>1. w \in writes /\ w \in Write BY <1>0, <1>5
  <2>2. (w.of = "desktop" => w.id \in Req) /\ (w.of = "phone" => w.id \in Delivery) BY <2>1, WriteFacts
  <2>3. (w.of = "desktop" => Decided(w.id)) /\ (w.of = "phone" => phone[w.id] = "received")
    BY <1>0, <2>1 DEF QueueInv, RemovalsDue
  <2>4. QED BY <2>2, <2>3, DecidedStays DEF Decided
<1>6. RemovalsDue' BY <1>5 DEF RemovalsDue, Decided
<1>7. QED BY <1>2, <1>3, <1>4, <1>6 DEF QueueInv

LEMMA EditsStay == ASSUME EditsInv, ChannelInv, [LocalNext]_localVars, UNCHANGED editVars PROVE EditsInv'
<1>1. EditsTypeOK' BY DEF EditsInv, EditsTypeOK, editVars, queueVars, OfPopup
<1>2. QueueInv' BY QueueStays DEF editVars, queueVars
<1>3. QED BY <1>1, <1>2 DEF EditsInv

\* A write that begins: its copy is the queue, and what is added meanwhile is marked.
LEMMA LoadInv ==
    ASSUME EditsInv, ChannelInv, [LocalNext]_localVars, NEW of, NEW id, Load(of, id),
           UNCHANGED <<queue, saved, channelVars, batch, parcel>>, proposed' \in Nat, proposed' >= proposed,
           \A d \in Delivery : phone[d] = "received" => phone'[d] = "received",
           \/ of \in {"page", "form"} /\ id \in Proposal /\ id <= proposed'
           \/ of = "desktop" /\ id \in Req /\ Decided(id)
           \/ of = "phone" /\ id \in Delivery /\ phone'[id] = "received"
    PROVE  QueueInv' /\ writes' \subseteq Write /\ overlapped' \subseteq 1..proposed'
<1> DEFINE v == [of |-> of, id |-> id, seen |-> queue]
<1>0. QueueInv /\ writes \subseteq Write /\ queue \subseteq Proposal /\ overlapped \subseteq 1..proposed
      /\ proposed \in Nat /\ MaxProposals \in Nat
  BY EditsAssumption DEF EditsInv, EditsTypeOK
<1>1. v.of = of /\ v.id = id /\ v.seen = queue OBVIOUS
<1>2. v \in Write BY <1>0, WriteMade
<1> HIDE DEF v
<1>3. writes' = writes \cup {v} BY DEF Load, v
<1>4. writes' \subseteq Write BY <1>0, <1>2, <1>3
<1>5. overlapped \subseteq overlapped' BY DEF Load
<1>6. \A w \in writes' : Adds(w) => w.id \in Proposal /\ w.id <= proposed'
  <2>1. \A w \in writes' : Adds(w) => w.id \in Proposal BY <1>4, WriteFacts
  <2>2. \A w \in writes : Adds(w) => w.id <= proposed BY <1>0 DEF QueueInv, AddsAlone
  <2>3. \A w \in writes : Adds(w) => w.id <= proposed' BY <1>0, <1>3, <2>1, <2>2 DEF Proposal
  <2>4. Adds(v) => v.id <= proposed' BY <1>1 DEF Adds
  <2>5. QED BY <1>3, <2>1, <2>3, <2>4
<1>7. \A x \in Adding(writes') : x \in 1..proposed' BY <1>0, <1>6 DEF Adding, Proposal
<1>8. overlapped' \subseteq 1..proposed'
  <2>1. overlapped' \subseteq overlapped \cup Adding(writes') BY DEF Load
  <2>2. \A x \in 1..proposed : x \in 1..proposed' BY <1>0
  <2>3. QED BY <1>0, <1>7, <2>1, <2>2
<1>9. \A p : Taken(p) => Taken(p)' BY TakenStays
<1>10. NoProposalIsLost' BY <1>0, <1>5, <1>9 DEF QueueInv, NoProposalIsLost, Taken
<1>11. CopiesKeep'
  <2> SUFFICES ASSUME NEW w \in writes', NEW p \in saved \ overlapped' PROVE p \in w.seen \/ Taken(p)'
    BY DEF CopiesKeep
  <2>1. p \in saved \ overlapped BY <1>5
  <2>2. CASE w \in writes BY <1>0, <1>9, <2>1, <2>2 DEF QueueInv, CopiesKeep
  <2>3. CASE w = v BY <1>0, <1>1, <1>9, <2>1, <2>3 DEF QueueInv, NoProposalIsLost, Taken
  <2>4. QED BY <1>3, <2>2, <2>3
<1>12. AddsAlone'
  <2> SUFFICES ASSUME NEW w \in writes', Adds(w) PROVE w.id <= proposed' /\ (w.id \in overlapped' \/ writes' = {w})
    BY DEF AddsAlone, Adds
  <2>1. CASE writes = {} BY <1>3, <1>6, <2>1
  <2>2. CASE writes # {}
    <3>1. w.id \in Adding(writes') BY DEF Adding
    <3>2. QED BY <1>6, <2>2, <3>1 DEF Load
  <2>3. QED BY <2>1, <2>2
<1>13. ASSUME NEW w \in writes' PROVE (w.of = "desktop" => Decided(w.id)') /\ (w.of = "phone" => phone'[w.id] = "received")
  <2>1. call' = call BY DEF channelVars
  <2>2. w.of = "phone" => w.id \in Delivery BY <1>4, WriteFacts
  <2>3. CASE w \in writes BY <1>0, <2>1, <2>2, <2>3 DEF QueueInv, RemovalsDue, Decided
  <2>4. CASE w = v BY <1>1, <2>1, <2>4 DEF Decided
  <2>5. QED BY <1>3, <2>3, <2>4
<1>14. RemovalsDue' BY <1>13 DEF RemovalsDue, Decided
<1>15. QED BY <1>4, <1>8, <1>10, <1>11, <1>12, <1>14 DEF QueueInv

\* A write that ends: what its copy lacks is decided, received or overlapped.
LEMMA SaveInv ==
    ASSUME EditsInv, NEW w, Save(w), UNCHANGED <<channelVars, proposed, overlapped, batch, parcel, phone>>,
           saved' = saved \cup Adding({w})
    PROVE  QueueInv' /\ writes' \subseteq writes /\ queue' \subseteq Proposal
<1>0. QueueInv /\ writes \subseteq Write /\ w \in writes BY DEF EditsInv, EditsTypeOK, Save
<1>1. w \in Write BY <1>0
<1>2. w.of \in {"page", "form", "desktop", "phone"} /\ w.seen \subseteq Proposal /\ (Adds(w) => w.id \in Proposal)
      /\ (w.of = "desktop" => w.id \in Req) /\ (w.of = "phone" => w.id \in Delivery)
  BY <1>1, WriteFacts
<1>3. Adding({w}) = IF Adds(w) THEN {w.id} ELSE {} BY DEF Adding
<1>4. writes' = writes \ {w} /\ queue' = (w.seen \ Removal(w)) \cup Adding({w}) BY DEF Save
<1>5. \A p : Taken(p)' <=> Taken(p) BY DEF Taken, DecidedOnDesktop, Handed, channelVars
<1>6. \A p \in Removal(w) : Taken(p)
  <2>1. CASE w.of = "desktop"
    <3>1. call[w.id] \in {"approved", "rejected"} BY <1>0, <2>1 DEF QueueInv, RemovalsDue, Decided
    <3>2. QED BY <1>2, <2>1, <3>1 DEF Removal, Adds, Taken, DecidedOnDesktop
  <2>2. CASE w.of = "phone"
    <3>1. phone[w.id] = "received" BY <1>0, <2>2 DEF QueueInv, RemovalsDue
    <3>2. QED BY <1>2, <2>2, <3>1 DEF Removal, Adds, Taken, Handed
  <2>3. CASE Adds(w) BY <2>3 DEF Removal
  <2>4. QED BY <1>2, <2>1, <2>2, <2>3 DEF Adds
<1>7. NoProposalIsLost'
  <2> SUFFICES ASSUME NEW p \in saved' \ queue' PROVE Taken(p)' \/ p \in overlapped'
    BY DEF NoProposalIsLost, Taken
  <2>1. p \in saved BY <1>4
  <2>2. p \in overlapped \/ p \in w.seen \/ Taken(p) BY <1>0, <2>1 DEF QueueInv, CopiesKeep
  <2>3. QED BY <1>4, <1>5, <1>6, <2>2
<1>8. CopiesKeep'
  <2> SUFFICES ASSUME NEW x \in writes', NEW p \in saved' \ overlapped' PROVE p \in x.seen \/ Taken(p)'
    BY DEF CopiesKeep
  <2>1. x \in writes /\ x # w BY <1>4
  <2>2. p \in saved
    <3>1. Adds(w) => w.id \in overlapped BY <1>0, <2>1 DEF QueueInv, AddsAlone
    <3>2. QED BY <1>3, <3>1
  <2>3. QED BY <1>0, <1>5, <2>1, <2>2 DEF QueueInv, CopiesKeep
<1>9. AddsAlone'
  <2>1. \A x \in writes : Adds(x) => x.id <= proposed /\ (x.id \in overlapped \/ writes = {x})
    BY <1>0 DEF QueueInv, AddsAlone
  <2>2. \A x \in writes' : Adds(x) => x.id <= proposed' /\ x.id \in overlapped' BY <1>0, <1>4, <2>1
  <2>3. QED BY <2>2 DEF AddsAlone, Adds
<1>10. RemovalsDue' BY <1>0, <1>4 DEF QueueInv, RemovalsDue, Decided, channelVars
<1>11. queue' \subseteq Proposal BY <1>2, <1>3, <1>4
<1>12. QED BY <1>4, <1>7, <1>8, <1>9, <1>10, <1>11 DEF QueueInv

\* The steps of the extension, and of the whole composition.
LEMMA EditsNextInv ==
    ASSUME EditsInv, ChannelInv, kind = "vaultEdit", EditsStep, UNCHANGED fillVars PROVE EditsInv'
<1>0. [LocalNext]_localVars BY DEF LocalNext
<1>1. EditsTypeOK /\ MaxProposals \in Nat /\ MaxDeliveries \in Nat BY EditsAssumption DEF EditsInv
<1>2. ASSUME NEW of \in {"page", "form"}, Propose(of) PROVE EditsInv'
  <2>1. proposed \in Nat /\ proposed' = proposed + 1 /\ proposed + 1 \in Proposal /\ Load(of, proposed + 1)
    BY <1>1, <1>2 DEF Propose, EditsTypeOK, Proposal
  <2>2. QueueInv' /\ writes' \subseteq Write /\ overlapped' \subseteq 1..proposed'
    BY <1>0, <1>2, <2>1, LoadInv DEF Propose, Proposal
  <2>3. popup' \/ \A w \in writes' : ~OfPopup(w)
    <3>1. CASE popup BY <1>2, <3>1, Zenon DEF Propose
    <3>2. CASE ~popup
      <4>1. of = "page" BY <1>2, <3>2 DEF Propose
      <4>2. QED BY <1>1, <2>1, <3>2, <4>1 DEF EditsTypeOK, Load, OfPopup
    <3>3. QED BY <3>1, <3>2
  <2>4. EditsTypeOK'
    BY <1>1, <1>2, <2>1, <2>2, <2>3 DEF EditsTypeOK, Propose, Proposal, OfPopup
  <2>5. QED BY <2>2, <2>4 DEF EditsInv
<1>3. ASSUME NEW w \in writes, Proposed(w) PROVE EditsInv'
  <2>1. Adding({w}) = {w.id} BY <1>3 DEF Proposed, Adding
  <2>2. QueueInv' /\ writes' \subseteq writes /\ queue' \subseteq Proposal
    BY <1>3, <2>1, SaveInv DEF Proposed
  <2>3. w.id \in 1..proposed
    <3>1. w \in Write BY <1>1 DEF EditsTypeOK
    <3>2. w.id \in Proposal BY <1>3, <3>1, WriteFacts DEF Proposed
    <3>3. w.id <= proposed BY <1>3 DEF Proposed, EditsInv, QueueInv, AddsAlone
    <3>4. QED BY <1>1, <3>2, <3>3 DEF EditsTypeOK, Proposal
  <2>4. EditsTypeOK' BY <1>1, <1>3, <2>2, <2>3 DEF EditsTypeOK, Proposed, OfPopup
  <2>5. QED BY <2>2, <2>4 DEF EditsInv
<1>4. CASE OpenEdits
  <2>1. popup' = TRUE /\ popup' \in BOOLEAN BY <1>4, Zenon DEF OpenEdits
  <2>2. EditsTypeOK' BY <1>1, <1>4, <2>1 DEF EditsTypeOK, OpenEdits, queueVars
  <2>3. QueueInv' BY <1>0, <1>4, QueueStays DEF OpenEdits, queueVars
  <2>4. QED BY <2>2, <2>3 DEF EditsInv
<1>5. CASE CloseEdits
  <2>1. popup' \in BOOLEAN /\ buttons' \in BOOLEAN /\ buttons' = TRUE BY <1>5, Zenon DEF CloseEdits
  <2>2. EditsTypeOK' BY <1>1, <1>5, <2>1 DEF EditsTypeOK, CloseEdits, OfPopup
  <2>3. QueueInv' BY <1>0, <1>5, QueueStays DEF CloseEdits
  <2>4. QED BY <2>2, <2>3 DEF EditsInv
<1>6. CASE SendToPhone
  <2>1. buttons' \in BOOLEAN BY <1>6, Zenon DEF SendToPhone
  <2>2. EditsTypeOK' BY <1>1, <1>6, <2>1 DEF EditsTypeOK, SendToPhone, queueVars
  <2>3. QueueInv' BY <1>0, <1>6, QueueStays DEF SendToPhone, queueVars
  <2>4. QED BY <2>2, <2>3 DEF EditsInv
<1>7. CASE PermissionDenied
  <2>1. buttons' \in BOOLEAN /\ buttons' = TRUE BY <1>7, Zenon DEF PermissionDenied
  <2>2. EditsTypeOK' BY <1>1, <1>7, <2>1 DEF EditsTypeOK, PermissionDenied, queueVars, OfPopup
  <2>3. QueueInv' BY <1>0, <1>7, QueueStays DEF PermissionDenied, queueVars
  <2>4. QED BY <2>2, <2>3 DEF EditsInv
<1>8. CASE RetryDelivery
  <2>1. buttons' \in BOOLEAN BY <1>8, Zenon DEF RetryDelivery
  <2>2. EditsTypeOK' BY <1>1, <1>8, <2>1 DEF EditsTypeOK, RetryDelivery, queueVars
  <2>3. QueueInv' BY <1>0, <1>8, QueueStays DEF RetryDelivery, queueVars
  <2>4. QED BY <2>2, <2>3 DEF EditsInv
<1>9. ASSUME NEW q \in Req, SendToDesktop(q) PROVE EditsInv'
  <2>1. buttons' \in BOOLEAN BY <1>9, Zenon DEF SendToDesktop
  <2>2. EditsTypeOK' BY <1>1, <1>9, <2>1 DEF EditsTypeOK, SendToDesktop, queueVars
  <2>3. \A s \in Req : Decided(s) => batch'[s] = batch[s]
    BY <1>1, <1>9 DEF SendToDesktop, Park, Decided, EditsTypeOK
  <2>4. QueueInv' BY <1>0, <1>9, <2>3, QueueStays DEF SendToDesktop, queueVars
  <2>5. QED BY <2>2, <2>4 DEF EditsInv
<1>10. ASSUME NEW q \in Req, DesktopDecided(q) PROVE EditsInv'
  <2>1. proposed' = proposed /\ proposed \in Nat BY <1>1, <1>10 DEF DesktopDecided, EditsTypeOK
  <2>2. QueueInv' /\ writes' \subseteq Write /\ overlapped' \subseteq 1..proposed'
    BY <1>0, <1>10, <2>1, LoadInv DEF DesktopDecided, Decided
  <2>3. popup /\ popup' = popup BY <1>1, <1>10 DEF DesktopDecided, EditsTypeOK
  <2>4. EditsTypeOK' BY <1>1, <1>10, <2>2, <2>3 DEF EditsTypeOK, DesktopDecided
  <2>5. QED BY <2>2, <2>4 DEF EditsInv
<1>11. ASSUME NEW w \in writes, BatchRemoved(w) PROVE EditsInv'
  <2>1. buttons' \in BOOLEAN /\ buttons' = TRUE BY <1>11, Zenon DEF BatchRemoved
  <2>2. Adding({w}) = {} BY <1>11 DEF BatchRemoved, Adding, Adds
  <2>3. QueueInv' /\ writes' \subseteq writes /\ queue' \subseteq Proposal
    BY <1>11, <2>2, SaveInv DEF BatchRemoved
  <2>4. EditsTypeOK' BY <1>1, <1>11, <2>1, <2>3 DEF EditsTypeOK, BatchRemoved, OfPopup
  <2>5. QED BY <2>3, <2>4 DEF EditsInv
<1>12. ASSUME NEW q \in Req, DesktopFailed(q) PROVE EditsInv'
  <2>1. buttons' \in BOOLEAN /\ buttons' = TRUE BY <1>12, Zenon DEF DesktopFailed
  <2>2. EditsTypeOK' BY <1>1, <1>12, <2>1 DEF EditsTypeOK, DesktopFailed, queueVars, OfPopup
  <2>3. QueueInv' BY <1>0, <1>12, QueueStays DEF DesktopFailed, queueVars
  <2>4. QED BY <2>2, <2>3 DEF EditsInv
<1>13. ASSUME NEW d \in Delivery, StartDelivery(d) PROVE EditsInv'
  <2>1. buttons' \in BOOLEAN BY <1>13, Zenon DEF StartDelivery
  <2>2. EditsTypeOK' BY <1>1, <1>13, <2>1 DEF EditsTypeOK, StartDelivery, queueVars
  <2>3. \A e \in Delivery : parcel[e] \subseteq parcel'[e]
    BY <1>1, <1>13 DEF StartDelivery, Started, EditsTypeOK
  <2>4. QueueInv' BY <1>0, <1>13, <2>3, QueueStays DEF StartDelivery, queueVars
  <2>5. QED BY <2>2, <2>4 DEF EditsInv
<1>14. ASSUME NEW d \in Delivery, Scan(d) PROVE EditsInv'
  <2>1. EditsTypeOK' BY <1>1, <1>14 DEF EditsTypeOK, Scan, queueVars, OfPopup
  <2>2. \A e \in Delivery : phone[e] = "received" => phone'[e] = "received"
    BY <1>1, <1>14 DEF Scan, EditsTypeOK
  <2>3. QueueInv' BY <1>0, <1>14, <2>2, QueueStays DEF Scan, queueVars
  <2>4. QED BY <2>1, <2>3 DEF EditsInv
<1>15. ASSUME NEW d \in Delivery, ReceiveUnheard(d) PROVE EditsInv'
  <2>1. EditsTypeOK' BY <1>1, <1>15 DEF EditsTypeOK, ReceiveUnheard, queueVars, OfPopup
  <2>2. \A e \in Delivery : phone[e] = "received" => phone'[e] = "received"
    BY <1>1, <1>15 DEF ReceiveUnheard, EditsTypeOK
  <2>3. QueueInv' BY <1>0, <1>15, <2>2, QueueStays DEF ReceiveUnheard, queueVars
  <2>4. QED BY <2>1, <2>3 DEF EditsInv
<1>16. ASSUME NEW d \in Delivery, Delivered(d) PROVE EditsInv'
  <2>1. proposed' = proposed /\ proposed \in Nat BY <1>1, <1>16 DEF Delivered, EditsTypeOK
  <2>2. phone'[d] = "received" /\ \A e \in Delivery : phone[e] = "received" => phone'[e] = "received"
    BY <1>1, <1>16 DEF Delivered, EditsTypeOK
  <2>3. QueueInv' /\ writes' \subseteq Write /\ overlapped' \subseteq 1..proposed'
    BY <1>0, <1>16, <2>1, <2>2, LoadInv DEF Delivered
  <2>4. popup /\ popup' = popup BY <1>1, <1>16 DEF Delivered, EditsTypeOK
  <2>5. EditsTypeOK' BY <1>1, <1>16, <2>3, <2>4 DEF EditsTypeOK, Delivered
  <2>6. QED BY <2>3, <2>5 DEF EditsInv
<1>17. ASSUME NEW w \in writes, ParcelRemoved(w) PROVE EditsInv'
  <2>1. buttons' \in BOOLEAN /\ buttons' = TRUE BY <1>17, Zenon DEF ParcelRemoved
  <2>2. Adding({w}) = {} BY <1>17 DEF ParcelRemoved, Adding, Adds
  <2>3. QueueInv' /\ writes' \subseteq writes /\ queue' \subseteq Proposal
    BY <1>17, <2>2, SaveInv DEF ParcelRemoved
  <2>4. EditsTypeOK' BY <1>1, <1>17, <2>1, <2>3 DEF EditsTypeOK, ParcelRemoved, OfPopup
  <2>5. QED BY <2>3, <2>4 DEF EditsInv
<1>18. ASSUME NEW d \in Delivery, NotDelivered(d) PROVE EditsInv'
  <2>1. buttons' \in BOOLEAN /\ buttons' = TRUE BY <1>18, Zenon DEF NotDelivered
  <2>2. EditsTypeOK' BY <1>1, <1>18, <2>1 DEF EditsTypeOK, NotDelivered, queueVars, OfPopup
  <2>3. QueueInv' BY <1>0, <1>18, QueueStays DEF NotDelivered, queueVars
  <2>4. QED BY <2>2, <2>3 DEF EditsInv
<1>19. QED
  BY <1>2, <1>3, <1>4, <1>5, <1>6, <1>7, <1>8, <1>9, <1>10, <1>11, <1>12, <1>13, <1>14, <1>15, <1>16,
     <1>17, <1>18 DEF EditsStep

LEMMA EditsLocalNext == ASSUME EditsInv, ChannelInv, [LocalNext]_localVars PROVE EditsInv'
<1>1. UNCHANGED editVars \/ (kind = "vaultEdit" /\ EditsStep /\ UNCHANGED fillVars)
  BY DEF LocalNext, localVars
<1>2. QED BY <1>1, EditsStay, EditsNextInv

\* For any proposals, deliveries and writes of the queue: a proposal that was queued
\* while nothing else wrote the queue leaves it only decided by the user or taken by
\* the phone (pendingEdits.ts, popup/main.ts).
THEOREM EditsCorrectHolds == LocalSpec => []EditsCorrect
<1>1. LocalInit => ChannelInv /\ EditsInv BY ChannelInitInv, EditsInitInv DEF LocalInit
<1>2. ChannelInv /\ EditsInv /\ [LocalNext]_localVars => ChannelInv' /\ EditsInv'
  BY ChannelNextInv, EditsLocalNext
<1>3. EditsInv => EditsCorrect BY DEF EditsInv, QueueInv, EditsCorrect
<1>4. QED BY <1>1, <1>2, <1>3, PTL DEF LocalSpec

-----------------------------------------------------------------------------
(* Autofill.                                                                 *)
AnswersInv ==
    /\ AutofillTypeOK
    /\ \A k \in Panel : k > opened => ask[k] = "new"
    /\ \A k \in Panel : desktop[k] # None => ask[k] # "new"
    /\ \A k \in Panel : fills[k] <= 1 /\ (fills[k] > 0 => ask[k] = "resolved")

\* The answers of a page's requests: at the start, and through every step.
LEMMA AutofillInitInv == ASSUME AutofillInit PROVE AnswersInv
<1>1. mutated \in BOOLEAN BY Zenon DEF AutofillInit
<1>2. QED BY <1>1, AutofillAssumption DEF AutofillInit, AnswersInv, AutofillTypeOK, Panel, None

\* What an answer does to the requests it reaches.
LEMMA Applied ==
    ASSUME AnswersInv, NEW K, NEW a, ApplyResult(K, a), \A k \in K : k \in Panel => ask[k] # "new"
    PROVE  /\ ask' \in [Panel -> {"new", "permission", "drawing", "asking", "resolved", "stopped"}]
           /\ fills' \in [Panel -> Nat]
           /\ \A k \in Panel : k > opened => ask'[k] = "new"
           /\ \A k \in Panel : ask[k] # "new" => ask'[k] # "new"
           /\ \A k \in Panel : fills'[k] <= 1 /\ (fills'[k] > 0 => ask'[k] = "resolved")
           /\ \A k \in Panel : ask'[k] # ask[k] => k \in K
<1> DEFINE first == {k \in K : ask[k] # "resolved"}
<1>1. /\ ask' = [k \in Panel |-> IF k \in first THEN "resolved" ELSE ask[k]]
      /\ fills' = [k \in Panel |-> IF k \in first /\ a = "filled" THEN fills[k] + 1 ELSE fills[k]]
  BY DEF ApplyResult
<1>2. \A k \in Panel : fills[k] \in Nat /\ fills[k] <= 1 /\ (fills[k] > 0 => ask[k] = "resolved")
  BY DEF AnswersInv, AutofillTypeOK
<1>3. \A k \in first : k \in Panel => fills[k] = 0 BY <1>2
<1>4. ASSUME NEW k \in Panel
      PROVE  fills'[k] \in Nat /\ fills'[k] <= 1 /\ (fills'[k] > 0 => ask'[k] = "resolved")
  BY <1>1, <1>2, <1>3
<1>5. fills' = [k \in Panel |-> fills'[k]] /\ ask' = [k \in Panel |-> ask'[k]] BY <1>1
<1>6. \A k \in Panel : ask'[k] \in {"new", "permission", "drawing", "asking", "resolved", "stopped"}
  BY <1>1 DEF AnswersInv, AutofillTypeOK
<1>7. fills' \in [Panel -> Nat] BY <1>4, <1>5, Zenon
<1>8. ask' \in [Panel -> {"new", "permission", "drawing", "asking", "resolved", "stopped"}] BY <1>5, <1>6, Zenon
<1>9. \A k \in Panel : (k > opened => ask'[k] = "new") /\ (ask[k] # "new" => ask'[k] # "new")
  BY <1>1 DEF AnswersInv
<1>10. QED BY <1>1, <1>4, <1>7, <1>8, <1>9

\* Steps of the others, of autofill, and of the whole composition.
LEMMA AnswersStay == ASSUME AnswersInv, UNCHANGED fillVars PROVE AnswersInv'
BY DEF AnswersInv, AutofillTypeOK, fillVars, scanVars

LEMMA AutofillStepInv == ASSUME AnswersInv, ChannelInv, AutofillStep PROVE AnswersInv'
<1> USE AutofillAssumption
<1>1. AutofillTypeOK /\ MaxFields \in Nat /\ MaxPanels \in Nat BY DEF AnswersInv
<1>2. CASE Render
  <2>1. mutated' \in BOOLEAN BY <1>2, Zenon DEF Render
  <2>2. AutofillTypeOK' BY <1>1, <1>2, <2>1 DEF Render, AutofillTypeOK
  <2>3. QED BY <1>2, <2>2 DEF Render, AnswersInv
<1>3. CASE ScanPage
  <2>1. mutated' \in BOOLEAN BY <1>3, Zenon DEF ScanPage
  <2>2. processed' = 1..visible /\ group' \subseteq processed'
    BY <1>1, <1>3 DEF ScanPage, AutofillTypeOK
  <2>3. AutofillTypeOK' BY <1>1, <1>3, <2>1, <2>2 DEF ScanPage, AutofillTypeOK
  <2>4. QED BY <1>3, <2>3 DEF ScanPage, AnswersInv
<1>4. CASE ClickIcon
  <2>1. opened \in 0..MaxPanels /\ opened < MaxPanels /\ opened' = opened + 1 /\ panel' = opened'
    BY <1>1, <1>4 DEF ClickIcon, AutofillTypeOK
  <2>2. opened' \in Panel /\ opened' > opened BY <2>1 DEF Panel
  <2>3. ask[opened'] = "new" BY <2>2 DEF AnswersInv
  <2>4. UNCHANGED <<visible, processed, mutated, group, alarms, answer, over, desktop, fills>>
        /\ ask' = [ask EXCEPT ![opened'] = "permission"]
    BY <1>4 DEF ClickIcon, scanVars
  <2>5. AutofillTypeOK' BY <1>1, <2>1, <2>2, <2>4 DEF AutofillTypeOK
  <2>6. \A k \in Panel : k > opened' => ask'[k] = "new"
    BY <1>1, <2>1, <2>2, <2>4 DEF AnswersInv, AutofillTypeOK, Panel
  <2>7. \A k \in Panel : ask'[k] = "new" => ask[k] = "new" BY <1>1, <2>4 DEF AutofillTypeOK
  <2>8. \A k \in Panel : ask[k] = "resolved" => ask'[k] = "resolved"
    BY <1>1, <2>3, <2>4 DEF AutofillTypeOK
  <2>9. QED BY <2>4, <2>5, <2>6, <2>7, <2>8 DEF AnswersInv
<1>5. CASE ClosePanel
  <2>1. AutofillTypeOK' BY <1>1, <1>5 DEF ClosePanel, AutofillTypeOK, scanVars
  <2>2. QED BY <1>5, <2>1 DEF ClosePanel, AnswersInv, scanVars
<1>6. ASSUME NEW k \in Panel, PermissionAnswered(k) PROVE AnswersInv'
  <2>1. AutofillTypeOK' BY <1>1, <1>6 DEF PermissionAnswered, AutofillTypeOK, scanVars
  <2>2. \A i \in Panel : IF i = k THEN ask[i] = "permission" /\ ask'[i] \in {"stopped", "drawing"} ELSE ask'[i] = ask[i]
    BY <1>1, <1>6 DEF PermissionAnswered, AutofillTypeOK
  <2>3. UNCHANGED <<opened, fills, desktop>> BY <1>6 DEF PermissionAnswered
  <2>4. QED BY <2>1, <2>2, <2>3 DEF AnswersInv
<1>7. ASSUME NEW k \in Panel, CodeDrawn(k) PROVE AnswersInv'
  <2>1. UNCHANGED <<visible, processed, mutated, group, opened, panel, answer, over, fills>>
    BY <1>7 DEF CodeDrawn, scanVars
  <2>2. \A i \in Panel : IF i = k THEN ask[i] = "drawing" /\ ask'[i] \in {"stopped", "asking"} ELSE ask'[i] = ask[i]
    BY <1>1, <1>7 DEF CodeDrawn, AutofillTypeOK
  <2>3. /\ ask' \in [Panel -> {"new", "permission", "drawing", "asking", "resolved", "stopped"}]
        /\ alarms' \subseteq Panel /\ desktop' \in [Panel -> Req \cup {None}]
        /\ \A i \in Panel : i # k => desktop'[i] = desktop[i]
    BY <1>1, <1>7 DEF CodeDrawn, AutofillTypeOK
  <2>4. AutofillTypeOK' BY <1>1, <2>1, <2>3 DEF AutofillTypeOK
  <2>5. QED BY <2>1, <2>2, <2>3, <2>4 DEF AnswersInv
<1>8. ASSUME NEW k \in Panel, RequestExpires(k) PROVE AnswersInv'
  <2>1. AutofillTypeOK' BY <1>1, <1>8 DEF RequestExpires, AutofillTypeOK, scanVars
  <2>2. QED BY <1>8, <2>1 DEF RequestExpires, AnswersInv
<1>9. ASSUME NEW k \in Panel, NEW a \in {"filled", "rejected"}, PhoneAnswersRequest(k, a) PROVE AnswersInv'
  <2>1. AutofillTypeOK' BY <1>1, <1>9 DEF PhoneAnswersRequest, AutofillTypeOK, scanVars
  <2>2. QED BY <1>9, <2>1 DEF PhoneAnswersRequest, AnswersInv
<1>10. ASSUME NEW K, NEW a, ApplyResult(K, a), \A k \in K : k \in Panel => ask[k] # "new",
              alarms' \subseteq Panel, desktop' \in [Panel -> Req \cup {None}],
              \A k \in Panel : desktop'[k] # None => desktop[k] # None,
              UNCHANGED <<scanVars, opened, panel, answer, over>>
       PROVE  AnswersInv'
  <2>1. /\ ask' \in [Panel -> {"new", "permission", "drawing", "asking", "resolved", "stopped"}]
        /\ fills' \in [Panel -> Nat]
        /\ \A k \in Panel : k > opened => ask'[k] = "new"
        /\ \A k \in Panel : ask[k] # "new" => ask'[k] # "new"
        /\ \A k \in Panel : fills'[k] <= 1 /\ (fills'[k] > 0 => ask'[k] = "resolved")
    BY <1>10, Applied
  <2>2. AutofillTypeOK' BY <1>1, <1>10, <2>1 DEF AutofillTypeOK, scanVars
  <2>3. QED BY <1>10, <2>1, <2>2 DEF AnswersInv
<1>11. ASSUME NEW k \in Panel, LanAnswered(k) PROVE AnswersInv'
  BY <1>1, <1>10, <1>11 DEF LanAnswered, AutofillTypeOK
<1>12. ASSUME NEW k \in Panel, DropTick(k) PROVE AnswersInv'
  <2> DEFINE K == {i \in Panel : Hears(k, i) /\ ask[i] = "asking"}
  <2>1. ApplyResult(K, answer[k]) /\ alarms' \subseteq Panel /\ desktop' = desktop
        /\ UNCHANGED <<scanVars, opened, panel, answer, over>>
    BY <1>1, <1>12 DEF DropTick, AutofillTypeOK
  <2>2. \A i \in K : i \in Panel => ask[i] # "new" OBVIOUS
  <2>3. desktop' \in [Panel -> Req \cup {None}] BY <1>1, <2>1 DEF AutofillTypeOK
  <2> HIDE DEF K
  <2>4. QED BY <1>10, <2>1, <2>2, <2>3
<1>13. ASSUME NEW k \in Panel, DesktopSpeaks(k) PROVE AnswersInv'
  <2>1. /\ alarms' \subseteq Panel /\ desktop' = [desktop EXCEPT ![k] = None] /\ desktop[k] # None
        /\ UNCHANGED <<scanVars, opened, panel, answer, over>>
    BY <1>1, <1>13 DEF DesktopSpeaks, AutofillTypeOK
  <2>2. desktop' \in [Panel -> Req \cup {None}] /\ \A i \in Panel : desktop'[i] # None => desktop[i] # None
    BY <1>1, <2>1 DEF AutofillTypeOK
  <2>3. ask[k] # "new" BY <2>1 DEF AnswersInv
  <2>4. CASE \E a : ApplyResult({k}, a) BY <1>10, <2>1, <2>2, <2>3, <2>4
  <2>5. CASE UNCHANGED <<ask, fills>>
    <3>1. AutofillTypeOK' BY <1>1, <2>1, <2>2, <2>5 DEF AutofillTypeOK, scanVars
    <3>2. QED BY <2>1, <2>2, <2>5, <3>1 DEF AnswersInv
  <2>6. QED
    <3>1. CASE call[desktop[k]] = "approved" BY <1>13, <2>4, <3>1 DEF DesktopSpeaks
    <3>2. CASE call[desktop[k]] = "rejected" BY <1>13, <2>4, <3>2 DEF DesktopSpeaks
    <3>3. CASE call[desktop[k]] \notin {"approved", "rejected"} BY <1>13, <2>5, <3>3 DEF DesktopSpeaks
    <3>4. QED BY <3>1, <3>2, <3>3
<1>14. QED
  BY <1>2, <1>3, <1>4, <1>5, <1>6, <1>7, <1>8, <1>9, <1>11, <1>12, <1>13 DEF AutofillStep

LEMMA AutofillLocalNext == ASSUME AnswersInv, ChannelInv, [LocalNext]_localVars PROVE AnswersInv'
<1>1. UNCHANGED fillVars \/ AutofillStep BY DEF LocalNext, localVars
<1>2. QED BY <1>1, AnswersStay, AutofillStepInv

\* For any fields and panels: a form is filled once per request, by an answer to
\* it.
THEOREM AutofillSafeHolds == LocalSpec => []AutofillSafe
<1>1. LocalInit => ChannelInv /\ AnswersInv BY ChannelInitInv, AutofillInitInv DEF LocalInit
<1>2. ChannelInv /\ AnswersInv /\ [LocalNext]_localVars => ChannelInv' /\ AnswersInv'
  BY ChannelNextInv, AutofillLocalNext
<1>3. AnswersInv => AutofillSafe BY DEF AnswersInv, AutofillSafe, FilledOnce
<1>4. QED BY <1>1, <1>2, <1>3, PTL DEF LocalSpec

\* A request is settled by its own answer only, whichever transport brings it
\* (addressOverlay.ts).
THEOREM EndedByItsAnswerHolds == LocalSpec => EndedByItsAnswer
<1>1. LocalInit => ChannelInv /\ AnswersInv BY ChannelInitInv, AutofillInitInv DEF LocalInit
<1>2. ChannelInv /\ AnswersInv /\ [LocalNext]_localVars => ChannelInv' /\ AnswersInv'
  BY ChannelNextInv, AutofillLocalNext
<1>3. ChannelInv /\ AnswersInv /\ [LocalNext]_localVars =>
        [\A k \in Panel : (ask'[k] = "resolved" /\ ask[k] # "resolved") =>
          \/ answer[k] # "none"
          \/ desktop[k] # None /\ call[desktop[k]] \in {"approved", "rejected"}]_<<channelVars, fillVars>>
  <2> SUFFICES ASSUME ChannelInv, AnswersInv, [LocalNext]_localVars,
                      NEW i \in Panel, ask'[i] = "resolved", ask[i] # "resolved"
               PROVE  answer[i] # "none" \/ (desktop[i] # None /\ call[desktop[i]] \in {"approved", "rejected"})
    OBVIOUS
  <2>0. ask \in [Panel -> {"new", "permission", "drawing", "asking", "resolved", "stopped"}]
    BY DEF AnswersInv, AutofillTypeOK
  <2>1. AutofillStep BY DEF LocalNext, localVars, fillVars
  <2>2. ~(Render \/ ScanPage \/ ClickIcon \/ ClosePanel)
    BY <2>0 DEF Render, ScanPage, ClickIcon, ClosePanel
  <2>3. \A k \in Panel : ~(PermissionAnswered(k) \/ CodeDrawn(k) \/ RequestExpires(k)
                           \/ \E a \in {"filled", "rejected"} : PhoneAnswersRequest(k, a))
    BY <2>0 DEF PermissionAnswered, CodeDrawn, RequestExpires, PhoneAnswersRequest
  <2>4. ASSUME NEW k \in Panel, LanAnswered(k) PROVE answer[i] # "none"
    <3>1. i = k BY <2>0, <2>4 DEF LanAnswered, ApplyResult
    <3>2. QED BY <2>4, <3>1 DEF LanAnswered
  <2>5. ASSUME NEW k \in Panel, DropTick(k) PROVE answer[i] # "none"
    <3>1. Hears(k, i) BY <2>0, <2>5 DEF DropTick, ApplyResult
    <3>2. QED BY <2>5, <3>1 DEF DropTick, Hears
  <2>6. ASSUME NEW k \in Panel, DesktopSpeaks(k)
        PROVE  desktop[i] # None /\ call[desktop[i]] \in {"approved", "rejected"}
    <3>1. call[desktop[k]] \in {"approved", "rejected"} /\ desktop[k] # None BY <2>6 DEF DesktopSpeaks
    <3>2. \E a : ApplyResult({k}, a)
      <4>1. CASE call[desktop[k]] = "approved" BY <2>6, <4>1 DEF DesktopSpeaks
      <4>2. CASE call[desktop[k]] = "rejected" BY <2>6, <4>2 DEF DesktopSpeaks
      <4>3. QED BY <3>1, <4>1, <4>2
    <3>3. i = k BY <2>0, <3>2 DEF ApplyResult
    <3>4. QED BY <3>1, <3>3
  <2>7. QED BY <2>1, <2>2, <2>3, <2>4, <2>5, <2>6 DEF AutofillStep
<1>4. QED BY <1>1, <1>2, <1>3, PTL DEF LocalSpec, EndedByItsAnswer

\* Both together, of three transports that race (addressOverlay.ts, background.ts).
THEOREM AutofillCorrectHolds == LocalSpec => AutofillCorrect
BY AutofillSafeHolds, EndedByItsAnswerHolds, PTL DEF AutofillCorrect
=============================================================================
