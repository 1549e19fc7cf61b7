--------------------------- MODULE DesktopRequests ---------------------------
(***************************************************************************)
(* The requests that other programs of the machine send to the Desktop over *)
(* loopback HTTP, and the modals in which the user decides about them.  The *)
(* Rust side keeps one pending request per channel and holds its HTTP call  *)
(* until the decision or a timeout; the window shows what it hears of as an *)
(* event or finds by asking when it mounts.  The channels do not interact,  *)
(* so one is modelled, and `kind` says which: signing a call, editing the   *)
(* vault, pinning content (signing a message is alike) or autofill.         *)
(*                                                                         *)
(* A command sent to the Rust side is answered in the same step.  An event  *)
(* is delivered within the five minutes its request lives, in order.        *)
(***************************************************************************)
EXTENDS Naturals, Sequences, SequencesExt

CONSTANTS
    MaxCalls,       \* bound: kind -> HTTP calls made, numbered in their order
    MaxPresses,     \* bound: times the user approves one request
    MaxRemounts     \* bound: kind -> times the window changes between login and shell

VARIABLES
    kind,           \* which channel this is
    slot,           \* the request parked in the channel
    call,           \* request -> how its HTTP call stands
    clearing,       \* timed-out handlers that have yet to clear the slot
    expired,        \* requests past expiresAtMs
    asked,          \* the mounted hook has asked for the pending request
    listening,      \* the mounted hook listens to events
    events,         \* emitted and not yet delivered
    modal,          \* the request the modal shows
    stage,          \* stage of the modal
    work,           \* runs of handleApprove that wait for their publication
    pressed,        \* request -> approvals by the user
    refused,        \* requests the user has rejected
    effects,        \* request -> times its effect has taken place
    remounts

windowVars == <<asked, listening, events, modal, stage, work, pressed, refused, effects, remounts>>
channelVars == <<kind, slot, call, clearing, expired, windowVars>>

None == 0
Kind == {"sign", "vaultEdit", "pin", "autofill"}
Slow == {"sign", "vaultEdit"}       \* approving takes a transaction

ASSUME RequestsAssumption ==
    /\ MaxCalls \in [Kind -> Nat] /\ MaxPresses \in Nat /\ MaxRemounts \in [Kind -> Nat]

Req == 1..Max(Range(MaxCalls))
Outcome == {"approved", "rejected", "failed", "timeout", "busy"}

ChannelInit ==
    /\ kind \in Kind
    /\ slot = None /\ call = [q \in Req |-> "idle"]
    /\ clearing = {} /\ expired = {}
    /\ asked = FALSE /\ listening = FALSE /\ events = <<>>
    /\ modal = None /\ stage = "idle" /\ work = {}
    /\ pressed = [q \in Req |-> 0] /\ refused = {}
    /\ effects = [q \in Req |-> 0] /\ remounts = 0
-----------------------------------------------------------------------------
(* The Rust side *)

\* try_park, and the event to the window; who is not listening misses it.
Park(q) ==
    /\ q <= MaxCalls[kind] /\ call[q] = "idle" /\ \A p \in 1..(q - 1) : call[p] # "idle"
    /\ IF slot = None
         THEN /\ slot' = q /\ call' = [call EXCEPT ![q] = "waiting"]
              /\ events' = IF listening THEN Append(events, q) ELSE events
         ELSE /\ call' = [call EXCEPT ![q] = "busy"]
              /\ UNCHANGED <<slot, events>>
    /\ UNCHANGED <<kind, clearing, expired, asked, listening, modal, stage, work, pressed,
                   refused, effects, remounts>>

\* A decision reaches the call if that still waits.
Answer(q, outcome) ==
    call' = [call EXCEPT ![q] = IF @ = "waiting" THEN outcome ELSE @]

\* Slip: the decision is passed on and the slot stays taken.
ResolveAndHold(q, outcome) ==
    IF slot = q THEN Answer(q, outcome) /\ UNCHANGED slot
                ELSE UNCHANGED <<call, slot>>

\* resolve refuses the id of a request that is not the pending one.
Resolve(q, outcome) ==
    IF slot = q THEN Answer(q, outcome) /\ slot' = None
                ELSE UNCHANGED <<call, slot>>

\* expiresAtMs is taken before the timeout starts to run.
Expire(q) ==
    /\ slot = q /\ q \notin expired
    /\ q \notin Range(events)
    /\ expired' = expired \cup {q}
    /\ UNCHANGED <<kind, slot, call, clearing, windowVars>>

TimeoutFires(q) ==
    /\ call[q] = "waiting" /\ q \in expired
    /\ call' = [call EXCEPT ![q] = "timeout"]
    /\ clearing' = clearing \cup {q}
    /\ UNCHANGED <<kind, slot, expired, windowVars>>

\* clear empties the slot whoever is in it: a request parked since the
\* timeout loses its responder, and its call fails.
ClearSlot(q) ==
    /\ q \in clearing /\ clearing' = clearing \ {q}
    /\ slot' = None
    /\ IF slot \in Req THEN Answer(slot, "failed") ELSE call' = call
    /\ UNCHANGED <<kind, expired, windowVars>>

\* The program hangs up: the handler is dropped, and its timeout with it.
HangUp(gone) ==
    call' = [q \in Req |-> IF q \in gone /\ call[q] = "waiting" THEN "gone" ELSE call[q]]

Disconnect(q) ==
    /\ call[q] = "waiting" /\ kind # "vaultEdit"
    /\ HangUp({q})
    /\ UNCHANGED <<kind, slot, clearing, expired, windowVars>>
-----------------------------------------------------------------------------
(* The window *)

\* The hook's two calls of Rust, made together on mounting, are served in
\* either order.
AskPending ==
    /\ ~asked /\ asked' = TRUE
    /\ modal' = IF slot # None THEN slot ELSE modal
    /\ UNCHANGED <<kind, slot, call, clearing, expired, listening, events, stage, work,
                   pressed, refused, effects, remounts>>

StartListening ==
    /\ ~listening /\ listening' = TRUE
    /\ UNCHANGED <<kind, slot, call, clearing, expired, asked, events, modal, stage, work,
                   pressed, refused, effects, remounts>>

ShowEvent ==
    /\ events # <<>>
    /\ modal' = Head(events) /\ events' = Tail(events)
    /\ UNCHANGED <<kind, slot, call, clearing, expired, asked, listening, stage, work,
                   pressed, refused, effects, remounts>>

\* Wallet or username come or go, and the modals are mounted anew in the
\* other tree.  An approval under way goes on, without a modal to report to.
Remount ==
    /\ remounts < MaxRemounts[kind] /\ remounts' = remounts + 1
    /\ asked' = FALSE /\ listening' = FALSE /\ events' = <<>>
    /\ modal' = None /\ stage' = "idle"
    /\ work' = {[w EXCEPT !.here = FALSE] : w \in work}
    /\ UNCHANGED <<kind, slot, call, clearing, expired, pressed, refused, effects>>

\* clear() empties the modal whatever it shows; without a request the stage
\* is reset.
CloseModal == modal' = None /\ stage' = "idle"
KeepModal == UNCHANGED <<modal, stage>>

Press(q) ==
    /\ modal = q /\ stage # "working"
    /\ pressed[q] < MaxPresses
    /\ pressed' = [pressed EXCEPT ![q] = @ + 1]

\* handleApprove of a vault edit starts with the upserts; that of a sign
\* request first asks both clocks whether the request still stands.
StartApproval(q) ==
    /\ kind \in Slow
    /\ Press(q)
    /\ IF kind = "sign" /\ (q \in expired \/ slot # q)
         THEN stage' = "idle" /\ work' = work
         ELSE /\ stage' = "working"
              /\ work' = work \cup {[req |-> q, step |-> "do", run |-> pressed'[q], here |-> TRUE]}
    /\ UNCHANGED <<kind, slot, call, clearing, expired, asked, listening, events, modal,
                   refused, effects, remounts>>

Do(w) ==
    /\ w \in work /\ w.step = "do"
    /\ work' = (work \ {w}) \cup {[w EXCEPT !.step = "done"]}
    /\ effects' = [effects EXCEPT ![w.req] = @ + 1]
    /\ UNCHANGED <<kind, slot, call, clearing, expired, asked, listening, events, modal,
                   stage, pressed, refused, remounts>>

SucceedAndClose(w) ==
    /\ w \in work /\ w.step = "done" /\ work' = work \ {w}
    /\ Resolve(w.req, "approved")
    /\ IF w.here THEN CloseModal ELSE KeepModal
    /\ UNCHANGED <<kind, clearing, expired, asked, listening, events, pressed, refused,
                   effects, remounts>>

\* The answer goes out after the effect; if Rust refuses it the modal stays,
\* with an error.
Succeed(w) ==
    /\ w \in work /\ w.step = "done" /\ work' = work \ {w}
    /\ Resolve(w.req, "approved")
    /\ CASE w.here /\ slot = w.req -> CloseModal
         [] w.here /\ slot # w.req -> stage' = "error" /\ modal' = modal
         [] OTHER -> KeepModal
    /\ UNCHANGED <<kind, clearing, expired, asked, listening, events, pressed, refused,
                   effects, remounts>>

\* A failed publication leaves a vault edit pending, to be approved again; a
\* failed transaction is reported to the program that asked for it.
Fail(w) ==
    /\ w \in work /\ work' = work \ {w}
    /\ stage' = IF w.here THEN "error" ELSE stage
    /\ IF kind = "sign" THEN Resolve(w.req, "failed") ELSE UNCHANGED <<slot, call>>
    /\ UNCHANGED <<kind, clearing, expired, asked, listening, events, modal, pressed, refused,
                   effects, remounts>>

\* Autofill closes its modal even when Rust refuses the answer.
ApproveAtOnce(q) ==
    /\ kind \notin Slow
    /\ Press(q)
    /\ Resolve(q, "approved")
    /\ IF slot = q \/ kind = "autofill" THEN CloseModal ELSE KeepModal
    /\ UNCHANGED <<kind, clearing, expired, asked, listening, events, work, refused, effects,
                   remounts>>

Reject(q) ==
    /\ modal = q /\ stage # "working"
    /\ refused' = refused \cup {q}
    /\ Resolve(q, "rejected")
    /\ CloseModal
    /\ UNCHANGED <<kind, clearing, expired, asked, listening, events, work, pressed, effects,
                   remounts>>
-----------------------------------------------------------------------------
ChannelStep ==
    \/ AskPending \/ StartListening \/ ShowEvent \/ Remount
    \/ \E q \in Req :
          \/ Expire(q) \/ TimeoutFires(q) \/ ClearSlot(q)
          \/ StartApproval(q) \/ ApproveAtOnce(q) \/ Reject(q)
    \/ \E w \in work : Do(w) \/ Succeed(w) \/ Fail(w)

\* Programs other than the extension come and go as they like.
OtherPrograms == \E q \in Req : (kind \in {"sign", "pin"} /\ Park(q)) \/ Disconnect(q)

\* Clocks run, the runtime runs its tasks and the window hears of events.
ChannelFairness ==
    /\ \A q \in Req : /\ WF_channelVars(Expire(q)) /\ WF_channelVars(TimeoutFires(q))
                      /\ WF_channelVars(ClearSlot(q))
    /\ WF_channelVars(ShowEvent)
-----------------------------------------------------------------------------
\* Every variable of the channel has its type, and nothing is done more often
\* than the user approved it.
ChannelTypeOK ==
    /\ kind \in Kind
    /\ slot \in Req \cup {None} /\ modal \in Req \cup {None}
    /\ call \in [Req -> Outcome \cup {"idle", "waiting", "gone"}]
    /\ clearing \subseteq Req /\ expired \subseteq Req /\ refused \subseteq Req
    /\ asked \in BOOLEAN /\ listening \in BOOLEAN
    /\ events \in Seq(Req) /\ stage \in {"idle", "working", "error"}
    /\ \A w \in work : w.req \in Req /\ w.run \in 1..MaxPresses
    /\ pressed \in [Req -> 0..MaxPresses] /\ effects \in [Req -> 0..MaxPresses]
    /\ \A q \in Req : effects[q] <= pressed[q]
    /\ remounts \in 0..MaxRemounts[kind]

\* A program is told the user's decision about its own request and no other:
\* timeouts, late clicks and requests that take each other's place included.
DecisionIsTheUsers ==
    \A q \in Req :
        /\ call[q] = "approved" => pressed[q] > 0
        /\ call[q] = "rejected" => q \in refused

\* "Approved" is said only when the transaction, or the vault's edit, was done.
ApprovedWasDone ==
    kind \in Slow => \A q \in Req : call[q] = "approved" => effects[q] > 0

\* What the user is being asked stays on the screen until it is decided or
\* over: the end of an approval of an earlier request does not hide it.  Only
\* an event that was still on its way may.
PendingStaysShown ==
    [][ \A q \in Req : (modal = q /\ slot = q /\ modal' # q)
          => slot' # q \/ ~listening' \/ (events # <<>> /\ modal' = Head(events)) ]_channelVars

\* Without the exception TLC refutes it, with three requests: one is parked while
\* the clearing of a timeout is due and falls victim to it, the hook's question
\* finds the third, and then the event of the second arrives.
NothingHidesPending ==
    [][ \A q \in Req : (modal = q /\ slot = q /\ modal' # q) => (slot' # q \/ ~listening') ]_channelVars

\* A program that stays on the line does not hold the channel for ever.  One that
\* hangs up may: its timeout is dropped with the handler, and nothing but the user's
\* decision, or the clearing of an earlier request, empties its slot.
SlotIsFreed ==
    \A q \in Req : (slot = q /\ call[q] = "waiting") ~> (slot # q \/ call[q] = "gone")

\* So that this, of whoever parked the request, is refuted by TLC.
EverySlotIsFreed == \A q \in Req : slot = q ~> slot # q

\* What a comment of the hook says and TLC refutes: the pending request is shown
\* (useIncomingRequest, 8-13).  One that comes after the question and before the
\* window listens is not.
RequestIsShown ==
    (asked /\ listening /\ events = <<>> /\ slot # None /\ call[slot] = "waiting") => modal = slot

\* What holds of every state of a channel: types, decisions and deeds.
ChannelSafe == ChannelTypeOK /\ DecisionIsTheUsers /\ ApprovedWasDone

\* Each program is told what the user decided about its own request, and what was
\* done; and a pending request stays on screen
\* (single_slot_channel.rs and the modals that answer).
ChannelCorrect == []ChannelSafe /\ PendingStaysShown
=============================================================================
