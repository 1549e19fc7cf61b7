---------------------------- MODULE ExtensionEdits ----------------------------
(***************************************************************************)
(* New and changed entries that the browser extension proposes.  Pages and  *)
(* the popup's form add proposals to a queue in chrome.storage.session; the *)
(* popup sends the whole queue to the Desktop (an HTTP call held until the  *)
(* user decides) or to the phone (a QR code, then a PUT over the local      *)
(* network or a dead drop published by the service worker), and removes     *)
(* what was sent.  Closing the popup ends whatever it was waiting for.      *)
(* Every change of the queue loads it, waits, and saves the changed copy:   *)
(* the service worker, for a page, and the popup may be at it together.     *)
(***************************************************************************)
EXTENDS DesktopRequests

CONSTANTS
    MaxProposals,   \* bound: proposals, numbered in their order
    MaxDeliveries   \* bound: deliveries to the phone (sessionId and QR each)

ASSUME EditsAssumption == MaxProposals \in Nat /\ MaxDeliveries \in Nat

VARIABLES
    queue,          \* truthid_pending_vault_edits
    writes,         \* changes of it under way, with the copy each has loaded
    proposed,       \* proposals 1..proposed have been made
    saved,          \* those that were saved in the queue
    overlapped,     \* those being added while another write was under way
    popup,          \* the popup is open
    buttons,        \* "Send to Desktop" and "Send to phone" are enabled
    sending,        \* calls of the Desktop the popup awaits
    batch,          \* call -> the proposals in its body
    preparing,      \* listed by "Send to phone" while permission is asked
    delivery,       \* activeMobileDelivery, 0 if null
    trying,         \* deliveries whose sweep or PUT is under way
    parcel,         \* delivery -> its proposals
    phone           \* delivery -> how far the phone is with it

queueVars == <<queue, writes, proposed, saved, overlapped>>
editVars == <<queueVars, popup, buttons, sending, batch, preparing, delivery, trying,
              parcel, phone>>

Proposal == 1..MaxProposals
Delivery == 1..MaxDeliveries
Started(d) == parcel[d] # {}

EditsInit ==
    /\ queue = {} /\ writes = {} /\ proposed = 0 /\ saved = {} /\ overlapped = {}
    /\ popup = FALSE /\ buttons = TRUE
    /\ sending = {} /\ batch = [q \in Req |-> {}]
    /\ preparing = {} /\ delivery = 0 /\ trying = {}
    /\ parcel = [d \in Delivery |-> {}] /\ phone = [d \in Delivery |-> "away"]
-----------------------------------------------------------------------------
(* The queue: a passkey being created, a form submitted on a page, the     *)
(* popup's form, and what the popup removes.                                *)
Write == [of : {"page", "form"}, id : Proposal, seen : SUBSET Proposal]
         \cup [of : {"desktop"}, id : Req, seen : SUBSET Proposal]
         \cup [of : {"phone"}, id : Delivery, seen : SUBSET Proposal]

OfPopup(w) == w.of # "page"
Adds(w) == w.of \in {"page", "form"}
Adding(ws) == {w.id : w \in {x \in ws : Adds(x)}}

\* loadAll
Load(of, id) ==
    /\ writes' = writes \cup {[of |-> of, id |-> id, seen |-> queue]}
    /\ overlapped' = overlapped \cup (IF writes = {} THEN {} ELSE Adding(writes'))

RemovalOfAll(w) == IF Adds(w) THEN {} ELSE w.seen
Removal(w) == IF Adds(w) THEN {} ELSE IF w.of = "desktop" THEN batch[w.id] ELSE parcel[w.id]

\* saveAll
Save(w) ==
    /\ w \in writes /\ writes' = writes \ {w}
    /\ queue' = (w.seen \ Removal(w)) \cup Adding({w})

\* addPendingEdit
Propose(of) ==
    /\ of = "form" => popup
    /\ proposed < MaxProposals
    /\ proposed' = proposed + 1 /\ Load(of, proposed + 1)
    /\ UNCHANGED <<channelVars, queue, saved, popup, buttons, sending, batch, preparing, delivery,
                   trying, parcel, phone>>

Proposed(w) ==
    /\ Adds(w) /\ Save(w)
    /\ saved' = saved \cup {w.id}
    /\ UNCHANGED <<channelVars, proposed, overlapped, popup, buttons, sending, batch, preparing,
                   delivery, trying, parcel, phone>>

OpenEdits ==
    /\ ~popup /\ popup' = TRUE
    /\ UNCHANGED <<channelVars, queueVars, buttons, sending, batch, preparing, delivery, trying,
                   parcel, phone>>

\* The popup closes when it loses the focus; its fetches are aborted, and what it has
\* loaded is not saved.
CloseEdits ==
    /\ popup /\ popup' = FALSE
    /\ writes' = {w \in writes : ~OfPopup(w)}
    /\ HangUp(sending) /\ sending' = {}
    /\ buttons' = TRUE /\ preparing' = {} /\ delivery' = 0 /\ trying' = {}
    /\ UNCHANGED <<kind, slot, clearing, expired, windowVars, queue, proposed, saved, overlapped, batch, parcel, phone>>

SendToDesktop(q) ==
    /\ popup /\ buttons /\ queue # {} /\ kind = "vaultEdit"
    /\ Park(q)
    /\ batch' = [batch EXCEPT ![q] = queue]
    /\ sending' = sending \cup {q} /\ buttons' = FALSE
    /\ UNCHANGED <<queueVars, popup, preparing, delivery, trying, parcel, phone>>

\* Approved or rejected, the batch is to leave the queue.
DesktopDecided(q) ==
    /\ q \in sending /\ call[q] \in {"approved", "rejected"}
    /\ ~\E w \in writes : w.of = "desktop" /\ w.id = q
    /\ Load("desktop", q)
    /\ UNCHANGED <<channelVars, queue, proposed, saved, popup, buttons, sending, batch, preparing,
                   delivery, trying, parcel, phone>>

\* With it goes a delivery of nothing but the batch.  The buttons are enabled again.
BatchRemoved(w) ==
    /\ w.of = "desktop" /\ Save(w)
    /\ sending' = sending \ {w.id} /\ buttons' = TRUE
    /\ delivery' = IF delivery # 0 /\ parcel[delivery] \subseteq batch[w.id] THEN 0 ELSE delivery
    /\ UNCHANGED <<channelVars, proposed, saved, overlapped, popup, batch, preparing, trying,
                   parcel, phone>>

DesktopFailed(q) ==
    /\ q \in sending /\ call[q] \notin {"waiting", "approved", "rejected"}
    /\ sending' = sending \ {q} /\ buttons' = TRUE
    /\ UNCHANGED <<channelVars, queueVars, popup, batch, preparing, delivery, trying, parcel, phone>>

\* "Send to phone" lists the queue, then asks for permission.
SendToPhone ==
    /\ popup /\ buttons /\ queue # {}
    /\ preparing' = queue /\ buttons' = FALSE
    /\ UNCHANGED <<channelVars, queueVars, popup, sending, batch, delivery, trying, parcel,
                   phone>>

PermissionDenied ==
    /\ preparing # {} /\ preparing' = {} /\ buttons' = TRUE
    /\ UNCHANGED <<channelVars, queueVars, popup, sending, batch, delivery, trying, parcel,
                   phone>>

\* startMobileDelivery and the first attempt.
StartDelivery(d) ==
    /\ preparing # {} /\ ~Started(d) /\ \A e \in 1..(d - 1) : Started(e)
    /\ parcel' = [parcel EXCEPT ![d] = preparing]
    /\ preparing' = {} /\ delivery' = d /\ trying' = trying \cup {d}
    /\ buttons' = FALSE
    /\ UNCHANGED <<channelVars, queueVars, popup, sending, batch, phone>>

\* "Retry" or an address typed in; disabled while an attempt is under way.
RetryDelivery ==
    /\ popup /\ delivery # 0 /\ trying = {}
    /\ trying' = {delivery} /\ buttons' = FALSE
    /\ UNCHANGED <<channelVars, queueVars, popup, sending, batch, preparing, delivery,
                   parcel, phone>>

\* The phone scans the code on the screen and opens its server.
Scan(d) ==
    /\ delivery = d /\ phone[d] = "away"
    /\ phone' = [phone EXCEPT ![d] = "listening"]
    /\ UNCHANGED <<channelVars, queueVars, popup, buttons, sending, batch, preparing,
                   delivery, trying, parcel>>

\* The phone has the content of the dead drop, or the answer to the PUT got
\* lost: the popup does not hear of it.
ReceiveUnheard(d) ==
    /\ phone[d] = "listening"
    /\ phone' = [phone EXCEPT ![d] = "received"]
    /\ UNCHANGED <<channelVars, queueVars, popup, buttons, sending, batch, preparing,
                   delivery, trying, parcel>>

\* receiveOnce answers 200 before anybody has approved anything; what was delivered is
\* to leave the queue.
Delivered(d) ==
    /\ d \in trying /\ phone[d] = "listening"
    /\ phone' = [phone EXCEPT ![d] = "received"]
    /\ Load("phone", d)
    /\ UNCHANGED <<channelVars, queue, proposed, saved, popup, buttons, sending, batch, preparing,
                   delivery, trying, parcel>>

ParcelRemoved(w) ==
    /\ w.of = "phone" /\ Save(w)
    /\ trying' = trying \ {w.id} /\ buttons' = TRUE /\ delivery' = 0
    /\ UNCHANGED <<channelVars, proposed, saved, overlapped, popup, sending, batch, preparing,
                   parcel, phone>>

NotDelivered(d) ==
    /\ d \in trying /\ ~\E w \in writes : w.of = "phone" /\ w.id = d
    /\ trying' = trying \ {d} /\ buttons' = TRUE
    /\ UNCHANGED <<channelVars, queueVars, popup, sending, batch, preparing, delivery,
                   parcel, phone>>
-----------------------------------------------------------------------------
EditsStep ==
    \/ OpenEdits \/ CloseEdits \/ SendToPhone \/ PermissionDenied \/ RetryDelivery
    \/ \E of \in {"page", "form"} : Propose(of)
    \/ \E w \in writes : Proposed(w) \/ BatchRemoved(w) \/ ParcelRemoved(w)
    \/ \E q \in Req : SendToDesktop(q) \/ DesktopDecided(q) \/ DesktopFailed(q)
    \/ \E d \in Delivery :
          \/ StartDelivery(d) \/ Scan(d) \/ ReceiveUnheard(d)
          \/ Delivered(d) \/ NotDelivered(d)
-----------------------------------------------------------------------------
\* Every variable of the popup's queue and deliveries has its type, and what
\* the popup holds in memory is there only while it is open.
EditsTypeOK ==
    /\ popup \/ (buttons /\ sending = {} /\ preparing = {} /\ delivery = 0 /\ trying = {}
                 /\ \A w \in writes : ~OfPopup(w))
    /\ queue \subseteq Proposal /\ proposed \in 0..MaxProposals
    /\ writes \subseteq Write /\ saved \subseteq 1..proposed /\ overlapped \subseteq 1..proposed
    /\ popup \in BOOLEAN /\ buttons \in BOOLEAN
    /\ sending \subseteq Req /\ batch \in [Req -> SUBSET Proposal]
    /\ preparing \subseteq Proposal /\ delivery \in Delivery \cup {0} /\ trying \subseteq Delivery
    /\ parcel \in [Delivery -> SUBSET Proposal]
    /\ phone \in [Delivery -> {"away", "listening", "received"}]

DecidedOnDesktop(p) == \E q \in Req : p \in batch[q] /\ call[q] \in {"approved", "rejected"}
Handed(p) == \E d \in Delivery : p \in parcel[d] /\ phone[d] = "received"

\* A proposal that was queued leaves the queue only when the user has decided about it
\* on the Desktop or the phone has it, however sending, answers and new proposals
\* interleave: unless another write of the queue was under way while it was added.
NoProposalIsLost ==
    \A p \in saved \ queue : DecidedOnDesktop(p) \/ Handed(p) \/ p \in overlapped

\* What two writes at once do not leave (each is refuted by TLC): every proposal that was
\* queued, and what was removed removed.
OverlapsLoseNothing == \A p \in saved \ queue : DecidedOnDesktop(p) \/ Handed(p)
RemovedStaysRemoved == [][\A p \in queue' \ queue : p \notin saved]_editVars

\* The retry button does not point at proposals that are decided already
\* (main.ts, 530-536).
RetryIsPending == delivery # 0 => parcel[delivery] \subseteq queue

\* The extension's queue of proposals keeps what nobody has taken from it, but for what
\* was added while something else wrote the queue (pendingEdits.ts, popup/main.ts).
EditsCorrect == EditsTypeOK /\ NoProposalIsLost
=============================================================================
