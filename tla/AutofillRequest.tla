--------------------------- MODULE AutofillRequest ---------------------------
(***************************************************************************)
(* Filling an address (or a card: the two overlays are alike) into a page.  *)
(* The content script finds groups of fields, puts an icon at a group, and  *)
(* on a click asks the user's devices: the phone by a QR code, answering    *)
(* over the local network or a dead drop, and the Desktop of this machine.  *)
(* Whoever answers first fills the form.  Nothing cancels a request: it     *)
(* goes on when its panel is closed, and so do two on the same form.        *)
(***************************************************************************)
EXTENDS DesktopRequests, FiniteSets

CONSTANTS
    MaxFields,      \* bound: fields of the form that classifyAutocomplete knows
    MaxPanels       \* bound: times the icon is clicked to open its panel

ASSUME AutofillAssumption == MaxFields \in Nat /\ MaxPanels \in Nat

VARIABLES
    visible,        \* the fields 1..visible are on the page
    processed,      \* processedAddressFields
    mutated,        \* the MutationObserver's debounce is running
    group,          \* fields of the group that has the icon, {} if none has
    opened,         \* panels opened so far
    panel,          \* the panel on the screen, 0 if none
    ask,            \* request -> how far openPanel is with it
    alarms,         \* requests with a dead-drop alarm in the worker
    answer,         \* request -> the phone's answer
    over,           \* requests past their expiresAt
    desktop,        \* request -> its HTTP call of the Desktop
    fills           \* request -> times it has filled the form

scanVars == <<visible, processed, mutated, group>>
fillVars == <<scanVars, opened, panel, ask, alarms, answer, over, desktop, fills>>

Panel == 1..MaxPanels

AutofillInit ==
    /\ visible = 0 /\ processed = {} /\ mutated = TRUE /\ group = {}
    /\ opened = 0 /\ panel = 0
    /\ ask = [k \in Panel |-> "new"] /\ alarms = {}
    /\ answer = [k \in Panel |-> "none"] /\ over = {}
    /\ desktop = [k \in Panel |-> None] /\ fills = [k \in Panel |-> 0]
-----------------------------------------------------------------------------
(* The page and the scan *)

Render ==
    /\ kind = "autofill" /\ visible < MaxFields
    /\ visible' = visible + 1 /\ mutated' = TRUE
    /\ UNCHANGED <<channelVars, processed, group, opened, panel, ask, alarms, answer, over,
                   desktop, fills>>

\* findAddressFieldGroups marks every field it classifies and returns the
\* new ones of the form if they are two at least; attachAddressAutofillIcon
\* takes the first group of a form only.
ScanPage ==
    /\ kind = "autofill" /\ mutated /\ mutated' = FALSE
    /\ processed' = 1..visible
    /\ LET new == (1..visible) \ processed
       IN  group' = IF group = {} /\ Cardinality(new) >= 2 THEN new ELSE group
    /\ UNCHANGED <<channelVars, visible, opened, panel, ask, alarms, answer, over, desktop, fills>>
-----------------------------------------------------------------------------
(* The panel *)

ClickIcon ==
    /\ group # {} /\ panel = 0 /\ opened < MaxPanels
    /\ opened' = opened + 1 /\ panel' = opened'
    /\ ask' = [ask EXCEPT ![opened'] = "permission"]
    /\ UNCHANGED <<channelVars, scanVars, alarms, answer, over, desktop, fills>>

\* A click on the icon or anywhere on the page.
ClosePanel ==
    /\ panel # 0 /\ panel' = 0
    /\ UNCHANGED <<channelVars, scanVars, opened, ask, alarms, answer, over, desktop, fills>>

\* openPanel goes on with the panel there is by then, be it a later one;
\* without a panel, or without permission, it ends.
PermissionAnswered(k) ==
    /\ ask[k] = "permission"
    /\ \/ ask' = [ask EXCEPT ![k] = "stopped"]
       \/ panel # 0 /\ ask' = [ask EXCEPT ![k] = "drawing"]
    /\ UNCHANGED <<channelVars, scanVars, opened, panel, alarms, answer, over, desktop, fills>>

\* With the code on the screen the three transports start.
CodeDrawn(k) ==
    /\ ask[k] = "drawing"
    /\ IF panel = 0
         THEN /\ ask' = [ask EXCEPT ![k] = "stopped"]
              /\ UNCHANGED <<channelVars, alarms, desktop>>
         ELSE /\ ask' = [ask EXCEPT ![k] = "asking"]
              /\ alarms' = alarms \cup {k}
              /\ \/ UNCHANGED <<channelVars, desktop>>      \* no Desktop on this machine
                 \/ \E q \in Req : Park(q) /\ desktop' = [desktop EXCEPT ![k] = q]
    /\ UNCHANGED <<scanVars, opened, panel, answer, over, fills>>

RequestExpires(k) ==
    /\ ask[k] \notin {"new", "permission", "stopped"} /\ k \notin over
    /\ over' = over \cup {k}
    /\ UNCHANGED <<channelVars, scanVars, opened, panel, ask, alarms, answer, desktop, fills>>
-----------------------------------------------------------------------------
(* The answers *)

PhoneAnswersRequest(k, a) ==
    /\ ask[k] \in {"drawing", "asking"} /\ k \notin over /\ answer[k] = "none"
    /\ answer' = [answer EXCEPT ![k] = a]
    /\ UNCHANGED <<channelVars, scanVars, opened, panel, ask, alarms, over, desktop, fills>>

\* applyResult: the first answer to a request ends it, the others find it
\* resolved.
ApplyResult(K, a) ==
    LET first == {k \in K : ask[k] # "resolved"}
    IN  /\ ask' = [k \in Panel |-> IF k \in first THEN "resolved" ELSE ask[k]]
        /\ fills' = [k \in Panel |-> IF k \in first /\ a = "filled" THEN fills[k] + 1 ELSE fills[k]]

\* The sweep, or the address typed in; neither looks at the clock.
LanAnswered(k) ==
    /\ ask[k] \in {"asking", "resolved"} /\ answer[k] # "none"
    /\ ApplyResult({k}, answer[k])
    /\ UNCHANGED <<channelVars, scanVars, opened, panel, alarms, answer, over, desktop>>

HearsAny(k, i) == i \notin over

\* The listener of a request looks at the session id of the message, and is
\* gone when the request expires.
Hears(k, i) == i = k /\ i \notin over

\* One tick of a request's alarm: an answer or the end of its time clears
\* it, and the answer goes to the listeners.
DropTick(k) ==
    /\ k \in alarms
    /\ answer[k] # "none" \/ k \in over
    /\ alarms' = alarms \ {k}
    /\ ApplyResult({i \in Panel : Hears(k, i) /\ ask[i] = "asking"}, answer[k])
    /\ UNCHANGED <<channelVars, scanVars, opened, panel, answer, over, desktop>>

\* Anything but a decision is passed over in silence.
DesktopSpeaks(k) ==
    /\ desktop[k] # None /\ call[desktop[k]] # "waiting"
    /\ desktop' = [desktop EXCEPT ![k] = None]
    /\ CASE call[desktop[k]] = "approved" -> ApplyResult({k}, "filled")
         [] call[desktop[k]] = "rejected" -> ApplyResult({k}, "rejected")
         [] OTHER -> UNCHANGED <<ask, fills>>
    /\ UNCHANGED <<channelVars, scanVars, opened, panel, alarms, answer, over>>
-----------------------------------------------------------------------------
AutofillStep ==
    \/ Render \/ ScanPage \/ ClickIcon \/ ClosePanel
    \/ \E k \in Panel :
          \/ PermissionAnswered(k) \/ CodeDrawn(k) \/ RequestExpires(k)
          \/ \E a \in {"filled", "rejected"} : PhoneAnswersRequest(k, a)
          \/ LanAnswered(k) \/ DropTick(k) \/ DesktopSpeaks(k)

\* The worker's alarm ticks, and time passes.
AutofillFairness ==
    \A k \in Panel : WF_fillVars(RequestExpires(k)) /\ WF_fillVars(DropTick(k))
-----------------------------------------------------------------------------
\* Every variable of the autofill has its type.
AutofillTypeOK ==
    /\ visible \in 0..MaxFields /\ processed \subseteq 1..visible /\ group \subseteq processed
    /\ mutated \in BOOLEAN /\ opened \in 0..MaxPanels /\ panel \in 0..opened
    /\ ask \in [Panel -> {"new", "permission", "drawing", "asking", "resolved", "stopped"}]
    /\ alarms \subseteq Panel /\ over \subseteq Panel
    /\ answer \in [Panel -> {"none", "filled", "rejected"}]
    /\ desktop \in [Panel -> Req \cup {None}] /\ fills \in [Panel -> Nat]

\* Three transports race, and a request fills the form once at most.
FilledOnce == \A k \in Panel : fills[k] <= 1

\* A form is filled, or a request ended, by an answer to that request: the
\* phone's to its code or the Desktop user's to its call.
EndedByItsAnswer ==
    [][ \A k \in Panel : (ask'[k] = "resolved" /\ ask[k] # "resolved") =>
          \/ answer[k] # "none"
          \/ desktop[k] # None /\ call[desktop[k]] \in {"approved", "rejected"} ]_<<channelVars, fillVars>>

\* No alarm is left ticking for ever, whether anybody answers or not.
AlarmIsCollected == \A k \in Panel : (k \in alarms) ~> (k \notin alarms)

\* Forms rendered after the page has loaded are offered to be filled, like
\* the others (autofill.content.ts, 45-48).
LateFormIsOffered == (~mutated /\ visible >= 2) => group # {}

\* What holds of every state of the requests of a page.
AutofillSafe == AutofillTypeOK /\ FilledOnce

\* Of three transports that race, one answer to that request fills the form, once
\* (addressOverlay.ts, background.ts).
AutofillCorrect == []AutofillSafe /\ EndedByItsAnswer
=============================================================================
