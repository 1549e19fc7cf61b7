---------------------------- MODULE LoginAutofill ----------------------------
(* The content script of one page with a login form: it looks for password   *)
(* fields, puts an icon on those the stored session has entries for, and     *)
(* proposes to the vault what is submitted and is not in it.                  *)
(* The worker is asked by a message and answers from the session of that     *)
(* moment; the page runs on meanwhile.  A login stands for the user name of   *)
(* an entry that matches the host; NoName is the empty one, sent when no      *)
(* name field was found beside the password field.                            *)
EXTENDS Naturals, FiniteSets

CONSTANTS PasswordFields,   \* the password fields of the form
          NameField,        \* its name field
          Logins,           \* user names
          NoName,           \* the empty user name
          MaxSubmits        \* bound: submits of one load of the page

ASSUME LoginAssumption ==
    /\ IsFiniteSet(PasswordFields) /\ NameField \notin PasswordFields
    /\ NoName \in Logins
    /\ MaxSubmits \in Nat

VARIABLES held,         \* the stored session: its logins for this host, or NothingHeld
          rendered,     \* fields of the form that are visible
          processed,    \* password fields a scan has seen
          named,        \* those seen with the name field beside them
          asking,       \* messages of each field still unanswered
          icons,        \* what each icon offers: pairs <<field, logins>>
          capturing,    \* fields whose submit listener is on the form
          submits,      \* each submit heard: see Submit
          proposed      \* logins proposed since the page was loaded

pageVars == <<rendered, processed, named, asking, icons, capturing, submits,
              proposed>>
loginVars == <<held, pageVars>>

Submits == 1 .. MaxSubmits
NothingHeld == [live |-> FALSE, logins |-> {}]
Held == [live : {TRUE}, logins : SUBSET Logins] \union {NothingHeld}
NoSubmit == [stage |-> "unheard", login |-> NoName, beside |-> {}]

Fresh ==
    /\ processed = {} /\ named = {}
    /\ asking = [f \in PasswordFields |-> 0]
    /\ icons = {} /\ capturing = {}
    /\ submits = [i \in Submits |-> NoSubmit]
    /\ proposed = {}

LoginInit ==
    /\ held \in Held
    /\ rendered \in SUBSET (PasswordFields \union {NameField})
    /\ Fresh

\* A login with a Device, the end of it or a new list of entries.
StoreSession ==
    /\ held' \in Held \ {held}
    /\ UNCHANGED pageVars

\* The page shows the rest of its form piece by piece.
Render ==
    /\ \E f \in (PasswordFields \union {NameField}) \ rendered :
           rendered' = rendered \union {f}
    /\ UNCHANGED <<held, processed, named, asking, icons, capturing,
                   submits, proposed>>

FoundUntilIcon == {f \in PasswordFields \intersect rendered : \A o \in icons : o[1] # f}
Found == (PasswordFields \intersect rendered) \ processed

\* attachNewCredentialCapture: the form is listened to once, for the first field.
Listeners(found) == IF capturing = {} THEN {CHOOSE f \in found : TRUE} ELSE capturing

\* scan: at load, and 300 ms after the page's last change.
Scan ==
    /\ Found # {}
    /\ processed' = processed \union Found
    /\ named' = named \union (IF NameField \in rendered THEN Found ELSE {})
    /\ asking' = [f \in PasswordFields |->
                       IF f \in Found /\ asking[f] < 2 THEN asking[f] + 1 ELSE asking[f]]
    /\ capturing' = Listeners(Found)
    /\ UNCHANGED <<held, rendered, icons, submits, proposed>>

Answerable(f) == asking[f] > 0
Matching == held.logins

\* The worker's answer puts the icon on the field, with the entries it brought.
AttachIcon(f) ==
    /\ Answerable(f) /\ Matching # {}
    /\ asking' = [asking EXCEPT ![f] = @ - 1]
    /\ icons' = icons \union {<<f, Matching>>}
    /\ UNCHANGED <<held, rendered, processed, named, capturing, submits, proposed>>

\* No entry for the host, or no worker to answer: the field stays without one.
ShowNothing(f) ==
    /\ Answerable(f)
    /\ asking' = [asking EXCEPT ![f] = @ - 1]
    /\ UNCHANGED <<held, rendered, processed, named, icons, capturing,
                   submits, proposed>>

Waiting == {i \in Submits : submits[i].stage \in {"asked", "known", "new"}}

\* What a listener reads at the submit, when name is what the user typed.
Read(f, name) == IF f \in named THEN name ELSE NoName

\* The form is submitted with a password.  The worker is asked unless the
\* login was proposed before.
Submit ==
    \E i \in Submits, f \in capturing, name \in Logins :
        /\ submits[i].stage = "unheard" /\ \A j \in 1 .. i - 1 : submits[j].stage # "unheard"
        /\ submits' = [submits EXCEPT ![i] =
              [stage |-> IF Read(f, name) \in proposed THEN "repeated" ELSE "asked",
               login |-> Read(f, name), beside |-> Waiting]]
        /\ UNCHANGED <<held, rendered, processed, named, asking, icons, capturing,
                       proposed>>

\* hasExistingMatch: the worker answers from the session it finds.
AnswerMatch(i) ==
    /\ submits[i].stage = "asked"
    /\ submits' = [submits EXCEPT ![i].stage =
                      IF submits[i].login \in Matching THEN "known" ELSE "new"]
    /\ UNCHANGED <<held, rendered, processed, named, asking, icons,
                   capturing, proposed>>

\* The message fails, which counts as a match.
AnswerFails(i) ==
    /\ submits[i].stage = "asked"
    /\ submits' = [submits EXCEPT ![i].stage = "known"]
    /\ UNCHANGED <<held, rendered, processed, named, asking, icons,
                   capturing, proposed>>

ProposedWith(login) == proposed \union {login}

\* proposeIfNew goes on after the answer, without another look at proposed.
Propose(i) ==
    /\ submits[i].stage = "new"
    /\ submits' = [submits EXCEPT ![i].stage = "proposed"]
    /\ proposed' = ProposedWith(submits[i].login)
    /\ UNCHANGED <<held, rendered, processed, named, asking, icons,
                   capturing>>

\* The page is loaded again, and its scripts with it.
Reload ==
    /\ rendered' \in SUBSET (PasswordFields \union {NameField})
    /\ processed' = {} /\ named' = {}
    /\ asking' = [f \in PasswordFields |-> 0]
    /\ icons' = {} /\ capturing' = {}
    /\ submits' = [i \in Submits |-> NoSubmit]
    /\ proposed' = {}
    /\ UNCHANGED held

LoginNext ==
    \/ StoreSession \/ Render \/ Scan \/ Submit \/ Reload
    \/ \E f \in PasswordFields : AttachIcon(f) \/ ShowNothing(f)
    \/ \E i \in Submits : AnswerMatch(i) \/ AnswerFails(i) \/ Propose(i)

LoginSpec == LoginInit /\ [][LoginNext]_loginVars
-----------------------------------------------------------------------------
(* Type invariant: the page's state is a state of the script. *)
LoginTypeOK ==
    /\ held \in Held
    /\ rendered \subseteq PasswordFields \union {NameField}
    /\ processed \subseteq rendered /\ named \subseteq processed
    /\ asking \in [PasswordFields -> 0 .. 2]
    /\ icons \subseteq PasswordFields \X ((SUBSET Logins) \ {{}})
    /\ capturing \subseteq processed /\ Cardinality(capturing) <= 1
    /\ submits \in [Submits -> [stage : {"unheard", "asked", "known", "new", "repeated",
                                         "proposed"},
                                login : Logins, beside : SUBSET Submits]]
    /\ proposed \subseteq Logins

(* However many scans the page's changes cause, and however late the worker  *)
(* answers, a field has one icon: it is marked when it is seen, not when the *)
(* answer comes.                                                              *)
OneIconPerField ==
    \A f \in PasswordFields :
        asking[f] + Cardinality({o \in icons : o[1] = f}) <= 1

(* A login is proposed a second time in one load only when the two submits   *)
(* waited for the worker together: a second try after the first proposal is  *)
(* not proposed again.                                                        *)
RepeatNeedsAQuickSubmit ==
    \A i, j \in Submits :
        (/\ i # j
         /\ submits[i].stage = "proposed" /\ submits[j].stage = "proposed"
         /\ submits[i].login = submits[j].login)
            => i \in submits[j].beside \/ j \in submits[i].beside

-----------------------------------------------------------------------------
(* What comments of the code say and the model refutes. *)

(* newCredentialCapture.ts: without a session nothing is proposed.  The      *)
(* worker answers with no entries when there is none, and that is no match.   *)
ProposesFromASession ==
    [][\A i \in Submits : submits[i].stage = "asked" /\ submits'[i].stage = "new"
                              => held.live]_loginVars

(* newCredentialCapture.ts: a login is proposed once in a load of the page.   *)
ProposedOnce ==
    \A i, j \in Submits :
        submits[i].stage = "proposed" /\ submits[j].stage = "proposed"
        /\ submits[i].login = submits[j].login => i = j

(* An icon offers entries of the session that is stored. *)
OffersAreStored == \A o \in icons : o[2] \subseteq held.logins

\* On a page rendered in steps, while sessions come and go: one icon per field,
\* and a login is proposed again only when two submits waited together
\* (formDetection.ts, newCredentialCapture.ts).
LoginCorrect == LoginTypeOK /\ OneIconPerField /\ RepeatNeedsAQuickSubmit
=============================================================================
