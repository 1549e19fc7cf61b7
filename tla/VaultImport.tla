----------------------------- MODULE VaultImport -----------------------------
(***************************************************************************)
(* Settings brings entries into the vault from a Bitwarden export, whose    *)
(* rows the user reviews, or from a backup that replaces the whole vault.   *)
(* Rows are saved one by one; Cancel is offered while they are, and does    *)
(* not stop them.  A command to the Rust side is one step.                  *)
(***************************************************************************)
EXTENDS Naturals, FiniteSets

CONSTANTS
    Items,          \* logins in the export file
    MaxImports,     \* bound: imports confirmed
    MaxFailures     \* bound: saves that fail

ASSUME ImportAssumption == MaxImports \in Nat /\ MaxFailures \in Nat /\ Items # {}

VARIABLES
    copies,         \* item -> entries of the vault made from it
    stage,          \* stage of the import
    rows,           \* rows under review: item -> selected, action, duplicate
    left,           \* import -> rows it has yet to save
    wanted,         \* import -> rows it was confirmed with
    state,          \* import -> "running", "done" or "failed"
    askedNew,       \* item -> times the user chose "new" for a shown duplicate
    overlapped,     \* an import was confirmed while another was running
    failures,
    stale,          \* the mounted vault tab has not been told of a change
    restored,       \* a backup has replaced the vault
    backup          \* state of the backup import

importVars == <<copies, stage, rows, left, wanted, state, askedNew, overlapped, failures, stale, restored, backup>>
importRest == <<copies, left, wanted, state, askedNew, overlapped, failures, stale, restored, backup>>

Import == 1..MaxImports
\* `picked`: the user chose the action.
Row == [selected : BOOLEAN, action : {"skip", "overwrite", "new"}, duplicate : BOOLEAN, picked : BOOLEAN]
NoRows == [i \in {} |-> {}]
IsToSave(r) == r.selected /\ ~(r.duplicate /\ r.action = "skip")
Confirmed == {k \in Import : state[k] # "idle"}
Running == {k \in Import : state[k] = "running"}

\* Slip: a likely duplicate is imported unless the user says otherwise.
PreviewAsNew(i) == [selected |-> TRUE, action |-> "new", duplicate |-> copies[i] > 0, picked |-> FALSE]

\* bitwarden_parse_export looks for each item in the vault as it is now.
Preview(i) == [selected |-> TRUE, action |-> IF copies[i] > 0 THEN "skip" ELSE "new",
               duplicate |-> copies[i] > 0, picked |-> FALSE]

ImportInit ==
    /\ copies \in [Items -> {0, 1}]
    /\ stage = "idle" /\ rows = NoRows
    /\ left = [k \in Import |-> {}] /\ wanted = left /\ state = [k \in Import |-> "idle"]
    /\ askedNew = [i \in Items |-> 0] /\ overlapped = FALSE
    /\ failures = 0 /\ stale = FALSE /\ restored = FALSE /\ backup = "idle"
-----------------------------------------------------------------------------
ShowPreview == rows' = [i \in Items |-> Preview(i)] /\ stage' = "reviewing"

\* The dialog may be closed, and the file may be unreadable or protected.
ChooseExport ==
    /\ stage \in {"idle", "error"}
    /\ \/ ShowPreview
       \/ stage' \in {"needs-password", "error"} /\ UNCHANGED rows
    /\ UNCHANGED importRest

\* A wrong password leaves the form as it is.
SubmitPassword ==
    /\ stage = "needs-password"
    /\ ShowPreview
    /\ UNCHANGED importRest

\* (The rows of a running import can be clicked as well, but are read no more.)
ReviewRow(i) ==
    /\ stage = "reviewing" /\ i \in DOMAIN rows
    /\ \/ rows' = [rows EXCEPT ![i].selected = ~@]
       \/ /\ rows[i].duplicate /\ rows[i].selected
          /\ \E a \in {"skip", "overwrite", "new"} : rows' = [rows EXCEPT ![i].action = a, ![i].picked = TRUE]
    /\ UNCHANGED <<stage, importRest>>

Confirm ==
    /\ stage = "reviewing" /\ Confirmed # Import
    /\ LET chosen == {i \in DOMAIN rows : IsToSave(rows[i])}
           k == Cardinality(Confirmed) + 1
       IN  /\ chosen # {}
           /\ left' = [left EXCEPT ![k] = {<<i, rows[i].action>> : i \in chosen}]
           /\ wanted' = [wanted EXCEPT ![k] = chosen]
           /\ state' = [state EXCEPT ![k] = "running"]
           /\ askedNew' = [i \in Items |-> askedNew[i] +
                 IF i \in chosen /\ rows[i].picked /\ rows[i].action = "new" THEN 1 ELSE 0]
    /\ overlapped' = (overlapped \/ Running # {})
    /\ stage' = "importing" /\ rows' = NoRows
    /\ UNCHANGED <<copies, failures, stale, restored, backup>>

\* vault_upsert_entry, on the duplicate's id when it is to be overwritten.
SaveRow(k) ==
    /\ state[k] = "running"
    /\ \E r \in left[k] :
          /\ copies' = IF r[2] = "overwrite" /\ copies[r[1]] > 0 THEN copies
                       ELSE [copies EXCEPT ![r[1]] = @ + 1]
          /\ left' = [left EXCEPT ![k] = @ \ {r}]
    /\ stale' = TRUE
    /\ UNCHANGED <<stage, rows, wanted, state, askedNew, overlapped, failures, restored, backup>>

\* The rows saved so far stay; the vault tab is not told.
RowFails(k) ==
    /\ state[k] = "running" /\ left[k] # {} /\ failures < MaxFailures
    /\ state' = [state EXCEPT ![k] = "failed"] /\ stage' = "error" /\ rows' = NoRows
    /\ left' = [left EXCEPT ![k] = {}]
    /\ failures' = failures + 1
    /\ UNCHANGED <<copies, wanted, askedNew, overlapped, stale, restored, backup>>

ImportDone(k) ==
    /\ state[k] = "running" /\ left[k] = {}
    /\ state' = [state EXCEPT ![k] = "done"] /\ stage' = "done" /\ rows' = NoRows
    /\ stale' = FALSE                   \* onImported
    /\ UNCHANGED <<copies, left, wanted, restored, askedNew, overlapped, failures, backup>>

\* Cancel, or "import another": what runs goes on.
Reset ==
    /\ stage \in {"needs-password", "reviewing", "importing", "done"}
    /\ stage' = "idle" /\ rows' = NoRows
    /\ UNCHANGED importRest

\* The backup holds none of the items; a wrong password or
\* another local wallet is refused.
StartRestore ==
    /\ backup \in {"idle", "error"}      \* bound: one backup restored
    /\ backup' = "importing"
    /\ UNCHANGED <<copies, stage, rows, left, wanted, state, askedNew, overlapped, failures, stale, restored>>

Restore ==
    /\ backup = "importing"
    /\ \/ /\ backup' = "done" /\ copies' = [i \in Items |-> 0]
          /\ stale' = FALSE /\ restored' = TRUE
       \/ backup' \in {"idle", "error"} /\ UNCHANGED <<copies, stale, restored>>
    /\ UNCHANGED <<stage, rows, left, wanted, state, askedNew, overlapped, failures>>

ImportNext ==
    \/ ChooseExport \/ SubmitPassword \/ Confirm \/ Reset \/ StartRestore \/ Restore
    \/ \E i \in Items : ReviewRow(i)
    \/ \E k \in Import : SaveRow(k) \/ RowFails(k) \/ ImportDone(k)

ImportSpec == ImportInit /\ [][ImportNext]_importVars
-----------------------------------------------------------------------------
(* Types.                                                                     *)
ImportTypeOK ==
    /\ \A i \in Items : copies[i] \in Nat
    /\ stage \in {"idle", "needs-password", "reviewing", "importing", "done", "error"}
    /\ \A i \in DOMAIN rows : rows[i] \in Row
    /\ stage = "reviewing" <=> DOMAIN rows = Items
    /\ \A k \in Import : {r[1] : r \in left[k]} \subseteq wanted[k]

\* An item enters the vault once, however often the import fails and the file is
\* picked again, unless the user asks for another copy, or confirms an import
\* while a cancelled one still saves its rows.
NoSilentDuplicate ==
    overlapped \/ \A i \in Items : copies[i] <= 1 + askedNew[i]

\* "Imported" is only shown for an import whose rows are all in the vault, unless
\* a backup has replaced it since.
DoneMeansAll ==
    \A k \in Import : state[k] = "done" /\ ~restored => \A i \in wanted[k] : copies[i] > 0

\* Once the imports are over, the mounted vault tab was told of what they saved;
\* only one that failed halfway leaves it behind.
TabIsTold == stale => \E k \in Import : state[k] \in {"running", "failed"}

\* However often an import fails or is cancelled and picked again: no item is there
\* twice unasked, "imported" means all rows, and the tab is told
\* (useBitwardenImport.ts).
ImportCorrect == ImportTypeOK /\ NoSilentDuplicate /\ DoneMeansAll /\ TabIsTold
=============================================================================
