--------------------------- MODULE MCLocalRequests ---------------------------
(* The Desktop's request channels with the extension that calls them: the    *)
(* proposals of vault edits, autofill, and other programs of the machine.    *)
EXTENDS ExtensionEdits, AutofillRequest

MCCalls == [k \in Kind |-> IF k \in {"autofill", "vaultEdit"} THEN 1 ELSE 2]
MCRemounts == [k \in Kind |-> IF k \in {"sign", "pin"} THEN 1 ELSE 0]

localVars == <<channelVars, editVars, fillVars>>

LocalInit == ChannelInit /\ EditsInit /\ AutofillInit

LocalNext ==
    \/ (ChannelStep \/ OtherPrograms) /\ UNCHANGED <<editVars, fillVars>>
    \/ kind = "vaultEdit" /\ EditsStep /\ UNCHANGED fillVars
    \/ kind = "autofill" /\ AutofillStep /\ UNCHANGED editVars

LocalSpec == LocalInit /\ [][LocalNext]_localVars

FairLocalSpec == LocalSpec /\ ChannelFairness /\ AutofillFairness

\* However late the user answers, or never: a program that waits for its answer does
\* not keep the Desktop's slot (one that has hung up does), and no alarm of a page's
\* request is left ticking (single_slot_channel.rs, background.ts).
RequestsEnd == SlotIsFreed /\ AlarmIsCollected
=============================================================================
