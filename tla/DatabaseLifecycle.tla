--------------------------- MODULE DatabaseLifecycle ---------------------------
(***************************************************************************)
(* What the typestate of crates/ntsql-database/src/lib.rs promises about a *)
(* database whatever adapter owns it: one owner at a time goes through the *)
(* stages of DatabaseLifecycleStage, a manifest is acted on only when it   *)
(* can no longer be taken back, and a close that fails says what is so.    *)
(***************************************************************************)
EXTENDS Integers

VARIABLES
    selected,   \* the manifest under the selected name
    possible,   \* the manifests a power loss may leave there
    stage,      \* of the one owner, or Unbound
    changes,    \* committed changes: what a certificate is about
    state       \* DatabaseCleanManifestPublicationState of its close

vars == <<selected, possible, stage, changes, state>>

\* DatabaseManifest: storage identity, formats and features never change.
Manifest(lifecycle, generation, certified) ==
    [lifecycle |-> lifecycle, generation |-> generation, certified |-> certified]
NoManifest == Manifest("None", 0, 0)
FirstManifest == Manifest("RecoveryRequired", 1, 0)

NextClean(source) == Manifest("Clean", source.generation + 1, changes)

Init ==
    /\ selected = NoManifest /\ possible = {NoManifest}
    /\ stage = "Unbound" /\ changes = 0 /\ state = "none"

From(stages, to) == stage \in stages /\ stage' = to

\* The barrier that a manifest is selected under.
Durably == possible' = {selected'}

Replaced(manifest) == selected' = manifest /\ possible' = possible \cup {manifest}
Synchronized == selected' = selected /\ Durably
Untouched == UNCHANGED <<selected, possible>>

Create ==
    /\ stage = "Unbound" /\ selected = NoManifest
    /\ Replaced(FirstManifest)
    /\ UNCHANGED <<stage, changes, state>>

Synchronize == Synchronized /\ UNCHANGED <<stage, changes, state>>

SelectManifest ==
    /\ From({"Unbound"}, "ManifestSelected")
    /\ selected # NoManifest
    /\ Synchronized
    /\ UNCHANGED <<changes, state>>

\* Creation selects and binds in one call.
BindObservedStorage ==
    /\ From({"Unbound", "ManifestSelected"}, "RecoveryRequired")
    /\ selected.lifecycle = "RecoveryRequired"
    /\ Synchronized
    /\ UNCHANGED <<changes, state>>

CompleteRecovery ==
    /\ From({"RecoveryRequired"}, "Live")
    /\ Untouched /\ UNCHANGED <<changes, state>>

LiveWork ==
    /\ stage = "Live"
    /\ changes' = changes + 1
    /\ Untouched /\ UNCHANGED <<stage, state>>

PrepareClose ==
    /\ From({"Live"}, "ClosePending")
    /\ selected.lifecycle = "RecoveryRequired"
    /\ Untouched /\ UNCHANGED <<changes, state>>

Published == selected.lifecycle = "RecoveryRequired" /\ Replaced(NextClean(selected))

PublishCleanManifest ==
    /\ stage = "ClosePending"
    /\ Published
    /\ UNCHANGED <<stage, changes, state>>

\* The receipt names the target as selected and as synchronized.
Close ==
    /\ From({"ClosePending"}, "Closed")
    /\ selected.lifecycle = "Clean" /\ possible = {selected}
    /\ Untouched /\ UNCHANGED <<changes, state>>

\* What a failed close may say of the manifest it leaves.
Reportable ==
    {"SelectionIndeterminate"}
        \cup (IF selected'.lifecycle = "Clean" THEN {"TargetSelectedDurabilityIndeterminate"}
              ELSE {})
        \cup (IF ~Durably THEN {}
              ELSE IF selected'.lifecycle = "Clean" THEN {"TargetDurable"}
              ELSE {"SourceSelected"})

PublicationFails ==
    /\ From({"ClosePending"}, "PublicationFailed")
    /\ Untouched \/ Published \/ Synchronized
    /\ state' \in Reportable
    /\ UNCHANGED changes

\* Abandoned, dropped, or gone with its process.
Release ==
    /\ stage # "Unbound" /\ stage' = "Unbound" /\ state' = "none"
    /\ Untouched /\ UNCHANGED changes

PowerLoss ==
    /\ selected' \in possible /\ Durably
    /\ stage' = "Unbound" /\ state' = "none"
    /\ UNCHANGED changes

Next ==
    \/ Create \/ Synchronize \/ SelectManifest \/ BindObservedStorage
    \/ CompleteRecovery \/ LiveWork \/ PrepareClose \/ PublishCleanManifest \/ Close
    \/ PublicationFails \/ Release \/ PowerLoss

Spec == Init /\ [][Next]_vars
================================================================================
