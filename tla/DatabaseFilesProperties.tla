------------------------ MODULE DatabaseFilesProperties ------------------------
(***************************************************************************)
(* What the files of a database promise to whoever opens them next, at     *)
(* once or after any power loss.                                           *)
(***************************************************************************)
EXTENDS DatabaseFiles

\* The stages of prepare_close, which has consumed Live, and of close.
PreparingClose ==
    {"live", "slotCreated", "slotWritten", "slotReady", "slotCleared", "slotCandidate",
     "slotFilled", "slotSynced", "slotReplaced", "slotPublished"}
Publishing == BeforeReplacement \cup {"targetSelected", "targetDurable"}

\* The directory as it is and as any power loss may leave it.
Directories == disk \cup {where}

\* A create that stops anywhere leaves a directory that a later create takes for
\* one of its own phases: no order of effects, stops and power losses produces a
\* namespace conflict (CreateNamespaceObservation::phase).
EveryDirectoryIsAPhase == \A dir \in Directories : Phases(dir) # {}

\* The manifest is selected last: whatever a power loss leaves, a selected
\* manifest finds an owner and three children at their selected names, with all
\* their bytes (publish_create_candidate, publish_clean_manifest).
SelectionIsComplete ==
    \A dir \in Directories : Selected(dir) # "none" =>
        \A o \in Children \cup {"owner", Selected(dir)} :
            dir[o] = "selected" /\ content[o] = "synced"

\* The manifest found in a directory, and the stage of the holder of its owner
\* lock, as ntsql-database has them.
AsManifest(dir) ==
    [none   |-> [lifecycle |-> "None", generation |-> 0, certified |-> 0],
     source |-> [lifecycle |-> "RecoveryRequired", generation |-> 1, certified |-> 0],
     target |-> [lifecycle |-> "Clean", generation |-> 2, certified |-> certificate]
    ][Selected(dir)]

AsStage(s) ==
    CASE s = "repaired" -> "ManifestSelected"
      [] s = "recoveryRequired" -> "RecoveryRequired"
      [] s \in PreparingClose -> "Live"
      [] s \in Publishing -> "ClosePending"
      [] s = "failed" -> "PublicationFailed"
      [] s = "closed" -> "Closed"
      [] OTHER -> "Unbound"

AsLifecycle ==
    INSTANCE DatabaseLifecycle WITH
        selected <- AsManifest(where),
        possible <- {AsManifest(dir) : dir \in disk},
        stage <- IF lock = Nobody THEN "Unbound" ELSE AsStage(stage[lock]),
        changes <- frontier,
        state <- report

\* The database goes through the lifecycle of ntsql-database, whatever fails,
\* stops or loses power between the effects of its processes: no manifest is acted
\* on that may still be taken back (sync_selected_manifest_publication comes before
\* LockedFileCommitLogOpen::finish cuts a torn end off), a database that was
\* created stays created, one whose close has been reported stays clean, under a
\* certificate of everything committed, and a failed close says of the selected
\* manifest no more than what is so (DatabaseCleanManifestPublicationState).
ImplementsDatabaseLifecycle == AsLifecycle!Spec

\* Where a clean manifest may be found, its certificate is about the final data
\* and the clean-close slot holds the checkpoint it certifies, in every state a
\* power loss may leave (prepare_close publishes before close selects).
CleanManifestCertified ==
    \A dir \in Directories : Selected(dir) = "target" =>
        /\ certificate = frontier
        /\ dir["cleanSlot"] = "selected"
        /\ slot.images = {certificate}

\* As CleanManifestCertified, and the slot can be opened: its control file,
\* which names its identity, has its bytes.  "a successful clean manifest can
\* later select the exact candidate by the certificate anchor" (ADR 0068).
CertifiedCheckpointSelectable ==
    \A dir \in Directories : Selected(dir) = "target" =>
        content["cleanSlot"] = "synced"

\* Something creation wrote was cut off before its bytes were there.
PartialFile ==
    \E o \in Children \cup {"owner", "source"} :
        where[o] # "absent" /\ content[o] = "empty"

\* A create that is called again after every failure and power loss ends with a
\* published database, unless it finds a file that it left partial, which it
\* never touches again.
CreateFinishes == <>[](Selected(where) # "none") \/ []<>PartialFile
================================================================================
