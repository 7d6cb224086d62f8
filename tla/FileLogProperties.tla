------------------------- MODULE FileLogProperties -------------------------
(***************************************************************************)
(* What the file log promises to the transaction coordinator.              *)
(***************************************************************************)
EXTENDS FileLog

DurableRecords(file) ==
    LET frames == Readable(file) IN
    SubSeq(Records(frames), 1, DurableLen(file, frames))

Elements(s) == {s[i] : i \in DOMAIN s}

(* Open accepts whatever interrupted calls, dropped adapters and repairs    *)
(* leave, as long as no frame was lost before one that was kept.            *)
OpensAgain == Of(selected.frames, "Malformed") = {} => Accepted(selected)

(* The fields that the calls keep up to date are what an open of the file   *)
(* would compute, so that reopening a healthy adapter changes nothing.      *)
MemoryMatchesFile ==
    opened /\ ~poisoned =>
        /\ Repaired(selected).frames = selected.frames
        /\ records = Records(selected.frames)
        /\ durableLen = DurableLen(selected, selected.frames)
        /\ nextEpoch = AllocatedEpoch(selected, selected.frames) + 1
        /\ nextPosition = LastCompleted(selected, selected.frames) + 1
        /\ generation = selected.generation
        /\ reclaimedHighWater = selected.highWater

(* TransactionEpochSource: implementations never reissue an epoch within    *)
(* one persistence lineage (ntsql-transaction/src/lib.rs:26).               *)
EpochsNeverReissued ==
    \A i, j \in DOMAIN handedOut : handedOut[i] = handedOut[j] => i = j

(* The file that the disk certainly names, and the records it holds for     *)
(* certain and in all.                                                      *)
Permanent == IF former = {} THEN selected ELSE CHOOSE file \in former : TRUE

Split(all, sure) == [durable |-> SubSeq(all, 1, sure), volatile |-> SubSeq(all, sure + 1, Len(all))]

SureFrames(file, frames) == SubSeq(frames, 1, Earliest({Len(frames), file.synced}))

Contents ==
    CHOOSE c \in UNION UNION {{{
        Split(all, sure) : all \in {Records(frames)}, sure \in {DurableLen(file, SureFrames(file, frames))}}
            : frames \in {Readable(file)}}
            : file \in {Permanent}} : TRUE

(* Through partial writes, poison, repairs, replacements and power losses,  *)
(* the file is a log in the sense of DurableLog.                            *)
AsDurableLog == INSTANCE DurableLog WITH log <- Contents

ImplementsDurableLog == AsDurableLog!Spec

CommitsIn(s, by) == {i \in DOMAIN s : s[i].kind = "Commit" /\ s[i].by = by}

(* "A successful flush means durable completion through at least the        *)
(* requested position" (ntsql-wal/src/lib.rs:153): whatever failed or was   *)
(* lost since, the record of a committed transaction is in the selected     *)
(* file, below a marker and before anything unreadable, until a             *)
(* reclamation removes it.                                                  *)
CommittedSurvives ==
    \A by \in Epochs :
        lifecycle[by] = "Committed" =>
            by \in reclaimed \/ Cardinality(CommitsIn(DurableRecords(selected), by)) = 1

(* A coordinator of a later epoch has been opened on the log.               *)
Superseded(by) == \E later \in Epochs : later > by /\ lifecycle[later] # "NotIssued"

(* A commit that failed anywhere in append or flush, on a writer that is    *)
(* dropped, repaired at open, or reclaims, is resolved as the file has      *)
(* decided it and never before, and what a caller was told is not           *)
(* overturned by a later power loss, repair or reclamation: a committed     *)
(* transaction keeps its record (CommittedSurvives), one without a durable  *)
(* commit record has none in any file the path may name.  Restriction: the  *)
(* answer of absence is about the records that reclamations left.  Only a   *)
(* coordinator that a later restart has superseded can get it for a commit  *)
(* that was durable once, and AbsentChecksLineage says that none should.    *)
VerdictsStand ==
    /\ CommittedSurvives
    /\ \A by \in Epochs :
         lifecycle[by] = "NoDurableCommitRecord" =>
            /\ by \in reclaimed => Superseded(by)
            /\ \A file \in {selected} \cup former :
                   CommitsIn(Records(CompleteFrames(file)), by) = {}

(* "Implementations must return Absent only after completely checking the   *)
(* matching lineage" (ntsql-transaction/src/lib.rs:116): resolve never      *)
(* says of a transaction whose commit record was durable in the lineage,    *)
(* and went with a reclaimed prefix since, that there is none.              *)
AbsentChecksLineage ==
    \A by \in Epochs : lifecycle[by] = "NoDurableCommitRecord" => by \notin reclaimed
============================================================================
