------------------------- MODULE TransactionStorage -------------------------
(***************************************************************************)
(* The transaction coordinator over a write-ahead log and a page store:    *)
(* crates/ntsql-transaction (TransactionCoordinator, committed-page flush, *)
(* committed-page recovery), ntsql-wal (commit_durability), ntsql-page     *)
(* (stage_page_write, flush_dirty_page) and the memory adapter of          *)
(* ntsql-storage-memory (InMemoryCommitLog, InMemoryPageStore).  Several   *)
(* logs exist, each with its page store, and coordinators of different     *)
(* logs hand out the same numbers.  A call that is rejected changes        *)
(* nothing and is the absence of a step.                                   *)
(*                                                                         *)
(* Abstractions of data, none of control:                                  *)
(*  - an adapter fault (arm_fault, then the operation that consumes it) is *)
(*    a choice the operation makes, at most MaxFaults times;               *)
(*  - a Vec of log records, always strictly increasing, is a function from *)
(*    positions; durable_len is the position of the last durable record;   *)
(*  - a page image is identified with the position of its record, since    *)
(*    positions are never reused; 0 is "no image";                         *)
(*  - the linear tokens ActiveTransaction and IndeterminateTransaction     *)
(*    exist exactly while the lifecycle says so, a dropped token is one    *)
(*    that nobody uses; CommittedTransaction and dirty pages are kept;     *)
(*  - CommitAttempted lasts only inside a commit call, which owns the      *)
(*    coordinator and the log, and is not a state of its own.              *)
(***************************************************************************)
EXTENDS Integers, Sequences, FiniteSets, Functions, Extrema

CONSTANTS
    Logs,            \* log lineages
    Pages,           \* page numbers, in their order
    RawPages,        \* pages that are also written without a transaction
    RawLogs,         \* logs on which they are
    MaxRawPosition,  \* bound: the last position where they are
    MaxCoordinators, \* bound: coordinators opened on all logs
    MaxEpoch, MaxSequence, MaxPosition,   \* the ends of the identity spaces
    MaxFaults,       \* bound: faults the adapters report
    None

Positions == 1 .. MaxPosition
Transactions == (1 .. MaxCoordinators) \X (1 .. MaxSequence)
TransactionIds == [epoch : 1 .. MaxEpoch, sequence : 1 .. MaxSequence]
Lifecycles == {"Active", "Committed", "Indeterminate", "PageAppendIndeterminate",
               "NoDurableCommitRecord"}

ASSUME BoundsAssumption ==
    /\ MaxCoordinators \in Nat
    /\ MaxEpoch \in Nat
    /\ MaxSequence \in Nat
    /\ MaxPosition \in Nat
    /\ MaxRawPosition \in Nat
    /\ MaxFaults \in Nat

ASSUME PagesAssumption == Pages \subseteq Nat /\ RawPages \subseteq Pages /\ RawLogs \subseteq Logs

ASSUME NoneAssumption ==
    /\ None \notin TransactionIds \cup Pages \cup Lifecycles
    /\ \A S \in SUBSET Pages : S # None

LogRecord ==
    [kind : {"TransactionPageWrite"}, transaction : TransactionIds, page : Pages]
        \cup [kind : {"TransactionCommit"}, transaction : TransactionIds, page : {None}]
        \cup [kind : {"PageWrite"}, transaction : {None}, page : Pages]

(* DirtyPage, and TransactionDirtyPage when a transaction owns it.          *)
DirtyPage ==
    [transaction : TransactionIds \cup {None}, log : Logs, page : Pages, position : Positions]
CommittedTransaction == [transaction : TransactionIds, log : Logs, position : Positions]

VARIABLES
    records, durable, nextPosition, nextEpoch,   \* of each InMemoryCommitLog
    store,            \* of each InMemoryPageStore: image of each page, or 0
    coordinators,     \* the log and epoch of each TransactionCoordinator
    nextSequence,     \* next_transaction_id; MaxSequence + 1 when exhausted
    lifecycle,        \* lifecycles; None for an identity not issued
    staged,           \* staged_pages of each coordinator
    committed,        \* the CommittedTransaction values handed out
    dirty,            \* the dirty pages handed out and not yet consumed
    recovering,       \* of each log: None, or the pages recovery has still to visit
    faults            \* faults reported so far

logVars == <<records, durable, nextPosition>>
coordinatorVars == <<coordinators, nextSequence, nextEpoch>>
vars == <<logVars, store, coordinatorVars, lifecycle, staged, committed, dirty,
          recovering, faults>>

----------------------------------------------------------------------------
Id(t) == [epoch |-> coordinators[t[1]].epoch, sequence |-> t[2]]
CommitRecord(tx) == [kind |-> "TransactionCommit", transaction |-> tx, page |-> None]
Durable(l) == {q \in DOMAIN records[l] : q <= durable[l]}

(* Every commit record of the transaction, volatile ones included.          *)
CommitPositions(l, tx) == {q \in DOMAIN records[l] : records[l][q] = CommitRecord(tx)}

(* An adapter reports an error although nothing forces it to.               *)
Fault == faults < MaxFaults /\ faults' = faults + 1

Init ==
    /\ records = [l \in Logs |-> [q \in {} |-> None]]
    /\ durable = [l \in Logs |-> 0]
    /\ nextPosition = [l \in Logs |-> 1]
    /\ nextEpoch = [l \in Logs |-> 1]
    /\ store = [l \in Logs |-> [p \in Pages |-> 0]]
    /\ coordinators = <<>>
    /\ nextSequence = [c \in 1 .. MaxCoordinators |-> 1]
    /\ lifecycle = [t \in Transactions |-> None]
    /\ staged = {}
    /\ committed = {}
    /\ dirty = {}
    /\ recovering = [l \in Logs |-> None]
    /\ faults = 0

----------------------------------------------------------------------------
(* The log: append_record, flush_through, restart.                          *)

(* Defect: the last position is not noticed.                                *)
AppendRecordUnchecked(l, record) ==
    /\ records' = [records EXCEPT ![l] =
                     [q \in DOMAIN @ \cup {nextPosition[l]} |->
                        IF q = nextPosition[l] THEN record ELSE @[q]]]
    /\ nextPosition' = [nextPosition EXCEPT ![l] = @ + 1]

AppendRecord(l, record) ==
    /\ nextPosition[l] \in Positions
    /\ records' = [records EXCEPT ![l] =
                     [q \in DOMAIN @ \cup {nextPosition[l]} |->
                        IF q = nextPosition[l] THEN record ELSE @[q]]]
    /\ nextPosition' = [nextPosition EXCEPT ![l] = @ + 1]

(* append_record: it takes effect and reports success, or an error that     *)
(* says nothing of the effect, or the position space is exhausted.          *)
AppendReported(l, record) == AppendRecord(l, record) /\ UNCHANGED faults
AppendFailed(l, record) ==
    \/ AppendRecord(l, record) /\ Fault
    \/ UNCHANGED <<records, nextPosition>> /\ Fault
    \/ nextPosition[l] \notin Positions /\ UNCHANGED <<records, nextPosition, faults>>

(* Defect: a flush through an older position takes the frontier back.       *)
FlushedBackTo(l, q) == durable' = [durable EXCEPT ![l] = q]
FlushedThrough(l, q) == durable' = [durable EXCEPT ![l] = IF @ >= q THEN @ ELSE q]

(* flush_through by any holder of the log.  A fault after the effect leaves *)
(* the same log.                                                            *)
FlushThrough(l, q) ==
    /\ recovering[l] = None
    /\ q \in DOMAIN records[l]
    /\ FlushedThrough(l, q)
    /\ UNCHANGED <<records, nextPosition, store, coordinatorVars, lifecycle, staged,
                   committed, dirty, recovering, faults>>

(* Defect: the position allocator rewinds to the durable records.           *)
RestartRewinding(l) ==
    /\ recovering[l] = None
    /\ records' = [records EXCEPT ![l] = Restrict(@, Durable(l))]
    /\ nextPosition' = [nextPosition EXCEPT ![l] = durable[l] + 1]
    /\ UNCHANGED <<durable, store, coordinatorVars, lifecycle, staged, committed, dirty,
                   recovering, faults>>

(* restart and reopen: the volatile suffix is lost, the allocators are not, *)
(* and whoever holds a coordinator, a token or a dirty page keeps it.       *)
Restart(l) ==
    /\ recovering[l] = None
    /\ records' = [records EXCEPT ![l] = Restrict(@, Durable(l))]
    /\ UNCHANGED <<durable, nextPosition, store, coordinatorVars, lifecycle, staged,
                   committed, dirty, recovering, faults>>

----------------------------------------------------------------------------
(* The coordinator.                                                         *)

(* open, on an epoch that allocate_transaction_epoch hands out.             *)
OpenCoordinator(l) ==
    /\ recovering[l] = None
    /\ Len(coordinators) < MaxCoordinators
    /\ nextEpoch[l] <= MaxEpoch
    /\ nextEpoch' = [nextEpoch EXCEPT ![l] = @ + 1]
    /\ coordinators' = Append(coordinators, [log |-> l, epoch |-> nextEpoch[l]])
    /\ UNCHANGED <<logVars, store, nextSequence, lifecycle, staged, committed, dirty,
                   recovering, faults>>

Begin(c) ==
    /\ nextSequence[c] <= MaxSequence
    /\ lifecycle[<<c, nextSequence[c]>>] = None
    /\ lifecycle' = [lifecycle EXCEPT ![<<c, nextSequence[c]>>] = "Active"]
    /\ nextSequence' = [nextSequence EXCEPT ![c] = @ + 1]
    /\ UNCHANGED <<logVars, store, coordinators, nextEpoch, staged, committed, dirty,
                   recovering, faults>>

(* commit checks the coordinator, the lineage of the log and the lifecycle  *)
(* before it touches the log, as resolve does with its source.              *)
(* Defect: the lineage of the log is not compared.                          *)
ServesAnyLog(l, t) == recovering[l] = None
Serves(l, t) == coordinators[t[1]].log = l /\ recovering[l] = None

HandOut(l, t, q) ==
    committed' = committed \cup {[transaction |-> Id(t), log |-> l, position |-> q]}

(* commit, over commit_durability: append, then flush through the position  *)
(* that the append returned.  Any error after the append was called leaves  *)
(* the transaction indeterminate.                                           *)
Commit(t, l) ==
    /\ lifecycle[t] = "Active" /\ Serves(l, t)
    /\ \/ /\ AppendReported(l, CommitRecord(Id(t)))
          /\ FlushedThrough(l, nextPosition[l])
          /\ lifecycle' = [lifecycle EXCEPT ![t] = "Committed"]
          /\ HandOut(l, t, nextPosition[l])
       \/ /\ lifecycle' = [lifecycle EXCEPT ![t] = "Indeterminate"]
          /\ UNCHANGED committed
          /\ \/ AppendFailed(l, CommitRecord(Id(t))) /\ UNCHANGED durable
             \/ AppendRecord(l, CommitRecord(Id(t))) /\ Fault /\ FlushedThrough(l, nextPosition[l])
    /\ UNCHANGED <<store, coordinatorVars, staged, dirty, recovering>>

(* Defect: a volatile commit record counts as absent.                       *)
LookupIgnoringVolatile(l, tx) == {CommitPositions(l, tx) \cap Durable(l)}

(* lookup_durable_commit: the one answer, or none when the evidence is      *)
(* duplicated or still volatile.  An answer is the position, or absence.    *)
LookupDurableCommit(l, tx) ==
    {found \in {CommitPositions(l, tx)} : Cardinality(found) <= 1 /\ found \subseteq Durable(l)}

Resolve(t, l) ==
    /\ lifecycle[t] = "Indeterminate" /\ Serves(l, t)
    /\ \E found \in LookupDurableCommit(l, Id(t)) :
         \/ /\ found = {}
            /\ lifecycle' = [lifecycle EXCEPT ![t] = "NoDurableCommitRecord"]
            /\ UNCHANGED committed
         \/ \E q \in found :
              /\ lifecycle' = [lifecycle EXCEPT ![t] = "Committed"]
              /\ HandOut(l, t, q)
    /\ UNCHANGED <<logVars, store, coordinatorVars, staged, dirty, recovering, faults>>

(* stage_page_write: one image of a page per transaction.  An append that   *)
(* failed consumes the transaction and keeps the page reserved.             *)
StagePageWrite(t, l, p) ==
    LET record == [kind |-> "TransactionPageWrite", transaction |-> Id(t), page |-> p]
    IN /\ lifecycle[t] = "Active" /\ Serves(l, t)
       /\ <<t, p>> \notin staged
       /\ staged' = staged \cup {<<t, p>>}
       /\ \/ /\ AppendReported(l, record)
             /\ dirty' = dirty \cup {[transaction |-> Id(t), log |-> l, page |-> p,
                                      position |-> nextPosition[l]]}
             /\ UNCHANGED lifecycle
          \/ /\ AppendFailed(l, record)
             /\ lifecycle' = [lifecycle EXCEPT ![t] = "PageAppendIndeterminate"]
             /\ UNCHANGED dirty
       /\ UNCHANGED <<durable, store, coordinatorVars, committed, recovering>>

(* The page crate's own stage_page_write, without a transaction.            *)
StageRawPageWrite(l, p) ==
    LET record == [kind |-> "PageWrite", transaction |-> None, page |-> p]
    IN /\ recovering[l] = None
       /\ l \in RawLogs /\ nextPosition[l] <= MaxRawPosition
       /\ \/ /\ AppendReported(l, record)
             /\ dirty' = dirty \cup {[transaction |-> None, log |-> l, page |-> p,
                                      position |-> nextPosition[l]]}
          \/ AppendFailed(l, record) /\ UNCHANGED dirty
       /\ UNCHANGED <<durable, store, coordinatorVars, lifecycle, staged, committed,
                      recovering>>

----------------------------------------------------------------------------
(* Writing pages to the store.                                              *)

(* flush_dirty_page, then write_page, which replaces the stored image       *)
(* whatever its position.  An unknown position and a flush that fails       *)
(* before its effect leave everything as it was; a store error consumes the *)
(* dirty page.  The caller's obligation is discharged by success alone.     *)
FlushDirtyPage(l, d, obligations) ==
    /\ d.log = l /\ recovering[l] = None
    /\ d.position \in DOMAIN records[l]
    /\ FlushedThrough(l, d.position)
    /\ \/ /\ d.position > durable[l] /\ Fault
          /\ UNCHANGED <<store, dirty, staged>>
       \/ /\ dirty' = dirty \ {d}
          /\ \/ Fault /\ UNCHANGED <<store, staged>>
             \/ /\ store' = [store EXCEPT ![l][d.page] = d.position]
                /\ \/ Fault /\ UNCHANGED staged
                   \/ UNCHANGED faults /\ staged' = staged \ obligations
    /\ UNCHANGED <<records, nextPosition, coordinatorVars, lifecycle, committed, recovering>>

FlushRawPage(l, d) == d.transaction = None /\ FlushDirtyPage(l, d, {})

(* Defect: an identity that two lineages share stands for one transaction.  *)
MayFlushByIdentity(k, d) == k.transaction = d.transaction

(* What flush_committed_page requires of the committed token.               *)
MayFlush(k, d) ==
    /\ k.transaction = d.transaction
    /\ k.log = d.log
    /\ k.position > d.position

FlushCommittedPage(l, k, d) == MayFlush(k, d) /\ FlushDirtyPage(l, d, {})

(* Defect: the obligation is discharged before the flush.                   *)
FlushStagedDischargedFirst(l, t, k, d) ==
    /\ Id(t) = d.transaction /\ coordinators[t[1]].log = d.log
    /\ lifecycle[t] = "Committed"
    /\ <<t, d.page>> \in staged
    /\ MayFlush(k, d)
    /\ d.log = l /\ recovering[l] = None
    /\ \/ FlushDirtyPage(l, d, {<<t, d.page>>})
       \/ /\ d.position \notin DOMAIN records[l]
          /\ staged' = staged \ {<<t, d.page>>}
          /\ UNCHANGED <<logVars, store, coordinatorVars, lifecycle, committed, dirty,
                         recovering, faults>>

(* flush_staged_committed_page of the coordinator of t.                     *)
FlushStagedCommittedPage(l, t, k, d) ==
    /\ Id(t) = d.transaction /\ coordinators[t[1]].log = d.log
    /\ lifecycle[t] = "Committed"
    /\ <<t, d.page>> \in staged
    /\ MayFlush(k, d)
    /\ FlushDirtyPage(l, d, {<<t, d.page>>})

----------------------------------------------------------------------------
(* Recovery of committed pages.                                             *)

OwnedPages(l, p) ==
    {q \in Durable(l) : records[l][q].kind = "TransactionPageWrite" /\ records[l][q].page = p}
DurableCommits(l, q) == CommitPositions(l, records[l][q].transaction) \cap Durable(l)
CommittedPages(l, p) == {q \in OwnedPages(l, p) : DurableCommits(l, q) # {}}

(* select_latest_committed_transaction_page; positions decide, not versions.*)
LatestCommitted(l, p) == Latest(CommittedPages(l, p))

(* classify_durable_transaction_page accepts every owned page of p: one     *)
(* commit at most, and after the page.                                      *)
Classified(l, p) ==
    \A q \in OwnedPages(l, p) :
        Cardinality(DurableCommits(l, q)) <= 1 /\ \A c \in DurableCommits(l, q) : c > q

RawBacked(l, p) ==
    /\ store[l][p] \in Durable(l)
    /\ records[l][store[l][p]].kind = "PageWrite"

(* reconcile_committed_transaction_page succeeds: the stored image is a     *)
(* durable page of a committed transaction.                                 *)
Reconciles(l, p) ==
    /\ Classified(l, p)
    /\ store[l][p] # 0 => store[l][p] \in CommittedPages(l, p)

(* durable_transaction_page_numbers.                                        *)
Inventory(l) == {p \in Pages : OwnedPages(l, p) # {}}

(* UnrecoveredTransactionPageStorage::new and recover, or retry: log and    *)
(* store are out of everyone's reach until every page is done.              *)
BeginRecovery(l) ==
    /\ recovering[l] = None
    /\ recovering' = [recovering EXCEPT ![l] = Inventory(l)]
    /\ UNCHANGED <<logVars, store, coordinatorVars, lifecycle, staged, committed, dirty, faults>>

(* Defect: a page that the store has is taken for current.                  *)
NeedsRecoveryIfMissing(l, p) == store[l][p] = 0 /\ LatestCommitted(l, p) # 0

(* The store is missing or behind the latest committed image.               *)
NeedsRecovery(l, p) == store[l][p] # LatestCommitted(l, p)

(* recover_committed_transaction_page of the next page in the inventory.  A *)
(* failure ends the batch, and a retry starts from a fresh inventory.       *)
RecoverPage(l) ==
    LET p == Earliest(recovering[l])
        install == store' = [store EXCEPT ![l][p] = LatestCommitted(l, p)]
        next == recovering' = [recovering EXCEPT ![l] = @ \ {p}]
        retry == recovering' = [recovering EXCEPT ![l] = Inventory(l)]
    IN /\ recovering[l] \notin {None, {}}
       /\ \/ ~Reconciles(l, p) /\ retry /\ UNCHANGED <<store, faults>>
          \/ /\ Reconciles(l, p) /\ ~NeedsRecovery(l, p)
             /\ next /\ UNCHANGED <<store, faults>>
          \/ /\ Reconciles(l, p) /\ NeedsRecovery(l, p)
             /\ \/ install /\ next /\ UNCHANGED faults
                \/ install /\ retry /\ Fault
                \/ UNCHANGED store /\ retry /\ Fault
       /\ UNCHANGED <<logVars, coordinatorVars, lifecycle, staged, committed, dirty>>

(* The batch succeeded: RecoveredTransactionPageStorage gives access back.  *)
FinishRecovery(l) ==
    /\ recovering[l] = {}
    /\ recovering' = [recovering EXCEPT ![l] = None]
    /\ UNCHANGED <<logVars, store, coordinatorVars, lifecycle, staged, committed, dirty, faults>>

----------------------------------------------------------------------------
TransactionStep(t) ==
    \E l \in Logs :
        \/ Commit(t, l)
        \/ Resolve(t, l)
        \/ \E p \in Pages : StagePageWrite(t, l, p)
        \/ \E k \in committed, d \in dirty : FlushStagedCommittedPage(l, t, k, d)

StorageStep(l) ==
    \/ \E q \in DOMAIN records[l] : FlushThrough(l, q)
    \/ \E p \in RawPages : StageRawPageWrite(l, p)
    \/ \E d \in dirty : FlushRawPage(l, d)
    \/ \E k \in committed, d \in dirty : FlushCommittedPage(l, k, d)
    \/ Restart(l)
    \/ OpenCoordinator(l)
    \/ BeginRecovery(l)
    \/ RecoverPage(l)
    \/ FinishRecovery(l)

Next ==
    \/ \E c \in DOMAIN coordinators : Begin(c)
    \/ \E t \in (DOMAIN coordinators) \X (1 .. MaxSequence) : TransactionStep(t)
    \/ \E l \in Logs : StorageStep(l)

(* recover runs to its end once it is called, and its caller retries.       *)
Fairness == \A l \in Logs : WF_vars(RecoverPage(l)) /\ WF_vars(FinishRecovery(l))

Spec == Init /\ [][Next]_vars /\ Fairness
=============================================================================
