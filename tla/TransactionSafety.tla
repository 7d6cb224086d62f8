------------------------- MODULE TransactionSafety -------------------------
(***************************************************************************)
(* Proofs about the transaction storage model, for every value of its      *)
(* constants: its types, and its safety properties. The lifecycle never    *)
(* says more than the log, and the evidence of a page always reconciles.   *)
(* An obligation is discharged by what is in the store, recovery installs  *)
(* the latest committed images, and an outcome is decided once, as         *)
(* CommitOutcomes has it.                                                  *)
(***************************************************************************)
EXTENDS TransactionInvariant, ExtremaProofs, FiniteSetTheorems

USE BoundsAssumption DEF Positions, Transactions, TransactionIds, Lifecycles

----------------------------------------------------------------------------
(* What the operations on one log leave.                                    *)

(* The effect of append_record: a record at a new position, nothing else.   *)
Appended(l, r) ==
    /\ nextPosition[l] \in Positions
    /\ DOMAIN records' = Logs
    /\ DOMAIN records'[l] = DOMAIN records[l] \cup {nextPosition[l]}
    /\ records'[l][nextPosition[l]] = r
    /\ \A q \in DOMAIN records[l] \ {nextPosition[l]} : records'[l][q] = records[l][q]
    /\ \A m \in Logs \ {l} : records'[m] = records[m] /\ nextPosition'[m] = nextPosition[m]
    /\ nextPosition' \in [Logs -> 1 .. MaxPosition + 1]
    /\ nextPosition'[l] = nextPosition[l] + 1

(* append_record has that effect.                                           *)
LEMMA AppendEffect ==
    ASSUME TypeOK, NEW l \in Logs, NEW r, AppendRecord(l, r)
    PROVE  Appended(l, r)
<1>. DEFINE n == nextPosition[l]
            log == [q \in DOMAIN records[l] \cup {n} |-> IF q = n THEN r ELSE records[l][q]]
<1>1. records' = [records EXCEPT ![l] = log] /\ DOMAIN records = Logs
  BY DEF AppendRecord, TypeOK
<1>2. records'[l] = log /\ DOMAIN records' = Logs /\ \A m \in Logs \ {l} : records'[m] = records[m]
  BY <1>1
<1>3. /\ DOMAIN log = DOMAIN records[l] \cup {n}
      /\ log[n] = r
      /\ \A q \in DOMAIN records[l] \ {n} : log[q] = records[l][q]
  OBVIOUS
<1>4. /\ n \in Positions
      /\ nextPosition' \in [Logs -> 1 .. MaxPosition + 1]
      /\ nextPosition'[l] = nextPosition[l] + 1
      /\ \A m \in Logs \ {l} : nextPosition'[m] = nextPosition[m]
  <2>1. nextPosition \in [Logs -> 1 .. MaxPosition + 1]
    BY DEF TypeOK
  <2>2. nextPosition' = [nextPosition EXCEPT ![l] = @ + 1] /\ n \in Positions
    BY DEF AppendRecord
  <2>. QED  BY <2>1, <2>2
<1>. QED  BY <1>2, <1>3, <1>4 DEF Appended

(* The effect of flush_through: the frontier of one log reaches q.          *)
Flushed(l, q) ==
    /\ durable' \in [Logs -> 0 .. MaxPosition]
    /\ \A m \in Logs : durable[m] <= durable'[m]
    /\ \A m \in Logs \ {l} : durable'[m] = durable[m]
    /\ q <= durable'[l]
    /\ durable'[l] \in {durable[l], q}

(* flush_through has that effect.                                           *)
LEMMA FlushEffect ==
    ASSUME TypeOK, NEW l \in Logs, NEW q \in Positions, FlushedThrough(l, q)
    PROVE  Flushed(l, q)
<1>1. durable \in [Logs -> 0 .. MaxPosition]
  BY DEF TypeOK
<1>. QED  BY <1>1 DEF FlushedThrough, Flushed

(* restart keeps the durable records of one log and drops the others.       *)
LEMMA RestartEffect ==
    ASSUME TypeOK, NEW l \in Logs, Restart(l)
    PROVE  /\ DOMAIN records' = Logs
           /\ DOMAIN records'[l] = Durable(l)
           /\ \A q \in Durable(l) : records'[l][q] = records[l][q]
           /\ \A m \in Logs \ {l} : records'[m] = records[m]
<1>. DEFINE log == [q \in Durable(l) |-> records[l][q]]
<1>1. records' = [records EXCEPT ![l] = log] /\ DOMAIN records = Logs
  BY DEF Restart, TypeOK, Restrict
<1>. QED  BY <1>1

(* A coordinator names its log and its epoch.                               *)
LEMMA CoordinatorType ==
    ASSUME TypeOK, NEW c \in DOMAIN coordinators
    PROVE  c \in 1 .. MaxCoordinators /\ coordinators[c] \in [log : Logs, epoch : 1 .. MaxEpoch]
<1>. DEFINE R == [log : Logs, epoch : 1 .. MaxEpoch]
<1>1. coordinators \in Seq(R) /\ Len(coordinators) <= MaxCoordinators
  BY DEF TypeOK
<1>. HIDE DEF R
<1>2. DOMAIN coordinators = 1 .. Len(coordinators) /\ Len(coordinators) \in Nat
  BY <1>1
<1>3. coordinators[c] \in R
  BY <1>1, <1>2
<1>. QED  BY <1>1, <1>2, <1>3 DEF R

(* An identity is one of the transaction identities.                        *)
LEMMA IdType ==
    ASSUME TypeOK, NEW t \in (DOMAIN coordinators) \X (1 .. MaxSequence)
    PROVE  /\ t \in Transactions
           /\ Id(t) \in TransactionIds
           /\ LogOf(t) \in Logs
<1>1. t[1] \in DOMAIN coordinators /\ t[2] \in 1 .. MaxSequence /\ t = <<t[1], t[2]>>
  OBVIOUS
<1>2. t[1] \in 1 .. MaxCoordinators /\ coordinators[t[1]] \in [log : Logs, epoch : 1 .. MaxEpoch]
  BY <1>1, CoordinatorType
<1>. QED  BY <1>1, <1>2 DEF Id, LogOf

(* The effect of a commit call: the record is appended or not, and success  *)
(* is reported after the record became durable.                             *)
CommitEffect(t, l) ==
    \/ /\ Appended(l, CommitRecord(Id(t)))
       /\ Flushed(l, nextPosition[l])
       /\ lifecycle' = [lifecycle EXCEPT ![t] = "Committed"]
       /\ HandOut(l, t, nextPosition[l])
    \/ /\ lifecycle' = [lifecycle EXCEPT ![t] = "Indeterminate"]
       /\ committed' = committed
       /\ \/ Appended(l, CommitRecord(Id(t))) /\ (durable' = durable \/ Flushed(l, nextPosition[l]))
          \/ records' = records /\ nextPosition' = nextPosition /\ durable' = durable

(* commit has that effect.                                                  *)
LEMMA CommitHasEffect ==
    ASSUME TypeOK, NEW l \in Logs, NEW t \in Transactions, Commit(t, l)
    PROVE  CommitEffect(t, l)
<1>. DEFINE r == CommitRecord(Id(t))
<1>1. AppendRecord(l, r) => Appended(l, r) /\ nextPosition[l] \in Positions
  BY AppendEffect DEF Appended
<1>2. nextPosition[l] \in Positions /\ FlushedThrough(l, nextPosition[l]) => Flushed(l, nextPosition[l])
  BY FlushEffect
<1>. QED  BY <1>1, <1>2 DEF Commit, AppendReported, AppendFailed, CommitEffect

(* The effect of a flush of a dirty page, whatever it reports.              *)
PageFlushed(l, d) ==
    /\ d.log = l
    /\ d.position \in DOMAIN records[l]
    /\ Flushed(l, d.position)
    /\ store' = store \/ store' = [store EXCEPT ![l][d.page] = d.position]
    /\ dirty' \subseteq dirty
    /\ staged' \subseteq staged
    /\ faults' \in 0 .. MaxFaults
    /\ UNCHANGED <<records, nextPosition, coordinatorVars, lifecycle, committed, recovering>>

(* flush_dirty_page has that effect.                                        *)
LEMMA FlushDirtyPageEffect ==
    ASSUME TypeOK, NEW l \in Logs, NEW d, NEW obligations, FlushDirtyPage(l, d, obligations)
    PROVE  PageFlushed(l, d)
<1>1. d.position \in Positions
  BY DEF FlushDirtyPage, TypeOK
<1>2. Flushed(l, d.position)
  BY <1>1, FlushEffect DEF FlushDirtyPage
<1>3. faults \in 0 .. MaxFaults
  BY DEF TypeOK
<1>4. faults' \in 0 .. MaxFaults
  BY <1>3 DEF FlushDirtyPage, Fault
<1>. QED  BY <1>2, <1>4 DEF FlushDirtyPage, PageFlushed

(* Every flush of a page, of a step of the system, is one.                  *)
FlushesPage(l, d) ==
    \/ FlushRawPage(l, d)
    \/ \E k \in committed : FlushCommittedPage(l, k, d)
    \/ \E t \in (DOMAIN coordinators) \X (1 .. MaxSequence), k \in committed :
         FlushStagedCommittedPage(l, t, k, d)

(* A flushed page is without a transaction, or a committed token allows it. *)
LEMMA FlushesPageEffect ==
    ASSUME TypeOK, NEW l \in Logs, NEW d \in dirty, FlushesPage(l, d)
    PROVE  /\ PageFlushed(l, d)
           /\ d.transaction = None \/ \E k \in committed : MayFlush(k, d)
BY FlushDirtyPageEffect
   DEF FlushesPage, FlushRawPage, FlushCommittedPage, FlushStagedCommittedPage

(* The images recovery installs are durable committed pages of the log.     *)
LEMMA LatestCommittedIsCommitted ==
    ASSUME TypeOK, NEW l \in Logs, NEW p \in Pages
    PROVE  /\ LatestCommitted(l, p) \in 0 .. MaxPosition
           /\ LatestCommitted(l, p) # 0 => LatestCommitted(l, p) \in CommittedPages(l, p)
<1>. DEFINE S == CommittedPages(l, p)
<1>1. S \in SUBSET (0 .. MaxPosition)
  BY DEF TypeOK, CommittedPages, OwnedPages, Durable
<1>. HIDE DEF S
<1>2. S = {} => Latest(S) = 0
  BY <1>1, LatestIsLast
<1>3. S # {} => Latest(S) \in S
  BY <1>1, LatestIsLast DEF IsLatest
<1>. QED  BY <1>1, <1>2, <1>3 DEF S, LatestCommitted

(* The page that recovery visits next is one of its inventory.              *)
LEMMA NextRecovered ==
    ASSUME TypeOK, NEW l \in Logs, recovering[l] \notin {None, {}}
    PROVE  recovering[l] \in SUBSET Pages /\ Earliest(recovering[l]) \in recovering[l]
<1>1. recovering[l] \in (SUBSET Pages) \cup {None}
  BY DEF TypeOK
<1>2. recovering[l] # None /\ recovering[l] # {}
  OBVIOUS
<1>3. recovering[l] \in SUBSET Pages
  BY <1>1, <1>2
<1>. QED  BY <1>2, <1>3, EarliestIsFirst, PagesAssumption DEF IsEarliest

(* What recovery of one page leaves.                                        *)
PageRecovered(l) ==
    /\ \/ store' = store
       \/ \E p \in Pages : /\ store' = [store EXCEPT ![l][p] = LatestCommitted(l, p)]
                           /\ Reconciles(l, p)
    /\ recovering' \in [Logs -> (SUBSET Pages) \cup {None}]
    /\ faults' \in 0 .. MaxFaults
    /\ UNCHANGED <<logVars, coordinatorVars, lifecycle, staged, committed, dirty>>

(* recover_committed_transaction_page leaves that.                          *)
LEMMA RecoverPageEffect ==
    ASSUME TypeOK, NEW l \in Logs, RecoverPage(l)
    PROVE  PageRecovered(l)
<1>. DEFINE p == Earliest(recovering[l])
<1>1. recovering[l] \in SUBSET Pages /\ p \in recovering[l]
  BY NextRecovered DEF RecoverPage
<1>2. p \in Pages
  BY <1>1
<1>3. Inventory(l) \in SUBSET Pages /\ recovering \in [Logs -> (SUBSET Pages) \cup {None}]
  BY DEF Inventory, TypeOK
<1>4. recovering' \in [Logs -> (SUBSET Pages) \cup {None}]
  <2>1. \/ recovering' = [recovering EXCEPT ![l] = @ \ {p}]
        \/ recovering' = [recovering EXCEPT ![l] = Inventory(l)]
    BY DEF RecoverPage
  <2>2. recovering[l] \ {p} \in SUBSET Pages
    BY <1>1
  <2>. QED  BY <1>3, <2>1, <2>2
<1>5. faults' \in 0 .. MaxFaults
  BY DEF RecoverPage, Fault, TypeOK
<1>6. \/ store' = store
      \/ store' = [store EXCEPT ![l][p] = LatestCommitted(l, p)] /\ Reconciles(l, p)
  BY DEF RecoverPage
<1>7. UNCHANGED <<logVars, coordinatorVars, lifecycle, staged, committed, dirty>>
  BY DEF RecoverPage
<1>. QED  BY <1>2, <1>4, <1>5, <1>6, <1>7 DEF PageRecovered

----------------------------------------------------------------------------
(* Type correctness.                                                        *)

(* The records of every log have their types.                               *)
RecordsTyped ==
    /\ DOMAIN records = Logs
    /\ \A l \in Logs : /\ DOMAIN records[l] \subseteq Positions
                       /\ \A q \in DOMAIN records[l] : records[l][q] \in LogRecord

(* Appending a log record keeps the types of the log.                       *)
LEMMA AppendTyped ==
    ASSUME TypeOK, NEW l \in Logs, NEW r \in LogRecord, Appended(l, r)
    PROVE  RecordsTyped' /\ nextPosition' \in [Logs -> 1 .. MaxPosition + 1]
BY DEF Appended, RecordsTyped, TypeOK

(* The coordinator and the page crate write log records.                    *)
LEMMA CommitRecordTyped ==
    ASSUME NEW x \in TransactionIds PROVE CommitRecord(x) \in LogRecord
BY DEF CommitRecord, LogRecord

(* Handing out a committed token keeps the type of the tokens.              *)
LEMMA HandOutTyped ==
    ASSUME TypeOK, NEW l \in Logs, NEW t \in (DOMAIN coordinators) \X (1 .. MaxSequence),
           NEW q \in Positions, HandOut(l, t, q)
    PROVE  committed' \subseteq CommittedTransaction
<1>1. committed \subseteq CommittedTransaction /\ Id(t) \in TransactionIds
  BY IdType DEF TypeOK
<1>. QED  BY <1>1 DEF HandOut, CommittedTransaction

(* Every step keeps the types (the fields of InMemoryCommitLog,             *)
(* InMemoryPageStore and TransactionCoordinator).                           *)
LEMMA TypeStep == TypeOK /\ [Next]_vars => TypeOK'
<1>. SUFFICES ASSUME TypeOK, [Next]_vars
              PROVE  TypeOK'
  OBVIOUS
<1>a. RecordsTyped
  BY DEF TypeOK, RecordsTyped
<1>b. store \in [Logs -> [Pages -> 0 .. MaxPosition]] /\ faults \in 0 .. MaxFaults
  BY DEF TypeOK
<1>c. /\ nextEpoch \in [Logs -> 1 .. MaxEpoch + 1]
      /\ coordinators \in Seq([log : Logs, epoch : 1 .. MaxEpoch])
      /\ Len(coordinators) <= MaxCoordinators
  BY DEF TypeOK
<1>d. /\ nextSequence \in [1 .. MaxCoordinators -> 1 .. MaxSequence + 1]
      /\ lifecycle \in [Transactions -> Lifecycles \cup {None}]
  BY DEF TypeOK
<1>e. /\ staged \subseteq Transactions \X Pages
      /\ committed \subseteq CommittedTransaction
      /\ dirty \subseteq DirtyPage
  BY DEF TypeOK
<1>f. nextPosition \in [Logs -> 1 .. MaxPosition + 1]
  BY DEF TypeOK
<1>1. ASSUME NEW l \in Logs, NEW q \in DOMAIN records[l], FlushThrough(l, q)
      PROVE  TypeOK'
  <2>1. Flushed(l, q)
    BY <1>1, <1>a, FlushEffect DEF FlushThrough, RecordsTyped
  <2>. QED  BY <1>1, <2>1 DEF TypeOK, FlushThrough, Flushed, coordinatorVars
<1>2. ASSUME NEW l \in Logs, NEW p \in RawPages, StageRawPageWrite(l, p)
      PROVE  TypeOK'
  <2>. DEFINE r == [kind |-> "PageWrite", transaction |-> None, page |-> p]
              d == [transaction |-> None, log |-> l, page |-> p, position |-> nextPosition[l]]
  <2>1. r \in LogRecord /\ p \in Pages
    BY PagesAssumption DEF LogRecord
  <2>2. AppendRecord(l, r) => RecordsTyped' /\ nextPosition' \in [Logs -> 1 .. MaxPosition + 1]
    BY <2>1, AppendEffect, AppendTyped
  <2>3. RecordsTyped' /\ nextPosition' \in [Logs -> 1 .. MaxPosition + 1] /\ faults' \in 0 .. MaxFaults
    BY <1>2, <1>a, <1>b, <1>f, <2>2 DEF StageRawPageWrite, AppendReported, AppendFailed, Fault, RecordsTyped
  <2>4. dirty' = dirty \/ (dirty' = dirty \cup {d} /\ nextPosition[l] \in Positions)
    BY <1>2 DEF StageRawPageWrite, AppendReported, AppendRecord
  <2>5. dirty' \subseteq DirtyPage
    BY <2>1, <2>4, <1>e DEF DirtyPage
  <2>6. UNCHANGED <<durable, store, coordinatorVars, lifecycle, staged, committed, recovering>>
    BY <1>2 DEF StageRawPageWrite
  <2>. QED  BY <2>3, <2>5, <2>6 DEF TypeOK, coordinatorVars, RecordsTyped
<1>3. ASSUME NEW l \in Logs, NEW d \in dirty, FlushesPage(l, d)
      PROVE  TypeOK'
  <2>1. PageFlushed(l, d) /\ d \in DirtyPage
    BY <1>3, <1>e, FlushesPageEffect
  <2>2. d.page \in Pages /\ d.position \in 0 .. MaxPosition
    BY <2>1 DEF DirtyPage
  <2>3. store' = store \/ store' = [store EXCEPT ![l][d.page] = d.position]
    BY <2>1 DEF PageFlushed
  <2>4. store' \in [Logs -> [Pages -> 0 .. MaxPosition]]
    BY <1>b, <2>2, <2>3
  <2>. QED  BY <2>1, <2>4 DEF TypeOK, PageFlushed, Flushed, coordinatorVars
<1>4. ASSUME NEW l \in Logs, Restart(l)
      PROVE  TypeOK'
  <2>1. RecordsTyped'
    BY <1>4, <1>a, RestartEffect DEF RecordsTyped, Durable
  <2>. QED  BY <1>4, <2>1 DEF TypeOK, Restart, RecordsTyped, coordinatorVars
<1>5. ASSUME NEW l \in Logs, OpenCoordinator(l)
      PROVE  TypeOK'
  <2>. DEFINE c == [log |-> l, epoch |-> nextEpoch[l]]
  <2>1. nextEpoch' \in [Logs -> 1 .. MaxEpoch + 1] /\ c \in [log : Logs, epoch : 1 .. MaxEpoch]
    BY <1>5, <1>c DEF OpenCoordinator
  <2>2. /\ coordinators' \in Seq([log : Logs, epoch : 1 .. MaxEpoch])
        /\ Len(coordinators') <= MaxCoordinators
    BY <1>5, <1>c, <2>1 DEF OpenCoordinator
  <2>. QED  BY <1>5, <2>1, <2>2 DEF TypeOK, OpenCoordinator, logVars
<1>6. ASSUME NEW c \in DOMAIN coordinators, Begin(c)
      PROVE  TypeOK'
  <2>1. c \in 1 .. MaxCoordinators
    BY CoordinatorType
  <2>2. <<c, nextSequence[c]>> \in Transactions
    BY <1>6, <1>d, <2>1 DEF Begin
  <2>3. /\ lifecycle' \in [Transactions -> Lifecycles \cup {None}]
        /\ nextSequence' \in [1 .. MaxCoordinators -> 1 .. MaxSequence + 1]
    <3>1. lifecycle' = [lifecycle EXCEPT ![<<c, nextSequence[c]>>] = "Active"]
      BY <1>6 DEF Begin
    <3>2. nextSequence' = [nextSequence EXCEPT ![c] = @ + 1] /\ nextSequence[c] <= MaxSequence
      BY <1>6 DEF Begin
    <3>3. nextSequence[c] + 1 \in 1 .. MaxSequence + 1
      BY <1>d, <2>1, <3>2
    <3>4. lifecycle' \in [Transactions -> Lifecycles \cup {None}]
      BY <1>d, <2>2, <3>1
    <3>5. nextSequence' \in [1 .. MaxCoordinators -> 1 .. MaxSequence + 1]
      BY <1>d, <2>1, <3>2, <3>3
    <3>. QED  BY <3>4, <3>5
  <2>. QED  BY <1>6, <2>3 DEF TypeOK, Begin, logVars
<1>7. ASSUME NEW l \in Logs, NEW t \in (DOMAIN coordinators) \X (1 .. MaxSequence), Commit(t, l)
      PROVE  TypeOK'
  <2>1. t \in Transactions /\ Id(t) \in TransactionIds /\ CommitRecord(Id(t)) \in LogRecord
    BY IdType, CommitRecordTyped
  <2>2. CommitEffect(t, l)
    BY <1>7, <2>1, CommitHasEffect
  <2>3. RecordsTyped' /\ nextPosition' \in [Logs -> 1 .. MaxPosition + 1]
    BY <2>1, <2>2, <1>a, <1>f, AppendTyped DEF CommitEffect, RecordsTyped
  <2>4. durable' \in [Logs -> 0 .. MaxPosition]
    BY <2>2 DEF TypeOK, CommitEffect, Flushed
  <2>5. committed' \subseteq CommittedTransaction
    BY <2>2, <1>e, HandOutTyped DEF CommitEffect, Appended
  <2>6. lifecycle' \in [Transactions -> Lifecycles \cup {None}]
    BY <1>d, <2>1, <2>2 DEF CommitEffect
  <2>7. faults' \in 0 .. MaxFaults
    BY <1>7, <1>b DEF Commit, AppendReported, AppendFailed, Fault
  <2>. QED  BY <1>7, <2>3, <2>4, <2>5, <2>6, <2>7 DEF TypeOK, Commit, coordinatorVars, RecordsTyped
<1>8. ASSUME NEW l \in Logs, NEW t \in (DOMAIN coordinators) \X (1 .. MaxSequence), Resolve(t, l)
      PROVE  TypeOK'
  <2>1. t \in Transactions
    BY IdType
  <2>2. lifecycle' \in [Transactions -> Lifecycles \cup {None}]
    BY <1>8, <1>d, <2>1 DEF Resolve
  <2>3. committed' = committed \/ \E q \in Positions : HandOut(l, t, q)
    BY <1>8, <1>a DEF RecordsTyped, Resolve, LookupDurableCommit, CommitPositions
  <2>4. committed' \subseteq CommittedTransaction
    BY <2>3, <1>e, HandOutTyped
  <2>. QED  BY <1>8, <2>2, <2>4 DEF TypeOK, Resolve, logVars, coordinatorVars
<1>9. ASSUME NEW l \in Logs, NEW t \in (DOMAIN coordinators) \X (1 .. MaxSequence), NEW p \in Pages,
             StagePageWrite(t, l, p)
      PROVE  TypeOK'
  <2>. DEFINE r == [kind |-> "TransactionPageWrite", transaction |-> Id(t), page |-> p]
              d == [transaction |-> Id(t), log |-> l, page |-> p, position |-> nextPosition[l]]
  <2>1. t \in Transactions /\ Id(t) \in TransactionIds
    BY IdType
  <2>2. r \in LogRecord
    BY <2>1 DEF LogRecord
  <2>3. AppendRecord(l, r) => RecordsTyped' /\ nextPosition' \in [Logs -> 1 .. MaxPosition + 1]
    BY <2>2, AppendEffect, AppendTyped
  <2>4. RecordsTyped' /\ nextPosition' \in [Logs -> 1 .. MaxPosition + 1] /\ faults' \in 0 .. MaxFaults
    BY <1>9, <1>a, <1>b, <1>f, <2>3 DEF StagePageWrite, AppendReported, AppendFailed, Fault, RecordsTyped
  <2>5. dirty' = dirty \/ (dirty' = dirty \cup {d} /\ nextPosition[l] \in Positions)
    BY <1>9 DEF StagePageWrite, AppendReported, AppendRecord
  <2>9. l \in Logs /\ p \in Pages
    OBVIOUS
  <2>6. dirty' \subseteq DirtyPage
    BY <1>e, <2>1, <2>5, <2>9 DEF DirtyPage
  <2>7. /\ lifecycle' \in [Transactions -> Lifecycles \cup {None}]
        /\ staged' \subseteq Transactions \X Pages
    <3>1. /\ \/ lifecycle' = lifecycle
             \/ lifecycle' = [lifecycle EXCEPT ![t] = "PageAppendIndeterminate"]
          /\ staged' = staged \cup {<<t, p>>}
      BY <1>9 DEF StagePageWrite
    <3>2. staged' \subseteq Transactions \X Pages
      BY <1>e, <2>1, <2>9, <3>1
    <3>3. lifecycle' \in [Transactions -> Lifecycles \cup {None}]
      BY <1>d, <2>1, <3>1
    <3>. QED  BY <3>2, <3>3
  <2>. QED  BY <1>9, <2>4, <2>6, <2>7 DEF TypeOK, StagePageWrite, coordinatorVars, RecordsTyped
<1>10. ASSUME NEW l \in Logs, BeginRecovery(l)
       PROVE  TypeOK'
  <2>1. Inventory(l) \in SUBSET Pages
    BY DEF Inventory
  <2>. QED  BY <1>10, <2>1 DEF TypeOK, BeginRecovery, logVars, coordinatorVars
<1>11. ASSUME NEW l \in Logs, RecoverPage(l)
       PROVE  TypeOK'
  <2>1. PageRecovered(l)
    BY <1>11, RecoverPageEffect
  <2>2. store' \in [Logs -> [Pages -> 0 .. MaxPosition]]
    <3>1. \/ store' = store
          \/ \E p \in Pages : store' = [store EXCEPT ![l][p] = LatestCommitted(l, p)]
      BY <2>1 DEF PageRecovered
    <3>2. \A p \in Pages : LatestCommitted(l, p) \in 0 .. MaxPosition
      BY LatestCommittedIsCommitted
    <3>. QED  BY <1>b, <3>1, <3>2
  <2>. QED  BY <2>1, <2>2 DEF TypeOK, PageRecovered, logVars, coordinatorVars
<1>12. ASSUME NEW l \in Logs, FinishRecovery(l)
       PROVE  TypeOK'
  BY <1>12 DEF TypeOK, FinishRecovery, logVars, coordinatorVars
<1>13. CASE UNCHANGED vars
  BY <1>13 DEF TypeOK, vars, logVars, coordinatorVars
<1>. QED  BY <1>1, <1>2, <1>3, <1>4, <1>5, <1>6, <1>7, <1>8, <1>9, <1>10, <1>11, <1>12, <1>13
          DEF Next, TransactionStep, StorageStep, FlushesPage

(* Initially everything has its type.                                       *)
LEMMA TypeInit == Init => TypeOK
BY BoundsAssumption DEF Init, TypeOK

(* Every value of the log, the store and the coordinators has its Rust type *)
(* in every reachable state: no position, epoch or sequence leaves its      *)
(* space when the allocators run out (TypeOK).                              *)
THEOREM TransactionTypeCorrect == Spec => []TypeOK
<1>1. Init => TypeOK
  BY TypeInit
<1>2. TypeOK /\ [Next]_vars => TypeOK'
  BY TypeStep
<1>. QED  BY <1>1, <1>2, PTL DEF Spec

HIDE DEF Lifecycles

----------------------------------------------------------------------------
(* Consequences of the invariant.                                           *)

(* Two transactions of one log have different identities.                   *)
LEMMA IdentitiesDistinct ==
    ASSUME TypeOK, CoordinatorsDistinct, NEW t \in Issued, NEW u \in Issued,
           LogOf(t) = LogOf(u), Id(t) = Id(u)
    PROVE  t = u
<1>1. t[1] \in DOMAIN coordinators /\ u[1] \in DOMAIN coordinators
  BY DEF CoordinatorsDistinct
<1>2. /\ coordinators[t[1]] \in [log : Logs, epoch : 1 .. MaxEpoch]
      /\ coordinators[u[1]] \in [log : Logs, epoch : 1 .. MaxEpoch]
  BY <1>1, CoordinatorType
<1>3. coordinators[t[1]].epoch = coordinators[u[1]].epoch /\ t[2] = u[2]
  BY DEF Id
<1>4. coordinators[t[1]] = coordinators[u[1]]
  BY <1>2, <1>3 DEF LogOf
<1>5. t[1] = u[1]
  BY <1>1, <1>4 DEF CoordinatorsDistinct
<1>6. t = <<t[1], t[2]>> /\ u = <<u[1], u[2]>>
  BY DEF Issued
<1>. QED  BY <1>3, <1>5, <1>6

(* An issued transaction has a log and an identity.                         *)
LEMMA IssuedType ==
    ASSUME TypeOK, CoordinatorsDistinct, NEW t \in Issued
    PROVE  Id(t) \in TransactionIds /\ LogOf(t) \in Logs
<1>1. t[1] \in DOMAIN coordinators /\ t[2] \in 1 .. MaxSequence
  BY DEF CoordinatorsDistinct, Issued
<1>2. coordinators[t[1]] \in [log : Logs, epoch : 1 .. MaxEpoch]
  BY <1>1, CoordinatorType
<1>. QED  BY <1>1, <1>2 DEF Id, LogOf

(* An append adds one record, above all others, and changes no other one.   *)
LEMMA AppendedOnly ==
    ASSUME TypeOK, LogsOrdered, NEW l \in Logs, NEW r, Appended(l, r)
    PROVE  /\ \A m \in Logs : DOMAIN records[m] \subseteq DOMAIN records'[m]
           /\ \A m \in Logs : \A q \in DOMAIN records[m] : records'[m][q] = records[m][q]
           /\ \A m \in Logs : \A q \in DOMAIN records'[m] :
                q \in DOMAIN records[m] \/ (m = l /\ q = nextPosition[l])
           /\ nextPosition[l] \in DOMAIN records'[l]
           /\ records'[l][nextPosition[l]] = r
           /\ \A m \in Logs : nextPosition[m] <= nextPosition'[m]
           /\ nextPosition[l] < nextPosition'[l]
           /\ \A m \in Logs : \A q \in DOMAIN records[m] : q \in Positions /\ q < nextPosition[m]
<1>1. \A m \in Logs : DOMAIN records[m] \subseteq Positions /\ nextPosition[m] \in 1 .. MaxPosition + 1
  BY DEF TypeOK
<1>2. \A m \in Logs : \A q \in DOMAIN records[m] : q < nextPosition[m]
  BY DEF LogsOrdered
<1>3. nextPosition[l] \notin DOMAIN records[l]
  BY <1>1, <1>2
<1>4. DOMAIN records'[l] = DOMAIN records[l] \cup {nextPosition[l]}
  BY DEF Appended
<1>5. \A q \in DOMAIN records[l] : records'[l][q] = records[l][q]
  BY <1>3 DEF Appended
<1>6. \A m \in Logs \ {l} : records'[m] = records[m] /\ nextPosition'[m] = nextPosition[m]
  BY DEF Appended
<1>7. nextPosition'[l] = nextPosition[l] + 1 /\ records'[l][nextPosition[l]] = r
  BY DEF Appended
<1>. QED  BY <1>1, <1>2, <1>4, <1>5, <1>6, <1>7

(* An append of another kind leaves the commit records.                     *)
LEMMA AppendedNoCommit ==
    ASSUME TypeOK, LogsOrdered, NEW l \in Logs, NEW r, Appended(l, r),
           r.kind # "TransactionCommit"
    PROVE  /\ \A m \in Logs : \A q \in DOMAIN records'[m] :
                records'[m][q].kind = "TransactionCommit" =>
                  q \in DOMAIN records[m] /\ records'[m][q] = records[m][q]
           /\ \A m \in Logs : \A x : CommitPositions(m, x)' = CommitPositions(m, x)
<1>1. \A m \in Logs : \A q \in DOMAIN records'[m] :
        records'[m][q].kind = "TransactionCommit" =>
          q \in DOMAIN records[m] /\ records'[m][q] = records[m][q]
  BY AppendedOnly
<1>2. \A x : CommitRecord(x).kind = "TransactionCommit"
  BY DEF CommitRecord
<1>3. \A m \in Logs : \A x : CommitPositions(m, x)' = CommitPositions(m, x)
  <2>1. \A m \in Logs : /\ DOMAIN records[m] \subseteq DOMAIN records'[m]
                        /\ \A q \in DOMAIN records[m] : records'[m][q] = records[m][q]
    BY AppendedOnly
  <2>. QED  BY <1>1, <1>2, <2>1 DEF CommitPositions, CommitRecord
<1>. QED  BY <1>1, <1>3

----------------------------------------------------------------------------
(* Durable records stay.                                                    *)

Kept ==
    \A l \in Logs : \A q \in Durable(l) : q \in Durable(l)' /\ records'[l][q] = records[l][q]

(* What is backed by durable records stays backed when they are kept.       *)
LEMMA KeptBacks ==
    ASSUME TypeOK, Kept, NEW l \in Logs, NEW p \in Pages
    PROVE  /\ CommittedPages(l, p) \subseteq CommittedPages(l, p)'
           /\ store'[l][p] = store[l][p] /\ RawBacked(l, p) => RawBacked(l, p)'
<1>1. \A q \in Durable(l) : q \in Durable(l)' /\ records'[l][q] = records[l][q]
  BY DEF Kept
<1>2. \A q \in Durable(l) : q \in DOMAIN records[l]
  BY DEF Durable
<1>3. \A q \in Durable(l)' : q \in DOMAIN records'[l]
  BY DEF Durable
<1>4. ASSUME NEW q \in CommittedPages(l, p) PROVE q \in CommittedPages(l, p)'
  <2>1. /\ q \in Durable(l)
        /\ records[l][q].kind = "TransactionPageWrite" /\ records[l][q].page = p
    BY <1>4 DEF CommittedPages, OwnedPages
  <2>2. PICK c \in Durable(l) : records[l][c] = CommitRecord(records[l][q].transaction)
    BY <1>4 DEF CommittedPages, DurableCommits, CommitPositions
  <2>3. q \in OwnedPages(l, p)'
    BY <1>1, <2>1 DEF OwnedPages
  <2>4. c \in Durable(l)' /\ records'[l][c] = CommitRecord(records'[l][q].transaction)
    BY <1>1, <2>1, <2>2
  <2>5. c \in DurableCommits(l, q)'
    BY <1>3, <2>4 DEF DurableCommits, CommitPositions, CommitRecord
  <2>. QED  BY <2>3, <2>5 DEF CommittedPages
<1>5. store'[l][p] = store[l][p] /\ RawBacked(l, p) => RawBacked(l, p)'
  BY <1>1 DEF RawBacked
<1>. QED  BY <1>4, <1>5

(* A store that does not change stays backed.                               *)
LEMMA StoreStaysBacked ==
    ASSUME TypeOK, StoreBacked, Kept, store' = store
    PROVE  StoreBacked'
BY KeptBacks DEF StoreBacked

----------------------------------------------------------------------------
(* The steps, by what they do to the log.                                   *)

(* Steps that write no record and decide no transaction: flushes, recovery. *)
QuietStep ==
    /\ UNCHANGED <<records, nextPosition, coordinators, nextEpoch, lifecycle, committed>>
    /\ dirty' \subseteq dirty
    /\ durable' = durable \/ \E l \in Logs : \E q \in DOMAIN records[l] : Flushed(l, q)

(* They keep the invariant of the log and every durable record.             *)
LEMMA QuietKeeps ==
    ASSUME TypeOK, LogInv, QuietStep
    PROVE  LogInv' /\ Kept
<1>1. /\ records' = records /\ nextPosition' = nextPosition /\ lifecycle' = lifecycle
      /\ coordinators' = coordinators /\ nextEpoch' = nextEpoch /\ committed' = committed
  BY DEF QuietStep
<1>2. \A l \in Logs : durable[l] \in Int /\ durable'[l] \in Int /\ durable[l] <= durable'[l]
  BY DEF QuietStep, Flushed, TypeOK
<1>3. /\ \A l \in Logs : DOMAIN records[l] \subseteq Positions
      /\ committed \subseteq CommittedTransaction
  BY DEF TypeOK
<1>4. \A l \in Logs : Durable(l) \subseteq Durable(l)'
  BY <1>1, <1>2, <1>3 DEF Durable
<1>5. Kept
  BY <1>1, <1>4 DEF Kept, Durable
<1>6. LogsOrdered'
  <2>1. \A l \in Logs : durable[l] < nextPosition[l] /\ \A q \in DOMAIN records[l] : q < nextPosition[l]
    BY DEF LogInv, LogsOrdered
  <2>2. \A l \in Logs : durable'[l] < nextPosition[l]
    BY <2>1 DEF QuietStep, Flushed
  <2>. QED  BY <1>1, <2>1, <2>2 DEF LogsOrdered
<1>7. CoordinatorsDistinct' /\ CommitsIssued' /\ CommitsUnique' /\ PagesBeforeCommits'
  <2>0. /\ Issued' = Issued /\ \A t : LogOf(t)' = LogOf(t) /\ Id(t)' = Id(t)
    BY <1>1 DEF Issued, LogOf, Id
  <2>1. CoordinatorsDistinct'
    BY <1>1, <2>0 DEF LogInv, CoordinatorsDistinct
  <2>2. CommitsIssued'
    BY <1>1, <2>0 DEF LogInv, CommitsIssued
  <2>3. CommitsUnique'
    BY <1>1 DEF LogInv, CommitsUnique, CommitRecord
  <2>4. PagesBeforeCommits'
    BY <1>1 DEF LogInv, PagesBeforeCommits, CommitRecord
  <2> QED
    BY <2>1, <2>2, <2>3, <2>4
<1>8. LifecycleAgrees'
  <2>1. \A t \in Issued : LogOf(t) \in Logs
    BY IssuedType DEF LogInv
  <2>2. /\ Issued' = Issued
        /\ \A t : LogOf(t)' = LogOf(t) /\ CommitsOf(t)' = CommitsOf(t)
    BY <1>1 DEF Issued, LogOf, CommitsOf, CommitPositions, CommitRecord, Id
  <2>3. ASSUME NEW t \in Issued
        PROVE  /\ lifecycle[t] = "Committed" =>
                    CommitsOf(t) # {} /\ CommitsOf(t) \subseteq Durable(LogOf(t))'
               /\ lifecycle[t] \notin {"Committed", "Indeterminate"} => CommitsOf(t) = {}
    <3>1. Durable(LogOf(t)) \subseteq Durable(LogOf(t))'
      BY <1>1, <1>4, <2>1, <2>2, <2>3
    <3>. QED  BY <2>3, <3>1 DEF LogInv, LifecycleAgrees
  <2>. QED  BY <1>1, <2>2, <2>3 DEF LifecycleAgrees
<1>9. CommittedTokensDurable'
  BY <1>1, <1>3, <1>4 DEF LogInv, CommittedTokensDurable, CommittedTransaction, CommitRecord
<1>10. DirtyTokensMatch'
  BY <1>1 DEF QuietStep, LogInv, DirtyTokensMatch
<1>. QED  BY <1>5, <1>6, <1>7, <1>8, <1>9, <1>10 DEF LogInv

(* restart keeps them: only records that no token and no lifecycle rely on  *)
(* are lost, and the allocators are not rewound.                            *)
LEMMA RestartKeeps ==
    ASSUME TypeOK, LogInv, NEW l \in Logs, Restart(l)
    PROVE  LogInv' /\ Kept
<1>1. /\ durable' = durable /\ nextPosition' = nextPosition /\ lifecycle' = lifecycle
      /\ coordinators' = coordinators /\ nextEpoch' = nextEpoch /\ committed' = committed
      /\ dirty' = dirty
  BY DEF Restart, coordinatorVars
<1>2. /\ \A m \in Logs : \A q \in DOMAIN records'[m] :
           q \in DOMAIN records[m] /\ records'[m][q] = records[m][q]
      /\ \A m \in Logs : \A q \in Durable(m) :
           q \in DOMAIN records'[m] /\ records'[m][q] = records[m][q]
  BY RestartEffect DEF Durable
<1>3. Kept
  BY <1>1, <1>2 DEF Kept, Durable
<1>4. LogsOrdered'
  BY <1>1, <1>2 DEF LogInv, LogsOrdered
<1>5. CoordinatorsDistinct' /\ CommitsIssued' /\ CommitsUnique' /\ PagesBeforeCommits'
  <2>1. CoordinatorsDistinct'
    BY <1>1 DEF LogInv, CoordinatorsDistinct, Issued
  <2>2. CommitsIssued'
    <3>1. Issued' = Issued /\ \A t : LogOf(t)' = LogOf(t) /\ Id(t)' = Id(t)
      BY <1>1 DEF Issued, LogOf, Id
    <3>. QED  BY <1>2, <3>1 DEF LogInv, CommitsIssued
  <2>3. CommitsUnique'
    BY <1>2 DEF LogInv, CommitsUnique
  <2>4. PagesBeforeCommits'
    BY <1>2 DEF LogInv, PagesBeforeCommits, CommitRecord
  <2>. QED  BY <2>1, <2>2, <2>3, <2>4
<1>6. LifecycleAgrees'
  <2>1. Issued' = Issued /\ \A t : LogOf(t)' = LogOf(t) /\ Id(t)' = Id(t)
    BY <1>1 DEF Issued, LogOf, Id
  <2>2. ASSUME NEW t \in Issued
        PROVE  /\ CommitsOf(t)' \subseteq CommitsOf(t)
               /\ CommitsOf(t) \subseteq Durable(LogOf(t)) =>
                    CommitsOf(t)' = CommitsOf(t) /\ CommitsOf(t) \subseteq Durable(LogOf(t))'
    <3>1. LogOf(t) \in Logs
      BY <2>2, IssuedType DEF LogInv
    <3>2. CommitsOf(t)' \subseteq CommitsOf(t)
      BY <1>2, <2>1, <3>1 DEF CommitsOf, CommitPositions, CommitRecord
    <3>3. ASSUME CommitsOf(t) \subseteq Durable(LogOf(t))
          PROVE  CommitsOf(t) \subseteq CommitsOf(t)' /\ CommitsOf(t) \subseteq Durable(LogOf(t))'
      BY <1>1, <1>2, <2>1, <3>1, <3>3 DEF CommitsOf, CommitPositions, CommitRecord, Durable
    <3>. QED  BY <3>2, <3>3
  <2>. QED  BY <1>1, <2>1, <2>2 DEF LogInv, LifecycleAgrees
<1>7. CommittedTokensDurable'
  BY <1>1, <1>3 DEF LogInv, CommittedTokensDurable, Kept, TypeOK, CommittedTransaction, CommitRecord
<1>8. DirtyTokensMatch'
  <2>1. \A d \in dirty : d.log \in Logs
    BY DEF TypeOK, DirtyPage
  <2>. QED  BY <1>1, <1>2, <2>1 DEF LogInv, DirtyTokensMatch
<1>. QED  BY <1>3, <1>4, <1>5, <1>6, <1>7, <1>8 DEF LogInv

(* open keeps them: the epoch it takes is new in its log.                   *)
LEMMA OpenKeeps ==
    ASSUME TypeOK, LogInv, NEW l \in Logs, OpenCoordinator(l)
    PROVE  LogInv' /\ Kept
<1>. DEFINE c == [log |-> l, epoch |-> nextEpoch[l]]
            n == Len(coordinators) + 1
<1>1. /\ records' = records /\ durable' = durable /\ nextPosition' = nextPosition
      /\ lifecycle' = lifecycle /\ committed' = committed /\ dirty' = dirty
  BY DEF OpenCoordinator, logVars
<1>2. /\ DOMAIN coordinators' = DOMAIN coordinators \cup {n}
      /\ n \notin DOMAIN coordinators
      /\ coordinators'[n] = c
      /\ \A d \in DOMAIN coordinators : coordinators'[d] = coordinators[d]
  <2>1. coordinators \in Seq([log : Logs, epoch : 1 .. MaxEpoch])
    BY DEF TypeOK
  <2>2. coordinators' = Append(coordinators, c)
    BY DEF OpenCoordinator
  <2>. QED  BY <2>1, <2>2
<1>3. /\ nextEpoch \in [Logs -> 1 .. MaxEpoch + 1]
      /\ nextEpoch' = [nextEpoch EXCEPT ![l] = @ + 1]
  BY DEF OpenCoordinator, TypeOK
<1>4. \A d \in DOMAIN coordinators :
        /\ coordinators[d].log \in Logs /\ coordinators[d].epoch \in Int
        /\ coordinators[d].epoch < nextEpoch[coordinators[d].log]
  BY CoordinatorType DEF LogInv, CoordinatorsDistinct
<1>5. Kept
  BY <1>1 DEF Kept, Durable
<1>6. Issued' = Issued
  BY <1>1 DEF Issued
<1>7. CoordinatorsDistinct'
  <2>1. \A d \in DOMAIN coordinators' : coordinators'[d].epoch < nextEpoch'[coordinators'[d].log]
    BY <1>2, <1>3, <1>4
  <2>2. \A d \in DOMAIN coordinators : coordinators[d] # c
    BY <1>3, <1>4
  <2>3. \A b, d \in DOMAIN coordinators' : coordinators'[b] = coordinators'[d] => b = d
    BY <1>2, <2>2 DEF LogInv, CoordinatorsDistinct
  <2>4. \A t \in Issued : t[1] \in DOMAIN coordinators'
    BY <1>2 DEF LogInv, CoordinatorsDistinct
  <2>. QED  BY <1>6, <2>1, <2>3, <2>4 DEF CoordinatorsDistinct
<1>8. \A t \in Issued : LogOf(t)' = LogOf(t) /\ Id(t)' = Id(t) /\ CommitsOf(t)' = CommitsOf(t)
  <2>1. \A t \in Issued : coordinators'[t[1]] = coordinators[t[1]]
    BY <1>2 DEF LogInv, CoordinatorsDistinct
  <2>. QED  BY <1>1, <2>1 DEF LogOf, Id, CommitsOf, CommitPositions, CommitRecord
<1>9. LogsOrdered' /\ CommitsUnique' /\ PagesBeforeCommits'
  BY <1>1 DEF LogInv, LogsOrdered, CommitsUnique, PagesBeforeCommits, CommitRecord
<1>10. CommitsIssued'
  BY <1>1, <1>6, <1>8 DEF LogInv, CommitsIssued
<1>11. LifecycleAgrees'
  BY <1>1, <1>6, <1>8 DEF LogInv, LifecycleAgrees, Durable
<1>12. CommittedTokensDurable' /\ DirtyTokensMatch'
  BY <1>1 DEF LogInv, CommittedTokensDurable, DirtyTokensMatch, Durable, CommitRecord
<1>. QED  BY <1>5, <1>7, <1>9, <1>10, <1>11, <1>12 DEF LogInv

(* begin keeps them: no record names an identity before it is issued.       *)
LEMMA BeginKeeps ==
    ASSUME TypeOK, LogInv, NEW c \in DOMAIN coordinators, Begin(c)
    PROVE  LogInv' /\ Kept
<1>. DEFINE b == <<c, nextSequence[c]>>
<1>1. /\ records' = records /\ durable' = durable /\ nextPosition' = nextPosition
      /\ committed' = committed /\ dirty' = dirty
      /\ coordinators' = coordinators /\ nextEpoch' = nextEpoch
  BY DEF Begin, logVars
<1>2. /\ b \in Transactions /\ b[1] = c /\ lifecycle[b] = None
      /\ lifecycle \in [Transactions -> Lifecycles \cup {None}]
      /\ lifecycle' = [lifecycle EXCEPT ![b] = "Active"]
      /\ "Active" # None
  <2>1. c \in 1 .. MaxCoordinators
    BY CoordinatorType
  <2>2. nextSequence[c] \in 1 .. MaxSequence
    BY <2>1 DEF Begin, TypeOK
  <2>. QED  BY <2>1, <2>2, NoneAssumption DEF Begin, TypeOK, Lifecycles
<1>3. Issued' = Issued \cup {b} /\ b \notin Issued
  BY <1>2 DEF Issued
<1>4. \A t : LogOf(t)' = LogOf(t) /\ Id(t)' = Id(t) /\ CommitsOf(t)' = CommitsOf(t)
  BY <1>1 DEF LogOf, Id, CommitsOf, CommitPositions, CommitRecord
<1>5. CoordinatorsDistinct'
  BY <1>1, <1>2, <1>3 DEF LogInv, CoordinatorsDistinct
<1>6. CommitsOf(b) = {}
  <2>1. SUFFICES ASSUME NEW q \in CommitsOf(b) PROVE FALSE
    OBVIOUS
  <2>2. /\ LogOf(b) \in Logs /\ Id(b) \in TransactionIds
        /\ q \in DOMAIN records[LogOf(b)]
        /\ records[LogOf(b)][q] = CommitRecord(Id(b))
    BY <1>2, CoordinatorType DEF CommitsOf, CommitPositions, LogOf, Id
  <2>3. PICK t \in Issued : LogOf(t) = LogOf(b) /\ Id(t) = Id(b)
    BY <2>2 DEF LogInv, CommitsIssued, CommitRecord
  <2>5. t[1] \in DOMAIN coordinators /\ coordinators[t[1]] = coordinators[c]
    <3>1. t[1] \in DOMAIN coordinators
      BY <2>3 DEF LogInv, CoordinatorsDistinct
    <3>2. /\ coordinators[t[1]] \in [log : Logs, epoch : 1 .. MaxEpoch]
          /\ coordinators[c] \in [log : Logs, epoch : 1 .. MaxEpoch]
      BY <3>1, CoordinatorType
    <3>3. coordinators[t[1]].log = coordinators[c].log /\ coordinators[t[1]].epoch = coordinators[c].epoch
      BY <1>2, <2>3 DEF LogOf, Id
    <3>. QED  BY <3>1, <3>2, <3>3
  <2>6. t[1] = c /\ t[2] = b[2] /\ t = <<t[1], t[2]>>
    BY <2>3, <2>5 DEF LogInv, CoordinatorsDistinct, Id, Issued
  <2>. QED  BY <1>3, <2>3, <2>6
<1>7. Kept
  BY <1>1 DEF Kept, Durable
<1>8. LogsOrdered' /\ CommitsUnique' /\ PagesBeforeCommits'
  BY <1>1 DEF LogInv, LogsOrdered, CommitsUnique, PagesBeforeCommits, CommitRecord
<1>9. CommitsIssued'
  BY <1>1, <1>3, <1>4 DEF LogInv, CommitsIssued
<1>10. LifecycleAgrees'
  <2>1. \A t \in Issued : lifecycle'[t] = lifecycle[t]
    BY <1>2, <1>3 DEF Issued
  <2>2. lifecycle'[b] = "Active"
    BY <1>2
  <2>3. \A t : Durable(LogOf(t))' = Durable(LogOf(t))
    BY <1>1, <1>4 DEF Durable
  <2>. QED  BY <1>3, <1>4, <1>6, <2>1, <2>2, <2>3 DEF LogInv, LifecycleAgrees
<1>11. CommittedTokensDurable' /\ DirtyTokensMatch'
  BY <1>1 DEF LogInv, CommittedTokensDurable, DirtyTokensMatch, Durable, CommitRecord
<1>. QED  BY <1>5, <1>7, <1>8, <1>9, <1>10, <1>11 DEF LogInv

(* resolve keeps them: its verdict is what the durable log says.            *)
LEMMA ResolveKeeps ==
    ASSUME TypeOK, LogInv, NEW l \in Logs, NEW t \in (DOMAIN coordinators) \X (1 .. MaxSequence),
           Resolve(t, l)
    PROVE  LogInv' /\ Kept
<1>1. /\ records' = records /\ durable' = durable /\ nextPosition' = nextPosition
      /\ dirty' = dirty /\ coordinators' = coordinators /\ nextEpoch' = nextEpoch
  BY DEF Resolve, logVars, coordinatorVars
<1>2. /\ t \in Transactions /\ LogOf(t) = l /\ Id(t) \in TransactionIds
      /\ lifecycle \in [Transactions -> Lifecycles \cup {None}]
      /\ lifecycle[t] = "Indeterminate" /\ "Indeterminate" # None
      /\ "Committed" # None /\ "NoDurableCommitRecord" # None
  BY IdType, NoneAssumption DEF Resolve, Serves, TypeOK, LogOf, Lifecycles
<1>3. \/ /\ CommitsOf(t) = {}
         /\ lifecycle' = [lifecycle EXCEPT ![t] = "NoDurableCommitRecord"]
         /\ committed' = committed
      \/ \E q \in CommitsOf(t) :
           /\ CommitsOf(t) \subseteq Durable(l)
           /\ lifecycle' = [lifecycle EXCEPT ![t] = "Committed"]
           /\ HandOut(l, t, q)
  BY <1>2 DEF Resolve, LookupDurableCommit, CommitsOf
<1>4. Issued' = Issued /\ t \in Issued
  BY <1>2, <1>3 DEF Issued
<1>5. \A u : LogOf(u)' = LogOf(u) /\ Id(u)' = Id(u) /\ CommitsOf(u)' = CommitsOf(u)
  BY <1>1 DEF LogOf, Id, CommitsOf, CommitPositions, CommitRecord
<1>6. \A m : Durable(m)' = Durable(m)
  BY <1>1 DEF Durable
<1>7. Kept
  BY <1>1 DEF Kept, Durable
<1>8. LogsOrdered' /\ CommitsUnique' /\ PagesBeforeCommits'
  BY <1>1 DEF LogInv, LogsOrdered, CommitsUnique, PagesBeforeCommits, CommitRecord
<1>9. CoordinatorsDistinct'
  BY <1>1, <1>4 DEF LogInv, CoordinatorsDistinct
<1>10. CommitsIssued'
  BY <1>1, <1>4, <1>5 DEF LogInv, CommitsIssued
<1>11. LifecycleAgrees'
  <2>1. \A u \in Issued \ {t} : lifecycle'[u] = lifecycle[u]
    BY <1>2, <1>3 DEF Issued
  <2>2. /\ lifecycle'[t] = "Committed" => CommitsOf(t) # {} /\ CommitsOf(t) \subseteq Durable(l)
        /\ lifecycle'[t] \notin {"Committed", "Indeterminate"} => CommitsOf(t) = {}
    BY <1>2, <1>3
  <2>. QED  BY <1>2, <1>4, <1>5, <1>6, <2>1, <2>2 DEF LogInv, LifecycleAgrees
<1>12. CommittedTokensDurable'
  <2>1. ASSUME NEW k \in committed'
        PROVE  k.position \in Durable(k.log) /\ records[k.log][k.position] = CommitRecord(k.transaction)
    <3>1. CASE k \in committed
      BY <3>1 DEF LogInv, CommittedTokensDurable
    <3>2. CASE k \notin committed
      <4>1. PICK q \in CommitsOf(t) :
              /\ CommitsOf(t) \subseteq Durable(l)
              /\ k = [transaction |-> Id(t), log |-> l, position |-> q]
        BY <1>3, <2>1, <3>2 DEF HandOut
      <4>. QED  BY <1>2, <4>1 DEF CommitsOf, CommitPositions
    <3>. QED  BY <3>1, <3>2
  <2>. QED  BY <1>1, <1>6, <2>1 DEF CommittedTokensDurable, CommitRecord
<1>13. DirtyTokensMatch'
  BY <1>1 DEF LogInv, DirtyTokensMatch
<1>. QED  BY <1>7, <1>8, <1>9, <1>10, <1>11, <1>12, <1>13 DEF LogInv

(* An append keeps every record, and the order of positions.                *)
LEMMA AppendOrders ==
    ASSUME TypeOK, LogInv, NEW l \in Logs, NEW r, Appended(l, r),
           durable' = durable \/ Flushed(l, nextPosition[l])
    PROVE  LogsOrdered' /\ Kept
<1>1. \A m \in Logs : durable[m] \in Int /\ durable'[m] \in Int /\ durable[m] <= durable'[m]
  BY DEF Flushed, TypeOK
<1>2. \A m \in Logs : nextPosition[m] \in Int /\ nextPosition'[m] \in Int
  BY DEF TypeOK, Appended
<1>3. LogsOrdered
  BY DEF LogInv
<1>4. /\ \A m \in Logs : \A q \in DOMAIN records[m] :
           q \in DOMAIN records'[m] /\ records'[m][q] = records[m][q] /\ q \in Int
      /\ \A m \in Logs : \A q \in DOMAIN records'[m] :
           q \in DOMAIN records[m] \/ (m = l /\ q = nextPosition[l])
      /\ \A m \in Logs : nextPosition[m] <= nextPosition'[m]
      /\ nextPosition[l] < nextPosition'[l]
  BY <1>3, AppendedOnly
<1>5. Kept
  BY <1>1, <1>4 DEF Kept, Durable
<1>6. \A m \in Logs : durable'[m] < nextPosition'[m]
  <2>1. \A m \in Logs : durable[m] < nextPosition[m]
    BY <1>3 DEF LogsOrdered
  <2>2. \A m \in Logs : durable'[m] = durable[m] \/ (m = l /\ durable'[m] = nextPosition[l])
    BY DEF Flushed
  <2>. QED  BY <1>1, <1>2, <1>4, <2>1, <2>2
<1>7. \A m \in Logs : \A q \in DOMAIN records'[m] : q < nextPosition'[m]
  BY <1>2, <1>3, <1>4 DEF LogsOrdered
<1>. QED  BY <1>5, <1>6, <1>7 DEF LogsOrdered

(* The record of a dirty page.                                              *)
PageRecord(d) ==
    [kind |-> IF d.transaction = None THEN "PageWrite" ELSE "TransactionPageWrite",
     transaction |-> d.transaction, page |-> d.page]

(* stage_page_write, of an active transaction t or without one.             *)
PageAppend(l, t, d) ==
    /\ d.log = l /\ d.position = nextPosition[l]
    /\ d.transaction # None =>
         t \in Issued /\ lifecycle[t] = "Active" /\ LogOf(t) = l /\ d.transaction = Id(t)
    /\ \/ /\ Appended(l, PageRecord(d))
          /\ dirty' = dirty \cup {d} \/ dirty' = dirty
       \/ UNCHANGED <<records, nextPosition, dirty>>
    /\ \/ lifecycle' = lifecycle
       \/ d.transaction # None /\ lifecycle' = [lifecycle EXCEPT ![t] = "PageAppendIndeterminate"]
    /\ UNCHANGED <<durable, coordinators, nextEpoch, committed, store>>

(* Staging a page keeps the invariant: its transaction has no commit        *)
(* record, and the record takes a position nobody had.                      *)
LEMMA PageAppendKeeps ==
    ASSUME TypeOK, LogInv, NEW l \in Logs, NEW t, NEW d, PageAppend(l, t, d)
    PROVE  LogInv' /\ Kept
<1>. DEFINE r == PageRecord(d)
            n == nextPosition[l]
<1>1. /\ durable' = durable /\ coordinators' = coordinators /\ nextEpoch' = nextEpoch
      /\ committed' = committed
  BY DEF PageAppend
<1>2. /\ lifecycle \in [Transactions -> Lifecycles \cup {None}]
      /\ "Active" # None /\ "PageAppendIndeterminate" # None
  BY NoneAssumption DEF TypeOK, Lifecycles
<1>3. Issued' = Issued
  BY <1>2 DEF PageAppend, Issued
<1>4. \A u : LogOf(u)' = LogOf(u) /\ Id(u)' = Id(u)
  BY <1>1 DEF LogOf, Id
<1>5. CoordinatorsDistinct'
  BY <1>1, <1>3 DEF LogInv, CoordinatorsDistinct
<1>6. LogsOrdered
  BY DEF LogInv
<1>7. r.kind # "TransactionCommit"
  BY DEF PageRecord
<1>8. Appended(l, r) \/ (records' = records /\ nextPosition' = nextPosition)
  BY DEF PageAppend
<1>9. LogsOrdered' /\ Kept
  <2>1. CASE Appended(l, r)
    BY <1>1, <2>1, AppendOrders
  <2>2. CASE records' = records /\ nextPosition' = nextPosition
    BY <1>1, <1>6, <2>2 DEF LogsOrdered, Kept, Durable
  <2>. QED  BY <1>8, <2>1, <2>2
<1>10. /\ \A m \in Logs : \A q \in DOMAIN records[m] :
            q \in DOMAIN records'[m] /\ records'[m][q] = records[m][q] /\ q < nextPosition[m]
       /\ \A m \in Logs : \A q \in DOMAIN records'[m] :
            q \in DOMAIN records[m] \/ (m = l /\ q = n /\ records'[m][q] = r)
       /\ \A m \in Logs : nextPosition[m] <= nextPosition'[m]
  <2>1. CASE Appended(l, r)
    BY <1>6, <2>1, AppendedOnly
  <2>2. CASE records' = records /\ nextPosition' = nextPosition
    BY <1>6, <2>2 DEF LogsOrdered, TypeOK
  <2>. QED  BY <1>8, <2>1, <2>2
<1>11. /\ \A m \in Logs : \A q \in DOMAIN records'[m] :
            records'[m][q].kind = "TransactionCommit" =>
              q \in DOMAIN records[m] /\ records'[m][q] = records[m][q]
       /\ \A m \in Logs : \A x : CommitPositions(m, x)' = CommitPositions(m, x)
  <2>1. CASE Appended(l, r)
    BY <1>6, <1>7, <2>1, AppendedNoCommit
  <2>2. CASE records' = records /\ nextPosition' = nextPosition
    BY <2>2 DEF CommitPositions, CommitRecord
  <2>. QED  BY <1>8, <2>1, <2>2
<1>12. CommitsIssued'
  BY <1>3, <1>4, <1>11 DEF LogInv, CommitsIssued
<1>13. CommitsUnique'
  BY <1>11 DEF LogInv, CommitsUnique
<1>14. PagesBeforeCommits'
  <2>1. SUFFICES ASSUME NEW m \in Logs, NEW q \in DOMAIN records'[m], NEW c \in DOMAIN records'[m],
                        records'[m][q].kind = "TransactionPageWrite",
                        records'[m][c] = CommitRecord(records'[m][q].transaction)
                 PROVE  q < c
    BY DEF PagesBeforeCommits, CommitRecord
  <2>2. c \in DOMAIN records[m] /\ records'[m][c] = records[m][c]
    BY <1>11, <2>1 DEF CommitRecord
  <2>3. CASE q \in DOMAIN records[m]
    <3>1. records'[m][q] = records[m][q]
      BY <1>10, <2>3
    <3>2. /\ records[m][q].kind = "TransactionPageWrite"
          /\ records[m][c] = CommitRecord(records[m][q].transaction)
      BY <2>1, <2>2, <3>1
    <3>. QED  BY <2>2, <2>3, <3>2 DEF LogInv, PagesBeforeCommits
  <2>4. CASE m = l /\ q = n /\ records'[m][q] = r
    <3>1. d.transaction # None /\ r.transaction = d.transaction
      BY <2>1, <2>4 DEF PageRecord
    <3>2. r.transaction = Id(t) /\ t \in Issued /\ lifecycle[t] = "Active" /\ LogOf(t) = l
      BY <3>1 DEF PageAppend
    <3>3. c \in CommitsOf(t)
      BY <2>1, <2>2, <2>4, <3>1, <3>2 DEF CommitsOf, CommitPositions
    <3>. QED  BY <3>2, <3>3 DEF LogInv, LifecycleAgrees
  <2>. QED  BY <1>10, <2>1, <2>3, <2>4
<1>15. LifecycleAgrees'
  <2>1. \A u \in Issued : CommitsOf(u)' = CommitsOf(u)
    BY <1>4, <1>11, IssuedType DEF LogInv, CommitsOf
  <2>2. \A u \in Issued : lifecycle'[u] = "Committed" => lifecycle[u] = "Committed"
    BY <1>2 DEF PageAppend, Issued
  <2>3. \A u \in Issued : lifecycle'[u] \notin {"Committed", "Indeterminate"} =>
          lifecycle[u] \notin {"Committed", "Indeterminate"}
    BY <1>2 DEF PageAppend, Issued
  <2>4. \A u \in Issued : Durable(LogOf(u)) \subseteq Durable(LogOf(u))'
    BY <1>4, <1>9, IssuedType DEF LogInv, Kept
  <2>. QED  BY <1>3, <1>4, <2>1, <2>2, <2>3, <2>4 DEF LogInv, LifecycleAgrees
<1>16. CommittedTokensDurable'
  BY <1>1, <1>9 DEF LogInv, CommittedTokensDurable, Kept, TypeOK, CommittedTransaction, CommitRecord
<1>17. DirtyTokensMatch'
  <2>1. ASSUME NEW e \in dirty' PROVE e.position < nextPosition'[e.log]
    <3>1. CASE e \in dirty
      <4>1. e.log \in Logs /\ e.position \in Positions
        BY <3>1 DEF TypeOK, DirtyPage
      <4>2. e.position < nextPosition[e.log]
        BY <3>1 DEF LogInv, DirtyTokensMatch
      <4>3. nextPosition[e.log] \in Int /\ nextPosition'[e.log] \in Int
        BY <1>8, <4>1 DEF TypeOK, Appended
      <4>. QED  BY <1>10, <4>1, <4>2, <4>3
    <3>2. CASE e \notin dirty
      <4>1. e = d /\ Appended(l, r) /\ d.log = l /\ d.position = n
        BY <2>1, <3>2 DEF PageAppend
      <4>. QED  BY <1>6, <4>1, AppendedOnly
    <3>. QED  BY <3>1, <3>2
  <2>2. ASSUME NEW e \in dirty', e.position \in DOMAIN records'[e.log]
        PROVE  records'[e.log][e.position] = PageRecord(e)
    <3>1. CASE e \in dirty
      <4>1. e.log \in Logs /\ e.position \in Positions /\ e.position < nextPosition[e.log]
        BY <3>1 DEF TypeOK, DirtyPage, LogInv, DirtyTokensMatch
      <4>2. e.position \in DOMAIN records[e.log]
        BY <1>10, <2>2, <4>1
      <4>3. records[e.log][e.position] = PageRecord(e)
        BY <3>1, <4>2 DEF LogInv, DirtyTokensMatch, PageRecord
      <4>. QED  BY <1>10, <4>1, <4>2, <4>3
    <3>2. CASE e \notin dirty
      <4>1. e = d /\ Appended(l, r) /\ d.log = l /\ d.position = n
        BY <2>2, <3>2 DEF PageAppend
      <4>. QED  BY <1>6, <4>1, AppendedOnly
    <3>. QED  BY <3>1, <3>2
  <2>. QED  BY <2>1, <2>2 DEF DirtyTokensMatch, PageRecord
<1>. QED  BY <1>5, <1>9, <1>12, <1>13, <1>14, <1>15, <1>16, <1>17 DEF LogInv

(* commit keeps the invariant: the record it appends is the transaction's   *)
(* first, comes after all its pages, and is durable when success is         *)
(* reported.                                                                *)
LEMMA CommitKeeps ==
    ASSUME TypeOK, LogInv, NEW l \in Logs, NEW t \in (DOMAIN coordinators) \X (1 .. MaxSequence),
           Commit(t, l)
    PROVE  LogInv' /\ Kept
<1>. DEFINE r == CommitRecord(Id(t))
            n == nextPosition[l]
<1>1. /\ coordinators' = coordinators /\ nextEpoch' = nextEpoch /\ dirty' = dirty
      /\ lifecycle[t] = "Active" /\ coordinators[t[1]].log = l
  BY DEF Commit, Serves, coordinatorVars
<1>2. /\ lifecycle \in [Transactions -> Lifecycles \cup {None}]
      /\ "Active" # None /\ "Committed" # None /\ "Indeterminate" # None
      /\ t \in Transactions /\ LogOf(t) = l /\ Id(t) \in TransactionIds
  BY <1>1, IdType, NoneAssumption DEF TypeOK, Lifecycles, LogOf
<1>3. CommitEffect(t, l)
  BY <1>2, CommitHasEffect
<1>4. Issued' = Issued /\ t \in Issued
  BY <1>1, <1>2, <1>3 DEF CommitEffect, Issued
<1>5. \A u : LogOf(u)' = LogOf(u) /\ Id(u)' = Id(u)
  BY <1>1 DEF LogOf, Id
<1>6. CoordinatorsDistinct'
  BY <1>1, <1>4 DEF LogInv, CoordinatorsDistinct
<1>7. LogsOrdered
  BY DEF LogInv
<1>8. \/ Appended(l, r) /\ (durable' = durable \/ Flushed(l, n))
      \/ records' = records /\ nextPosition' = nextPosition /\ durable' = durable
  BY <1>3 DEF CommitEffect
<1>9. LogsOrdered' /\ Kept
  <2>1. CASE Appended(l, r) /\ (durable' = durable \/ Flushed(l, n))
    BY <2>1, AppendOrders
  <2>2. CASE records' = records /\ nextPosition' = nextPosition /\ durable' = durable
    BY <1>7, <2>2 DEF LogsOrdered, Kept, Durable
  <2>. QED  BY <1>8, <2>1, <2>2
<1>10. /\ \A m \in Logs : \A q \in DOMAIN records[m] :
            q \in DOMAIN records'[m] /\ records'[m][q] = records[m][q] /\ q < nextPosition[m]
       /\ \A m \in Logs : \A q \in DOMAIN records'[m] :
            q \in DOMAIN records[m] \/ (m = l /\ q = n /\ records'[m][q] = r)
       /\ \A m \in Logs : nextPosition[m] <= nextPosition'[m]
  <2>1. CASE Appended(l, r)
    BY <1>7, <2>1, AppendedOnly
  <2>2. CASE records' = records /\ nextPosition' = nextPosition
    <3>1. \A m \in Logs : nextPosition[m] \in Int
      BY DEF TypeOK
    <3>. QED  BY <1>7, <2>2, <3>1 DEF LogsOrdered
  <2>. QED  BY <1>8, <2>1, <2>2
<1>11. CommitsOf(t) = {}
  BY <1>1, <1>4 DEF LogInv, LifecycleAgrees
<1>12. \A q \in DOMAIN records[l] : records[l][q] # r
  BY <1>2, <1>11 DEF CommitsOf, CommitPositions
<1>13. CommitsIssued'
  <2>1. SUFFICES ASSUME NEW m \in Logs, NEW q \in DOMAIN records'[m],
                        records'[m][q].kind = "TransactionCommit"
                 PROVE  \E u \in Issued : LogOf(u) = m /\ Id(u) = records'[m][q].transaction
    BY <1>4, <1>5 DEF CommitsIssued
  <2>2. CASE q \in DOMAIN records[m]
    BY <1>10, <2>1, <2>2 DEF LogInv, CommitsIssued
  <2>3. CASE m = l /\ q = n /\ records'[m][q] = r
    BY <1>2, <1>4, <2>3 DEF CommitRecord
  <2>. QED  BY <1>10, <2>1, <2>2, <2>3
<1>14. CommitsUnique'
  <2>1. SUFFICES ASSUME NEW m \in Logs, NEW q \in DOMAIN records'[m], NEW c \in DOMAIN records'[m],
                        records'[m][q].kind = "TransactionCommit",
                        records'[m][q] = records'[m][c]
                 PROVE  q = c
    BY DEF CommitsUnique
  <2>2. CASE q \in DOMAIN records[m] /\ c \in DOMAIN records[m]
    BY <1>10, <2>1, <2>2 DEF LogInv, CommitsUnique
  <2>3. CASE q \notin DOMAIN records[m] \/ c \notin DOMAIN records[m]
    BY <1>10, <1>12, <2>1, <2>3
  <2>. QED  BY <2>2, <2>3
<1>15. PagesBeforeCommits'
  <2>1. SUFFICES ASSUME NEW m \in Logs, NEW q \in DOMAIN records'[m], NEW c \in DOMAIN records'[m],
                        records'[m][q].kind = "TransactionPageWrite",
                        records'[m][c] = CommitRecord(records'[m][q].transaction)
                 PROVE  q < c
    BY DEF PagesBeforeCommits, CommitRecord
  <2>2. q \in DOMAIN records[m] /\ records'[m][q] = records[m][q] /\ q < nextPosition[m]
    BY <1>10, <2>1 DEF CommitRecord
  <2>3. CASE c \in DOMAIN records[m]
    <3>1. records[m][c] = CommitRecord(records[m][q].transaction)
      BY <1>10, <2>1, <2>2, <2>3
    <3>. QED  BY <2>1, <2>2, <2>3, <3>1 DEF LogInv, PagesBeforeCommits
  <2>4. CASE m = l /\ c = n
    BY <2>2, <2>4
  <2>. QED  BY <1>10, <2>1, <2>3, <2>4
<1>16. LifecycleAgrees'
  <2>1. \A u \in Issued \ {t} : lifecycle'[u] = lifecycle[u]
    BY <1>2, <1>3 DEF CommitEffect, Issued
  <2>2. ASSUME NEW u \in Issued \ {t}
        PROVE  CommitsOf(u)' = CommitsOf(u)
    <3>1. LogOf(u) \in Logs /\ Id(u) \in TransactionIds
      BY IssuedType DEF LogInv
    <3>2. LogOf(u) # l \/ Id(u) # Id(t)
      BY <1>2, <1>4, <2>2, IdentitiesDistinct DEF LogInv
    <3>3. LogOf(u) # l \/ CommitRecord(Id(u)) # r
      BY <3>2 DEF CommitRecord
    <3>. QED  BY <1>5, <1>10, <3>1, <3>3 DEF CommitsOf, CommitPositions, CommitRecord
  <2>3. \A u \in Issued : Durable(LogOf(u)) \subseteq Durable(LogOf(u))'
    BY <1>5, <1>9, IssuedType DEF LogInv, Kept
  <2>4. /\ lifecycle'[t] = "Committed" =>
             CommitsOf(t)' # {} /\ CommitsOf(t)' \subseteq Durable(LogOf(t))'
        /\ lifecycle'[t] \in {"Committed", "Indeterminate"}
    <3>1. lifecycle'[t] \in {"Committed", "Indeterminate"}
      BY <1>2, <1>3 DEF CommitEffect
    <3>2. ASSUME lifecycle'[t] = "Committed"
          PROVE  CommitsOf(t)' # {} /\ CommitsOf(t)' \subseteq Durable(LogOf(t))'
      <4>1. Appended(l, r) /\ Flushed(l, n)
        BY <1>2, <1>3, <3>2 DEF CommitEffect
      <4>2. n \in DOMAIN records'[l] /\ records'[l][n] = r
        BY <1>7, <4>1, AppendedOnly
      <4>3. CommitsOf(t)' = {n}
        BY <1>2, <1>5, <1>10, <1>12, <4>2 DEF CommitsOf, CommitPositions, CommitRecord
      <4>4. n \in Durable(l)'
        BY <4>1, <4>2 DEF Durable, Flushed
      <4>. QED  BY <1>2, <1>5, <4>3, <4>4
    <3>. QED  BY <3>1, <3>2
  <2>5. ASSUME NEW u \in Issued \ {t}
        PROVE  /\ lifecycle'[u] = "Committed" =>
                    CommitsOf(u)' # {} /\ CommitsOf(u)' \subseteq Durable(LogOf(u))'
               /\ lifecycle'[u] \notin {"Committed", "Indeterminate"} => CommitsOf(u)' = {}
    BY <2>1, <2>2, <2>3, <2>5 DEF LogInv, LifecycleAgrees
  <2>. QED  BY <1>4, <2>4, <2>5 DEF LifecycleAgrees
<1>17. CommittedTokensDurable'
  <2>1. ASSUME NEW k \in committed'
        PROVE  k.position \in Durable(k.log)' /\ records'[k.log][k.position] = CommitRecord(k.transaction)
    <3>1. CASE k \in committed
      <4>1. k.log \in Logs
        BY <3>1 DEF TypeOK, CommittedTransaction
      <4>2. k.position \in Durable(k.log) /\ records[k.log][k.position] = CommitRecord(k.transaction)
        BY <3>1 DEF LogInv, CommittedTokensDurable
      <4>. QED  BY <1>9, <4>1, <4>2 DEF Kept
    <3>2. CASE k \notin committed
      <4>1. /\ Appended(l, r) /\ Flushed(l, n)
            /\ k = [transaction |-> Id(t), log |-> l, position |-> n]
        BY <1>3, <2>1, <3>2 DEF CommitEffect, HandOut
      <4>2. n \in DOMAIN records'[l] /\ records'[l][n] = r
        BY <1>7, <4>1, AppendedOnly
      <4>3. n \in Durable(l)'
        BY <4>1, <4>2 DEF Durable, Flushed
      <4>. QED  BY <4>1, <4>2, <4>3
    <3>. QED  BY <3>1, <3>2
  <2>. QED  BY <2>1 DEF CommittedTokensDurable, CommitRecord
<1>18. DirtyTokensMatch'
  <2>1. SUFFICES ASSUME NEW e \in dirty
                 PROVE  /\ e.position < nextPosition'[e.log]
                        /\ e.position \in DOMAIN records'[e.log] =>
                             records'[e.log][e.position] = PageRecord(e)
    BY <1>1 DEF DirtyTokensMatch, PageRecord
  <2>2. e.log \in Logs /\ e.position \in Positions /\ e.position < nextPosition[e.log]
    BY DEF TypeOK, DirtyPage, LogInv, DirtyTokensMatch
  <2>3. nextPosition[e.log] \in Int /\ nextPosition'[e.log] \in Int
    <3>1. \A m \in Logs : nextPosition[m] \in Int
      BY DEF TypeOK
    <3>2. Appended(l, r) => nextPosition' \in [Logs -> 1 .. MaxPosition + 1]
      BY DEF Appended
    <3>. QED  BY <1>8, <2>2, <3>1, <3>2
  <2>4. e.position < nextPosition'[e.log]
    BY <1>10, <2>2, <2>3
  <2>5. e.position \in DOMAIN records'[e.log] => records'[e.log][e.position] = PageRecord(e)
    BY <1>10, <2>2 DEF LogInv, DirtyTokensMatch, PageRecord
  <2>. QED  BY <2>4, <2>5
<1>. QED  BY <1>6, <1>9, <1>13, <1>14, <1>15, <1>16, <1>17, <1>18 DEF LogInv

----------------------------------------------------------------------------
(* The whole invariant.                                                     *)

(* What a flush may put in the store is backed once it is durable.          *)
LEMMA FlushedIsBacked ==
    ASSUME TypeOK, LogInv, Kept, NEW l \in Logs, NEW d \in dirty, PageFlushed(l, d),
           d.transaction = None \/ \E k \in committed : MayFlush(k, d),
           store'[l][d.page] = d.position
    PROVE  d.position \in CommittedPages(l, d.page)' \/ RawBacked(l, d.page)'
<1>1. /\ records' = records /\ d.log = l /\ d.position \in DOMAIN records[l]
      /\ d.position <= durable'[l]
  BY DEF PageFlushed, Flushed
<1>2. d.position \in Durable(l)'
  BY <1>1 DEF Durable
<1>3. records'[l][d.position] = PageRecord(d)
  BY <1>1 DEF LogInv, DirtyTokensMatch, PageRecord
<1>4. CASE d.transaction = None
  <2>1. records'[l][d.position].kind = "PageWrite"
    BY <1>3, <1>4 DEF PageRecord
  <2>. QED  BY <1>2, <2>1 DEF RawBacked
<1>5. CASE d.transaction # None
  <2>1. PICK k \in committed : MayFlush(k, d)
    BY <1>5
  <2>2. k.log = l /\ k.transaction = d.transaction
    BY <1>1, <2>1 DEF MayFlush
  <2>3. k.position \in Durable(l) /\ records[l][k.position] = CommitRecord(d.transaction)
    BY <2>2 DEF LogInv, CommittedTokensDurable
  <2>4. k.position \in Durable(l)' /\ records'[l][k.position] = CommitRecord(d.transaction)
    BY <2>3 DEF Kept
  <2>5. /\ records'[l][d.position].kind = "TransactionPageWrite"
        /\ records'[l][d.position].page = d.page
        /\ records'[l][d.position].transaction = d.transaction
    BY <1>3, <1>5 DEF PageRecord
  <2>6. k.position \in DOMAIN records'[l]
    BY <1>1, <2>3 DEF Durable
  <2>7. k.position \in DurableCommits(l, d.position)'
    BY <2>4, <2>5, <2>6 DEF DurableCommits, CommitPositions, CommitRecord
  <2>8. d.position \in OwnedPages(l, d.page)'
    BY <1>2, <2>5 DEF OwnedPages
  <2>. QED  BY <2>7, <2>8 DEF CommittedPages
<1>. QED  BY <1>4, <1>5

(* Every step keeps the invariant, and every durable record.                *)
LEMMA SafetyStep == IInv /\ [Next]_vars => IInv' /\ Kept
<1>. SUFFICES ASSUME TypeOK, LogInv, StoreBacked, [Next]_vars
              PROVE  LogInv' /\ StoreBacked' /\ Kept
  BY TypeStep DEF IInv
<1>1. ASSUME QuietStep, store' = store
      PROVE  LogInv' /\ StoreBacked' /\ Kept
  BY <1>1, QuietKeeps, StoreStaysBacked
<1>2. ASSUME NEW l \in Logs, NEW q \in DOMAIN records[l], FlushThrough(l, q)
      PROVE  LogInv' /\ StoreBacked' /\ Kept
  <2>1. q \in Positions
    BY DEF TypeOK
  <2>2. Flushed(l, q)
    BY <1>2, <2>1, FlushEffect DEF FlushThrough
  <2>3. QuietStep /\ store' = store
    BY <1>2, <2>2 DEF FlushThrough, QuietStep, coordinatorVars
  <2>. QED  BY <1>1, <2>3
<1>3. ASSUME NEW l \in Logs, NEW p \in RawPages, StageRawPageWrite(l, p)
      PROVE  LogInv' /\ StoreBacked' /\ Kept
  <2>. DEFINE d == [transaction |-> None, log |-> l, page |-> p, position |-> nextPosition[l]]
              r == [kind |-> "PageWrite", transaction |-> None, page |-> p]
  <2>1. PageRecord(d) = r
    BY DEF PageRecord
  <2>2. AppendRecord(l, r) => Appended(l, PageRecord(d))
    BY <2>1, AppendEffect
  <2>3. \/ Appended(l, PageRecord(d)) /\ (dirty' = dirty \cup {d} \/ dirty' = dirty)
        \/ UNCHANGED <<records, nextPosition, dirty>>
    BY <1>3, <2>2 DEF StageRawPageWrite, AppendReported, AppendFailed
  <2>4. UNCHANGED <<durable, coordinators, nextEpoch, committed, store, lifecycle>>
    BY <1>3 DEF StageRawPageWrite, coordinatorVars
  <2>5. PageAppend(l, None, d)
    BY <2>3, <2>4 DEF PageAppend
  <2>. QED  BY <2>4, <2>5, PageAppendKeeps, StoreStaysBacked
<1>4. ASSUME NEW l \in Logs, NEW t \in (DOMAIN coordinators) \X (1 .. MaxSequence), NEW p \in Pages,
             StagePageWrite(t, l, p)
      PROVE  LogInv' /\ StoreBacked' /\ Kept
  <2>. DEFINE d == [transaction |-> Id(t), log |-> l, page |-> p, position |-> nextPosition[l]]
              r == [kind |-> "TransactionPageWrite", transaction |-> Id(t), page |-> p]
  <2>1. /\ t \in Issued /\ lifecycle[t] = "Active" /\ LogOf(t) = l
        /\ Id(t) # None
    <3>1. t \in Transactions /\ Id(t) \in TransactionIds
      BY IdType
    <3>2. "Active" # None /\ Id(t) # None
      BY <3>1, NoneAssumption DEF Lifecycles
    <3>. QED  BY <1>4, <3>1, <3>2 DEF StagePageWrite, Serves, LogOf, Issued
  <2>2. PageRecord(d) = r
    BY <2>1 DEF PageRecord
  <2>3. AppendRecord(l, r) => Appended(l, PageRecord(d))
    BY <2>2, AppendEffect
  <2>4. \/ Appended(l, PageRecord(d)) /\ (dirty' = dirty \cup {d} \/ dirty' = dirty)
        \/ UNCHANGED <<records, nextPosition, dirty>>
    BY <1>4, <2>3 DEF StagePageWrite, AppendReported, AppendFailed
  <2>5. /\ UNCHANGED <<durable, coordinators, nextEpoch, committed, store>>
        /\ lifecycle' = lifecycle
             \/ lifecycle' = [lifecycle EXCEPT ![t] = "PageAppendIndeterminate"]
    BY <1>4 DEF StagePageWrite, coordinatorVars
  <2>6. PageAppend(l, t, d)
    BY <2>1, <2>4, <2>5 DEF PageAppend
  <2>. QED  BY <2>5, <2>6, PageAppendKeeps, StoreStaysBacked
<1>5. ASSUME NEW l \in Logs, NEW d \in dirty, FlushesPage(l, d)
      PROVE  LogInv' /\ StoreBacked' /\ Kept
  <2>1. /\ PageFlushed(l, d)
        /\ d.transaction = None \/ \E k \in committed : MayFlush(k, d)
    BY <1>5, FlushesPageEffect
  <2>2. QuietStep
    BY <2>1 DEF PageFlushed, QuietStep, coordinatorVars
  <2>3. LogInv' /\ Kept
    BY <2>2, QuietKeeps
  <2>4. CASE store' = store
    BY <2>3, <2>4, StoreStaysBacked
  <2>5. CASE store' = [store EXCEPT ![l][d.page] = d.position]
    <3>1. /\ store \in [Logs -> [Pages -> 0 .. MaxPosition]]
          /\ d.page \in Pages
      BY DEF TypeOK, DirtyPage
    <3>2. store'[l][d.page] = d.position
      BY <2>5, <3>1
    <3>3. d.position \in CommittedPages(l, d.page)' \/ RawBacked(l, d.page)'
      BY <2>1, <2>3, <3>2, FlushedIsBacked
    <3>4. ASSUME NEW m \in Logs, NEW p \in Pages, store'[m][p] # 0
          PROVE  store'[m][p] \in CommittedPages(m, p)' \/ RawBacked(m, p)'
      <4>1. CASE m = l /\ p = d.page
        BY <3>2, <3>3, <4>1
      <4>2. CASE ~(m = l /\ p = d.page)
        <5>1. store'[m][p] = store[m][p]
          BY <2>5, <3>1, <4>2
        <5>. QED  BY <2>3, <3>4, <5>1, KeptBacks DEF StoreBacked
      <4>. QED  BY <4>1, <4>2
    <3>. QED  BY <2>3, <3>4 DEF StoreBacked
  <2>. QED  BY <2>1, <2>4, <2>5 DEF PageFlushed
<1>6. ASSUME NEW l \in Logs, Restart(l)
      PROVE  LogInv' /\ StoreBacked' /\ Kept
  BY <1>6, RestartKeeps, StoreStaysBacked DEF Restart
<1>7. ASSUME NEW l \in Logs, OpenCoordinator(l)
      PROVE  LogInv' /\ StoreBacked' /\ Kept
  BY <1>7, OpenKeeps, StoreStaysBacked DEF OpenCoordinator
<1>8. ASSUME NEW c \in DOMAIN coordinators, Begin(c)
      PROVE  LogInv' /\ StoreBacked' /\ Kept
  BY <1>8, BeginKeeps, StoreStaysBacked DEF Begin
<1>9. ASSUME NEW l \in Logs, NEW t \in (DOMAIN coordinators) \X (1 .. MaxSequence), Commit(t, l)
      PROVE  LogInv' /\ StoreBacked' /\ Kept
  BY <1>9, CommitKeeps, StoreStaysBacked DEF Commit
<1>10. ASSUME NEW l \in Logs, NEW t \in (DOMAIN coordinators) \X (1 .. MaxSequence), Resolve(t, l)
       PROVE  LogInv' /\ StoreBacked' /\ Kept
  BY <1>10, ResolveKeeps, StoreStaysBacked DEF Resolve
<1>11. ASSUME NEW l \in Logs, RecoverPage(l)
       PROVE  LogInv' /\ StoreBacked' /\ Kept
  <2>1. PageRecovered(l)
    BY <1>11, RecoverPageEffect
  <2>2. QuietStep
    BY <2>1 DEF PageRecovered, QuietStep, logVars, coordinatorVars
  <2>3. LogInv' /\ Kept
    BY <2>2, QuietKeeps
  <2>4. CASE store' = store
    BY <2>3, <2>4, StoreStaysBacked
  <2>5. ASSUME NEW p \in Pages, store' = [store EXCEPT ![l][p] = LatestCommitted(l, p)]
        PROVE  StoreBacked'
    <3>1. store \in [Logs -> [Pages -> 0 .. MaxPosition]]
      BY DEF TypeOK
    <3>2. ASSUME NEW m \in Logs, NEW o \in Pages, store'[m][o] # 0
          PROVE  store'[m][o] \in CommittedPages(m, o)' \/ RawBacked(m, o)'
      <4>1. CASE m = l /\ o = p
        <5>1. store'[m][o] = LatestCommitted(l, p)
          BY <2>5, <3>1, <4>1
        <5>2. store'[m][o] \in CommittedPages(l, p)
          BY <3>2, <5>1, LatestCommittedIsCommitted
        <5>. QED  BY <2>3, <4>1, <5>2, KeptBacks
      <4>2. CASE ~(m = l /\ o = p)
        <5>1. store'[m][o] = store[m][o]
          BY <2>5, <3>1, <4>2
        <5>. QED  BY <2>3, <3>2, <5>1, KeptBacks DEF StoreBacked
      <4>. QED  BY <4>1, <4>2
    <3>. QED  BY <3>2 DEF StoreBacked
  <2>. QED  BY <2>1, <2>3, <2>4, <2>5 DEF PageRecovered
<1>12. ASSUME NEW l \in Logs, BeginRecovery(l) \/ FinishRecovery(l)
       PROVE  LogInv' /\ StoreBacked' /\ Kept
  <2>1. QuietStep /\ store' = store
    BY <1>12 DEF BeginRecovery, FinishRecovery, QuietStep, logVars, coordinatorVars
  <2>. QED  BY <1>1, <2>1
<1>13. CASE UNCHANGED vars
  <2>1. QuietStep /\ store' = store
    BY <1>13 DEF vars, QuietStep, logVars, coordinatorVars
  <2>. QED  BY <1>1, <2>1
<1>. QED  BY <1>2, <1>3, <1>4, <1>5, <1>6, <1>7, <1>8, <1>9, <1>10, <1>11, <1>12, <1>13
          DEF Next, TransactionStep, StorageStep, FlushesPage

(* A new system satisfies the invariant.                                    *)
LEMMA SafetyInit == Init => IInv
<1>. SUFFICES ASSUME Init PROVE IInv
  OBVIOUS
<1>1. TypeOK
  BY TypeInit
<1>2. \A l \in Logs : DOMAIN records[l] = {} /\ durable[l] = 0 /\ nextPosition[l] = 1
  BY DEF Init
<1>3. Issued = {} /\ coordinators = <<>> /\ committed = {} /\ dirty = {}
  BY DEF Init, Issued
<1>4. \A l \in Logs, p \in Pages : store[l][p] = 0
  BY DEF Init
<1>5. LogInv
  BY <1>2, <1>3 DEF LogInv, LogsOrdered, CoordinatorsDistinct, CommitsIssued, CommitsUnique,
                    PagesBeforeCommits, LifecycleAgrees, CommittedTokensDurable, DirtyTokensMatch
<1>6. StoreBacked
  BY <1>4 DEF StoreBacked
<1>. QED  BY <1>1, <1>5, <1>6 DEF IInv

(* A set whose members are all equal has at most one.                       *)
LEMMA AtMostOne ==
    ASSUME NEW S, \A x, y \in S : x = y
    PROVE  Cardinality(S) <= 1
<1>1. CASE S = {}
  BY <1>1, FS_EmptySet
<1>2. CASE S # {}
  <2>1. PICK x \in S : TRUE
    BY <1>2
  <2>2. S = {x}
    BY <2>1
  <2>. QED  BY <2>2, FS_Singleton
<1>. QED  BY <1>1, <1>2

(* The invariant implies the two safety properties.                         *)
LEMMA InvariantImplies == IInv => LifecycleMatchesLog /\ EvidenceReconciles
<1>. SUFFICES ASSUME TypeOK, LogInv, StoreBacked
              PROVE  LifecycleMatchesLog /\ EvidenceReconciles
  BY DEF IInv
<1>1. \A l \in Logs : \A x : Cardinality(CommitPositions(l, x)) <= 1
  <2>1. \A l \in Logs : \A x : \A q, c \in CommitPositions(l, x) : q = c
    BY DEF LogInv, CommitsUnique, CommitPositions, CommitRecord
  <2>. QED  BY <2>1, AtMostOne
<1>2. LifecycleMatchesLog
  <2>1. \A t \in Issued : LogOf(t) \in Logs
    BY IssuedType DEF LogInv
  <2>2. \A t \in Issued : Cardinality(CommitsOf(t)) <= 1
    BY <1>1, <2>1 DEF CommitsOf
  <2>. QED  BY <2>2 DEF LogInv, LifecycleAgrees, LifecycleMatchesLog
<1>3. EvidenceReconciles
  <2>1. SUFFICES ASSUME NEW l \in Logs, NEW p \in Pages
                 PROVE  Reconciles(l, p) \/ RawBacked(l, p)
    BY DEF EvidenceReconciles
  <2>2. ASSUME NEW q \in OwnedPages(l, p)
        PROVE  Cardinality(DurableCommits(l, q)) <= 1 /\ \A c \in DurableCommits(l, q) : c > q
    <3>1. /\ q \in DOMAIN records[l] /\ q \in Int
          /\ records[l][q].kind = "TransactionPageWrite"
      BY DEF OwnedPages, Durable, TypeOK
    <3>2. \A a, b \in DurableCommits(l, q) : a = b
      BY DEF DurableCommits, LogInv, CommitsUnique, CommitPositions, CommitRecord
    <3>3. Cardinality(DurableCommits(l, q)) <= 1
      BY <3>2, AtMostOne
    <3>4. \A c \in DurableCommits(l, q) : c \in DOMAIN records[l] /\ c \in Int /\ q < c
      BY <3>1 DEF DurableCommits, LogInv, PagesBeforeCommits, CommitPositions, TypeOK
    <3>. QED  BY <3>1, <3>3, <3>4
  <2>3. Classified(l, p)
    BY <2>2 DEF Classified
  <2>. QED  BY <2>3 DEF StoreBacked, Reconciles
<1>. QED  BY <1>2, <1>3

(* The invariant holds in every reachable state.                            *)
LEMMA InvariantHolds == Spec => []IInv
<1>1. Init => IInv
  BY SafetyInit
<1>2. IInv /\ [Next]_vars => IInv'
  BY SafetyStep
<1>. QED  BY <1>1, <1>2, PTL DEF Spec

(* The lifecycle never says more than the log: Committed only with one      *)
(* durable commit record, NoDurableCommitRecord only when there is none and *)
(* none can come, whatever fails, restarts or is retried (TransactionState, *)
(* commit, resolve_indeterminate).                                          *)
THEOREM LifecycleIsTrue == Spec => []LifecycleMatchesLog
BY InvariantHolds, InvariantImplies, PTL

(* No steal: recovery never meets a stored page that it has to refuse,      *)
(* unless it was written without a transaction                              *)
(* (reconcile_committed_transaction_page).                                  *)
THEOREM EvidenceAlwaysReconciles == Spec => []EvidenceReconciles
BY InvariantHolds, InvariantImplies, PTL

(* A durable committed image of a page is never lost (restart, reopen,      *)
(* flush_through).                                                          *)
THEOREM CommittedImagesAreKept == Spec => CommittedImagesStay
<1>1. IInv /\ [Next]_vars =>
        [\A l \in Logs, p \in Pages : CommittedPages(l, p) \subseteq CommittedPages(l, p)']_vars
  <2>1. SUFFICES ASSUME IInv, [Next]_vars
                 PROVE  \A l \in Logs, p \in Pages : CommittedPages(l, p) \subseteq CommittedPages(l, p)'
    OBVIOUS
  <2>2. TypeOK /\ Kept
    BY <2>1, SafetyStep DEF IInv
  <2>. QED  BY <2>2, KeptBacks
<1>. QED  BY <1>1, InvariantHolds, PTL DEF Spec, CommittedImagesStay

----------------------------------------------------------------------------
(* Close obligations.                                                       *)

(* An obligation goes away with the flush of the image it is for.           *)
LEMMA DischargeStep ==
    ASSUME IInv, [Next]_vars, NEW ob \in staged, ob \notin staged'
    PROVE  LET l == LogOf(ob[1]) q == store'[l][ob[2]]
           IN q \in Durable(l)' /\ records'[l][q].transaction = Id(ob[1])
<1>1. PICK l \in Logs, t \in (DOMAIN coordinators) \X (1 .. MaxSequence), k \in committed, d \in dirty :
        FlushStagedCommittedPage(l, t, k, d)
  BY DEF Next, TransactionStep, StorageStep, FlushThrough, StageRawPageWrite, FlushRawPage,
         FlushCommittedPage, FlushDirtyPage, Restart, OpenCoordinator, BeginRecovery, RecoverPage,
         FinishRecovery, Begin, Commit, Resolve, StagePageWrite, vars
<1>2. /\ FlushDirtyPage(l, d, {<<t, d.page>>})
      /\ Id(t) = d.transaction /\ coordinators[t[1]].log = d.log
  BY <1>1 DEF FlushStagedCommittedPage
<1>3. TypeOK /\ d.page \in Pages
  BY DEF IInv, TypeOK, DirtyPage
<1>4. PageFlushed(l, d)
  BY <1>2, <1>3, FlushDirtyPageEffect
<1>5. ob = <<t, d.page>> /\ store' = [store EXCEPT ![l][d.page] = d.position]
  BY <1>2 DEF FlushDirtyPage
<1>6. /\ ob[1] = t /\ ob[2] = d.page /\ LogOf(t) = l
      /\ store'[l][d.page] = d.position
  <2>1. store \in [Logs -> [Pages -> 0 .. MaxPosition]]
    BY <1>3 DEF TypeOK
  <2>. QED  BY <1>2, <1>3, <1>4, <1>5, <2>1 DEF PageFlushed, LogOf
<1>7. d.position \in Durable(l)'
  BY <1>4 DEF PageFlushed, Flushed, Durable
<1>8. records'[l][d.position].transaction = Id(t)
  <2>1. records[d.log][d.position] = PageRecord(d)
    BY <1>4 DEF PageFlushed, IInv, LogInv, DirtyTokensMatch, PageRecord
  <2>. QED  BY <1>2, <1>4, <2>1 DEF PageFlushed, PageRecord
<1>9. LogOf(t)' = LogOf(t)
  BY <1>4 DEF PageFlushed, coordinatorVars, LogOf
<1>10. d.position \in Durable(LogOf(ob[1]))'
  BY <1>6, <1>7, <1>9 DEF Durable
<1>. QED  BY <1>6, <1>8, <1>10

(* A close obligation is discharged only by the staged image in the store,  *)
(* durable in the log (flush_staged_committed_page).                        *)
THEOREM DischargesAreStored == Spec => DischargedInStore
<1>1. IInv /\ [Next]_vars =>
        [\A ob \in staged \ staged' :
           LET l == LogOf(ob[1]) q == store'[l][ob[2]]
           IN q \in Durable(l)' /\ records'[l][q].transaction = Id(ob[1])]_vars
  BY DischargeStep
<1>. QED  BY <1>1, InvariantHolds, PTL DEF Spec, DischargedInStore

----------------------------------------------------------------------------
(* Recovery.                                                                *)

(* Whoever is not the recovery of l leaves its phase, and leaves its log    *)
(* and its store while they are under recovery.                             *)
OutOfReach(l) ==
    /\ recovering'[l] = recovering[l]
    /\ recovering[l] # None =>
         records'[l] = records[l] /\ durable'[l] = durable[l] /\ store'[l] = store[l]

(* Every other step does so.                                                *)
LEMMA RecoveryOwns ==
    ASSUME TypeOK, [Next]_vars, NEW l \in Logs
    PROVE  OutOfReach(l) \/ BeginRecovery(l) \/ RecoverPage(l) \/ FinishRecovery(l)
<1>1. /\ recovering \in [Logs -> (SUBSET Pages) \cup {None}]
      /\ store \in [Logs -> [Pages -> 0 .. MaxPosition]]
      /\ durable \in [Logs -> 0 .. MaxPosition]
      /\ DOMAIN records = Logs
  BY DEF TypeOK
<1>. DEFINE Elsewhere(m) ==
              \A n \in Logs \ {m} : /\ records'[n] = records[n] /\ durable'[n] = durable[n]
                                    /\ store'[n] = store[n] /\ recovering'[n] = recovering[n]
<1>2. ASSUME NEW m \in Logs, recovering[m] = None, recovering' = recovering, Elsewhere(m)
      PROVE  OutOfReach(l)
  BY <1>2 DEF OutOfReach
<1>3. ASSUME UNCHANGED <<records, durable, store, recovering>>
      PROVE  OutOfReach(l)
  BY <1>3 DEF OutOfReach
<1>4. ASSUME NEW m \in Logs, NEW q \in DOMAIN records[m], FlushThrough(m, q)
      PROVE  OutOfReach(l)
  <2>1. Elsewhere(m)
    BY <1>1, <1>4 DEF FlushThrough, FlushedThrough
  <2>. QED  BY <1>2, <1>4, <2>1 DEF FlushThrough
<1>5. ASSUME NEW m \in Logs, NEW r, AppendRecord(m, r) \/ records' = records
      PROVE  \A n \in Logs \ {m} : records'[n] = records[n]
  BY <1>1, <1>5 DEF AppendRecord
<1>6. ASSUME NEW m \in Logs, NEW p \in RawPages, StageRawPageWrite(m, p)
      PROVE  OutOfReach(l)
  <2>1. \A n \in Logs \ {m} : records'[n] = records[n]
    BY <1>5, <1>6 DEF StageRawPageWrite, AppendReported, AppendFailed
  <2>2. recovering[m] = None /\ UNCHANGED <<durable, store, recovering>>
    BY <1>6 DEF StageRawPageWrite
  <2>. QED  BY <1>2, <2>1, <2>2
<1>7. ASSUME NEW m \in Logs, NEW d, NEW o, FlushDirtyPage(m, d, o)
      PROVE  OutOfReach(l)
  <2>1. recovering[m] = None /\ records' = records /\ recovering' = recovering
    BY <1>7 DEF FlushDirtyPage
  <2>2. store' = store \/ store' = [store EXCEPT ![m][d.page] = d.position]
    BY <1>7 DEF FlushDirtyPage
  <2>3. \A n \in Logs \ {m} : durable'[n] = durable[n]
    BY <1>1, <1>7 DEF FlushDirtyPage, FlushedThrough
  <2>4. \A n \in Logs \ {m} : store'[n] = store[n]
    BY <1>1, <2>2
  <2>. QED  BY <1>2, <2>1, <2>3, <2>4
<1>8. ASSUME NEW m \in Logs, Restart(m)
      PROVE  OutOfReach(l)
  <2>1. Elsewhere(m)
    BY <1>1, <1>8 DEF Restart
  <2>. QED  BY <1>2, <1>8, <2>1 DEF Restart
<1>9. ASSUME NEW m \in Logs, NEW t, Commit(t, m)
      PROVE  OutOfReach(l)
  <2>1. \A n \in Logs \ {m} : records'[n] = records[n]
    BY <1>5, <1>9 DEF Commit, AppendReported, AppendFailed
  <2>2. \A n \in Logs \ {m} : durable'[n] = durable[n]
    BY <1>1, <1>9 DEF Commit, FlushedThrough
  <2>3. recovering[m] = None /\ UNCHANGED <<store, recovering>>
    BY <1>9 DEF Commit, Serves
  <2>. QED  BY <1>2, <2>1, <2>2, <2>3
<1>10. ASSUME NEW m \in Logs, NEW t, NEW p \in Pages, StagePageWrite(t, m, p)
      PROVE  OutOfReach(l)
  <2>1. \A n \in Logs \ {m} : records'[n] = records[n]
    BY <1>5, <1>10 DEF StagePageWrite, AppendReported, AppendFailed
  <2>2. recovering[m] = None /\ UNCHANGED <<durable, store, recovering>>
    BY <1>10 DEF StagePageWrite, Serves
  <2>. QED  BY <1>2, <2>1, <2>2
<1>11. ASSUME NEW m \in Logs, m # l, BeginRecovery(m) \/ RecoverPage(m) \/ FinishRecovery(m)
      PROVE  OutOfReach(l)
  <2>1. records' = records /\ durable' = durable
    BY <1>11 DEF BeginRecovery, RecoverPage, FinishRecovery, logVars
  <2>2. recovering'[l] = recovering[l]
    BY <1>1, <1>11 DEF BeginRecovery, RecoverPage, FinishRecovery
  <2>3. store'[l] = store[l]
    BY <1>1, <1>11 DEF BeginRecovery, RecoverPage, FinishRecovery
  <2>. QED  BY <2>1, <2>2, <2>3 DEF OutOfReach
<1>12. ASSUME \/ UNCHANGED vars
              \/ \E m \in Logs : OpenCoordinator(m)
              \/ \E c \in DOMAIN coordinators : Begin(c)
              \/ \E m \in Logs, t \in (DOMAIN coordinators) \X (1 .. MaxSequence) : Resolve(t, m)
       PROVE  OutOfReach(l)
  BY <1>3, <1>12 DEF vars, logVars, OpenCoordinator, Begin, Resolve
<1>. QED  BY <1>4, <1>6, <1>7, <1>8, <1>9, <1>10, <1>11, <1>12
          DEF Next, TransactionStep, StorageStep, FlushRawPage, FlushCommittedPage,
              FlushStagedCommittedPage

(* What recovery of l reads is decided by its log.                          *)
LEMMA LogDecides ==
    ASSUME NEW l, records'[l] = records[l], durable'[l] = durable[l]
    PROVE  /\ Inventory(l)' = Inventory(l)
           /\ \A p : LatestCommitted(l, p)' = LatestCommitted(l, p)
BY DEF Inventory, LatestCommitted, CommittedPages, OwnedPages, DurableCommits, CommitPositions,
       CommitRecord, Durable

(* The pages visited by a recovery stay current until it ends.              *)
LEMMA VisitedStep == TypeOK /\ VisitedPagesCurrent /\ [Next]_vars => VisitedPagesCurrent'
<1>. SUFFICES ASSUME TypeOK, VisitedPagesCurrent, [Next]_vars, NEW l \in Logs,
                     recovering'[l] # None, NEW p \in Inventory(l)', p \notin recovering'[l]
              PROVE  store'[l][p] = LatestCommitted(l, p)'
  BY DEF VisitedPagesCurrent
<1>1. /\ recovering \in [Logs -> (SUBSET Pages) \cup {None}]
      /\ store \in [Logs -> [Pages -> 0 .. MaxPosition]]
  BY DEF TypeOK
<1>2. CASE OutOfReach(l)
  <2>1. recovering[l] # None
    BY <1>2 DEF OutOfReach
  <2>. QED  BY <1>2, <2>1, LogDecides DEF OutOfReach, VisitedPagesCurrent
<1>3. CASE BeginRecovery(l)
  <2>1. records' = records /\ durable' = durable /\ recovering'[l] = Inventory(l)
    BY <1>1, <1>3 DEF BeginRecovery, logVars
  <2>. QED  BY <2>1, LogDecides
<1>4. CASE RecoverPage(l)
  <2>. DEFINE e == Earliest(recovering[l])
  <2>1. records' = records /\ durable' = durable
    BY <1>4 DEF RecoverPage, logVars
  <2>2. p \in Inventory(l) /\ p \in Pages
    BY <2>1, LogDecides DEF Inventory
  <2>3. CASE recovering' = [recovering EXCEPT ![l] = Inventory(l)]
    BY <1>1, <2>2, <2>3
  <2>4. CASE /\ recovering' = [recovering EXCEPT ![l] = @ \ {e}]
             /\ store'[l][e] = LatestCommitted(l, e)
             /\ \A o \in Pages \ {e} : store'[l][o] = store[l][o]
    <3>1. recovering[l] # None /\ (p = e \/ p \notin recovering[l])
      BY <1>1, <1>4, <2>4 DEF RecoverPage
    <3>2. store'[l][p] = LatestCommitted(l, p)
      BY <2>2, <2>4, <3>1 DEF VisitedPagesCurrent
    <3>. QED  BY <2>1, <3>2, LogDecides
  <2>5. /\ store' = store \/ store' = [store EXCEPT ![l][e] = LatestCommitted(l, e)]
        /\ \/ recovering' = [recovering EXCEPT ![l] = Inventory(l)]
           \/ /\ recovering' = [recovering EXCEPT ![l] = @ \ {e}]
              /\ \/ store' = [store EXCEPT ![l][e] = LatestCommitted(l, e)]
                 \/ store' = store /\ store[l][e] = LatestCommitted(l, e)
    BY <1>4 DEF RecoverPage, NeedsRecovery
  <2>6. e \in Pages
    BY <1>4, NextRecovered DEF RecoverPage
  <2>. QED  BY <1>1, <2>3, <2>4, <2>5, <2>6
<1>5. CASE FinishRecovery(l)
  BY <1>1, <1>5 DEF FinishRecovery
<1>. QED  BY <1>2, <1>3, <1>4, <1>5, RecoveryOwns

(* recover gives log and store back only when every page with durable       *)
(* transaction-owned records shows its latest committed image, whatever was *)
(* flushed over it before (RecoveredTransactionPageStorage).                *)
THEOREM RecoveryIsCurrent == Spec => RecoveryInstallsLatest
<1>1. Init => TypeOK /\ VisitedPagesCurrent
  BY TypeInit DEF Init, VisitedPagesCurrent
<1>2. TypeOK /\ VisitedPagesCurrent /\ [Next]_vars => (TypeOK /\ VisitedPagesCurrent)'
  BY TypeStep, VisitedStep
<1>3. TypeOK /\ VisitedPagesCurrent /\ [Next]_vars =>
        [\A l \in Logs : recovering[l] # None /\ recovering'[l] = None =>
           \A p \in Inventory(l) : store'[l][p] = LatestCommitted(l, p)]_vars
  <2>1. SUFFICES ASSUME TypeOK, VisitedPagesCurrent, [Next]_vars, NEW l \in Logs,
                        recovering[l] # None, recovering'[l] = None, NEW p \in Inventory(l)
                 PROVE  store'[l][p] = LatestCommitted(l, p)
    OBVIOUS
  <2>2. FinishRecovery(l)
    <3>1. ~OutOfReach(l) /\ ~BeginRecovery(l)
      BY <2>1 DEF OutOfReach, BeginRecovery
    <3>2. ~RecoverPage(l)
      <4>1. SUFFICES ASSUME RecoverPage(l) PROVE FALSE
        OBVIOUS
      <4>2. recovering[l] \in SUBSET Pages
        BY <2>1, <4>1, NextRecovered DEF RecoverPage
      <4>3. recovering'[l] \in SUBSET Pages
        BY <2>1, <4>1, <4>2 DEF RecoverPage, Inventory, TypeOK
      <4>. QED  BY <2>1, <4>3, NoneAssumption
    <3>. QED  BY <2>1, <3>1, <3>2, RecoveryOwns
  <2>3. recovering[l] = {} /\ store' = store
    BY <2>2 DEF FinishRecovery
  <2>. QED  BY <2>1, <2>3 DEF VisitedPagesCurrent
<1>. QED  BY <1>1, <1>2, <1>3, PTL DEF Spec, RecoveryInstallsLatest

----------------------------------------------------------------------------
(* Outcomes.                                                                *)

(* How a step may decide the issued transactions: the coordinator of one is *)
(* fixed, its lifecycle only moves on, and nobody but an active transaction *)
(* gets a commit record.                                                    *)
Decided == {"Committed", "NoDurableCommitRecord", "PageAppendIndeterminate"}
MovesOn(t) ==
    /\ LogOf(t)' = LogOf(t) /\ Id(t)' = Id(t)
    /\ lifecycle'[t] # None
    /\ lifecycle[t] # "Active" => lifecycle'[t] # "Active" /\ CommitsOf(t)' \subseteq CommitsOf(t)
    /\ lifecycle[t] \in Decided => lifecycle'[t] = lifecycle[t]

(* Steps that append no commit record leave the lifecycle, or decide one    *)
(* transaction that was not decided.                                        *)
LEMMA NoCommitMovesOn ==
    ASSUME TypeOK, LogInv, NEW t \in Issued, NEW u,
           \A c \in DOMAIN coordinators : coordinators'[c] = coordinators[c],
           \A l \in Logs : \A x : CommitPositions(l, x)' \subseteq CommitPositions(l, x),
           \/ lifecycle' = lifecycle
           \/ u \notin Issued /\ lifecycle' = [lifecycle EXCEPT ![u] = "Active"]
           \/ /\ lifecycle[u] \in {"Active", "Indeterminate"}
              /\ \E v \in Decided : lifecycle' = [lifecycle EXCEPT ![u] = v]
    PROVE  MovesOn(t)
<1>1. /\ t[1] \in DOMAIN coordinators /\ t \in Transactions /\ lifecycle[t] # None
      /\ LogOf(t) \in Logs
  BY IssuedType DEF LogInv, CoordinatorsDistinct, Issued
<1>2. LogOf(t)' = LogOf(t) /\ Id(t)' = Id(t)
  BY <1>1 DEF LogOf, Id
<1>3. CommitsOf(t)' \subseteq CommitsOf(t)
  <2>1. CommitPositions(LogOf(t), Id(t))' \subseteq CommitPositions(LogOf(t), Id(t))
    BY <1>1, <1>2 DEF CommitPositions, CommitRecord
  <2>. QED  BY <2>1 DEF CommitsOf
<1>4. /\ lifecycle \in [Transactions -> Lifecycles \cup {None}]
      /\ \A v \in Lifecycles : v # None
  BY NoneAssumption DEF TypeOK
<1>5. /\ lifecycle'[t] # None
      /\ lifecycle[t] # "Active" => lifecycle'[t] # "Active"
      /\ lifecycle[t] \in Decided => lifecycle'[t] = lifecycle[t]
  BY <1>1, <1>4 DEF Decided, Lifecycles
<1>. QED  BY <1>2, <1>3, <1>5 DEF MovesOn

(* A commit call moves its transaction on and gives no record to another.   *)
LEMMA CommitMovesOn ==
    ASSUME TypeOK, LogInv, NEW t \in Issued, NEW l \in Logs,
           NEW u \in (DOMAIN coordinators) \X (1 .. MaxSequence), Commit(u, l)
    PROVE  MovesOn(t)
<1>1. /\ coordinators' = coordinators
      /\ lifecycle[u] = "Active" /\ LogOf(u) = l
  BY DEF Commit, Serves, coordinatorVars, LogOf
<1>2. /\ u \in Transactions /\ CommitEffect(u, l)
      /\ lifecycle \in [Transactions -> Lifecycles \cup {None}]
      /\ \A v \in Lifecycles : v # None
  BY IdType, CommitHasEffect, NoneAssumption DEF TypeOK
<1>3. LogOf(t)' = LogOf(t) /\ Id(t)' = Id(t) /\ LogOf(t) \in Logs
  BY <1>1, IssuedType DEF LogOf, Id, LogInv
<1>4. t \in Transactions /\ lifecycle[t] # None /\ u \in Issued
  BY <1>1, <1>2 DEF Issued, Lifecycles
<1>5. CASE t = u
  BY <1>1, <1>2, <1>3, <1>4, <1>5 DEF CommitEffect, MovesOn, Decided, Lifecycles
<1>6. CASE t # u
  <2>1. lifecycle'[t] = lifecycle[t]
    BY <1>2, <1>4, <1>6 DEF CommitEffect
  <2>2. CommitsOf(t)' \subseteq CommitsOf(t)
    <3>1. SUFFICES ASSUME NEW q \in CommitsOf(t)' PROVE q \in CommitsOf(t)
      OBVIOUS
    <3>2. q \in DOMAIN records'[LogOf(t)] /\ records'[LogOf(t)][q] = CommitRecord(Id(t))
      BY <1>3, <3>1 DEF CommitsOf, CommitPositions, CommitRecord
    <3>3. CASE records' = records
      BY <3>2, <3>3 DEF CommitsOf, CommitPositions
    <3>4. CASE Appended(l, CommitRecord(Id(u)))
      <4>1. q \in DOMAIN records[LogOf(t)] \/ (LogOf(t) = l /\ q = nextPosition[l])
        BY <1>3, <3>2, <3>4, AppendedOnly DEF LogInv
      <4>2. CASE q \in DOMAIN records[LogOf(t)]
        BY <1>3, <3>2, <3>4, <4>2, AppendedOnly DEF LogInv, CommitsOf, CommitPositions
      <4>3. CASE LogOf(t) = l /\ q = nextPosition[l]
        <5>1. CommitRecord(Id(t)) = CommitRecord(Id(u))
          BY <3>2, <3>4, <4>3 DEF Appended
        <5>2. Id(t) = Id(u)
          BY <5>1 DEF CommitRecord
        <5>. QED  BY <1>1, <1>4, <1>6, <4>3, <5>2, IdentitiesDistinct DEF LogInv
      <4>. QED  BY <4>1, <4>2, <4>3
    <3>. QED  BY <1>2, <3>3, <3>4 DEF CommitEffect
  <2>. QED  BY <1>3, <1>4, <2>1, <2>2 DEF MovesOn
<1>. QED  BY <1>5, <1>6

(* Every step moves the issued transactions on.                             *)
LEMMA StepMovesOn ==
    ASSUME TypeOK, LogInv, [Next]_vars, NEW t \in Issued
    PROVE  MovesOn(t)
<1>1. ASSUME coordinators' = coordinators \/ \E l \in Logs : OpenCoordinator(l)
      PROVE  \A c \in DOMAIN coordinators : coordinators'[c] = coordinators[c]
  <2>1. coordinators \in Seq([log : Logs, epoch : 1 .. MaxEpoch])
    BY DEF TypeOK
  <2>2. ASSUME NEW e, coordinators' = Append(coordinators, e)
        PROVE  \A c \in DOMAIN coordinators : coordinators'[c] = coordinators[c]
    BY <2>1, <2>2
  <2>. QED  BY <1>1, <2>2 DEF OpenCoordinator
<1>2. ASSUME records' = records \/ \E m \in Logs : Restart(m)
      PROVE  \A l \in Logs : \A x : CommitPositions(l, x)' \subseteq CommitPositions(l, x)
  <2>1. \A l \in Logs : \A q \in DOMAIN records'[l] :
          q \in DOMAIN records[l] /\ records'[l][q] = records[l][q]
    BY <1>2, RestartEffect DEF Durable
  <2>. QED  BY <2>1 DEF CommitPositions, CommitRecord
<1>3. ASSUME NEW l \in Logs, NEW r, AppendRecord(l, r) \/ records' = records,
             r.kind # "TransactionCommit"
      PROVE  \A m \in Logs : \A x : CommitPositions(m, x)' \subseteq CommitPositions(m, x)
  <2>1. CASE AppendRecord(l, r)
    BY <1>3, <2>1, AppendEffect, AppendedNoCommit DEF LogInv
  <2>. QED  BY <1>2, <1>3, <2>1
<1>4. ASSUME NEW l \in Logs, NEW u \in (DOMAIN coordinators) \X (1 .. MaxSequence), Commit(u, l)
      PROVE  MovesOn(t)
  BY <1>4, CommitMovesOn
<1>5. ASSUME NEW l \in Logs, NEW u \in (DOMAIN coordinators) \X (1 .. MaxSequence), Resolve(u, l)
      PROVE  MovesOn(t)
  <2>1. records' = records /\ coordinators' = coordinators /\ lifecycle[u] = "Indeterminate"
    BY <1>5 DEF Resolve, logVars, coordinatorVars
  <2>2. \E v \in Decided : lifecycle' = [lifecycle EXCEPT ![u] = v]
    BY <1>5 DEF Resolve, Decided
  <2>. QED  BY <1>1, <1>2, <2>1, <2>2, NoCommitMovesOn
<1>6. ASSUME NEW l \in Logs, NEW u \in (DOMAIN coordinators) \X (1 .. MaxSequence), NEW p \in Pages,
             StagePageWrite(u, l, p)
      PROVE  MovesOn(t)
  <2>. DEFINE r == [kind |-> "TransactionPageWrite", transaction |-> Id(u), page |-> p]
  <2>1. coordinators' = coordinators /\ lifecycle[u] = "Active"
    BY <1>6 DEF StagePageWrite, coordinatorVars
  <2>2. AppendRecord(l, r) \/ records' = records
    BY <1>6 DEF StagePageWrite, AppendReported, AppendFailed
  <2>3. lifecycle' = lifecycle \/ \E v \in Decided : lifecycle' = [lifecycle EXCEPT ![u] = v]
    BY <1>6 DEF StagePageWrite, Decided
  <2>. QED  BY <1>1, <1>3, <2>1, <2>2, <2>3, NoCommitMovesOn
<1>7. ASSUME NEW l \in Logs, NEW p \in RawPages, StageRawPageWrite(l, p)
      PROVE  MovesOn(t)
  <2>. DEFINE r == [kind |-> "PageWrite", transaction |-> None, page |-> p]
  <2>1. coordinators' = coordinators /\ lifecycle' = lifecycle
    BY <1>7 DEF StageRawPageWrite, coordinatorVars
  <2>2. AppendRecord(l, r) \/ records' = records
    BY <1>7 DEF StageRawPageWrite, AppendReported, AppendFailed
  <2>. QED  BY <1>1, <1>3, <2>1, <2>2, NoCommitMovesOn
<1>8. ASSUME NEW c \in DOMAIN coordinators, Begin(c)
      PROVE  MovesOn(t)
  <2>. DEFINE u == <<c, nextSequence[c]>>
  <2>1. records' = records /\ coordinators' = coordinators
    BY <1>8 DEF Begin, logVars
  <2>2. u \notin Issued /\ lifecycle' = [lifecycle EXCEPT ![u] = "Active"]
    BY <1>8 DEF Begin, Issued
  <2>. QED  BY <1>1, <1>2, <2>1, <2>2, NoCommitMovesOn
<1>9. ASSUME records' = records \/ \E m \in Logs : Restart(m),
             coordinators' = coordinators \/ \E l \in Logs : OpenCoordinator(l),
             lifecycle' = lifecycle
      PROVE  MovesOn(t)
  BY <1>1, <1>2, <1>9, NoCommitMovesOn
<1>10. ASSUME NEW l \in Logs, Restart(l) \/ OpenCoordinator(l) \/ BeginRecovery(l) \/ RecoverPage(l)
                                \/ FinishRecovery(l) \/ \E q \in DOMAIN records[l] : FlushThrough(l, q)
       PROVE  MovesOn(t)
  BY <1>9, <1>10 DEF Restart, OpenCoordinator, BeginRecovery, RecoverPage, FinishRecovery,
                     FlushThrough, logVars, coordinatorVars
<1>11. ASSUME NEW l \in Logs, NEW d, NEW o, FlushDirtyPage(l, d, o)
       PROVE  MovesOn(t)
  BY <1>9, <1>11 DEF FlushDirtyPage, coordinatorVars
<1>12. CASE UNCHANGED vars
  BY <1>9, <1>12 DEF vars, logVars, coordinatorVars
<1>. QED  BY <1>4, <1>5, <1>6, <1>7, <1>8, <1>10, <1>11, <1>12
          DEF Next, TransactionStep, StorageStep, FlushRawPage, FlushCommittedPage,
              FlushStagedCommittedPage

(* An outcome that is decided stays: a durable commit record is kept, and a *)
(* transaction whose commit was lost never gets one.                        *)
LEMMA OutcomeStays ==
    ASSUME TypeOK, LogInv, Kept, NEW t \in Transactions, Outcome(t) # "Open",
           t \in Issued => MovesOn(t)
    PROVE  Outcome(t)' = Outcome(t)
<1>1. lifecycle[t] \notin {None, "Active"} /\ t \in Issued
  BY DEF Outcome, Issued
<1>2. /\ lifecycle'[t] \notin {None, "Active"}
      /\ LogOf(t)' = LogOf(t) /\ Id(t)' = Id(t) /\ LogOf(t) \in Logs
      /\ CommitsOf(t)' \subseteq CommitsOf(t)
  BY <1>1, IssuedType DEF MovesOn, LogInv
<1>3. ASSUME NEW c \in CommitsOf(t) \cap Durable(LogOf(t))
      PROVE  c \in (CommitsOf(t) \cap Durable(LogOf(t)))'
  <2>1. /\ c \in Durable(LogOf(t))
        /\ records[LogOf(t)][c] = CommitRecord(Id(t))
    BY <1>3 DEF CommitsOf, CommitPositions
  <2>2. c \in Durable(LogOf(t))' /\ records'[LogOf(t)][c] = records[LogOf(t)][c]
    <3>1. \A l \in Logs : \A q \in Durable(l) : q \in Durable(l)' /\ records'[l][q] = records[l][q]
      BY DEF Kept
    <3>. QED  BY <1>2, <2>1, <3>1 DEF Durable
  <2>3. c \in DOMAIN records'[LogOf(t)']
    BY <2>2 DEF Durable
  <2>. QED  BY <1>2, <2>1, <2>2, <2>3 DEF CommitsOf, CommitPositions, CommitRecord
<1>4. CASE CommitsOf(t) \cap Durable(LogOf(t)) # {}
  <2>1. (CommitsOf(t) \cap Durable(LogOf(t)))' # {}
    BY <1>3, <1>4
  <2>. QED  BY <1>1, <1>2, <1>4, <2>1 DEF Outcome
<1>5. CASE CommitsOf(t) \cap Durable(LogOf(t)) = {}
  <2>1. CommitsOf(t) = {}
    BY <1>1, <1>5 DEF Outcome
  <2>2. CommitsOf(t)' = {}
    BY <1>2, <2>1
  <2>. QED  BY <1>1, <1>2, <1>5, <2>1, <2>2 DEF Outcome
<1>. QED  BY <1>4, <1>5

(* A verdict is what the log decides.                                       *)
VerdictsAreOutcomes == \A t \in Transactions : Verdict(t) # "None" => Verdict(t) = Outcome(t)

(* So it is in every state of the invariant.                                *)
LEMMA VerdictIsOutcome == LogInv => VerdictsAreOutcomes
<1>. SUFFICES ASSUME LogInv, NEW t \in Transactions, Verdict(t) # "None"
              PROVE  Verdict(t) = Outcome(t)
  BY DEF VerdictsAreOutcomes
<1>1. lifecycle[t] \in {"Committed", "NoDurableCommitRecord"}
  BY DEF Verdict
<1>2. t \in Issued /\ lifecycle[t] \notin {None, "Active"}
  BY <1>1, NoneAssumption DEF Issued, Lifecycles
<1>3. /\ lifecycle[t] = "Committed" => CommitsOf(t) # {} /\ CommitsOf(t) \subseteq Durable(LogOf(t))
      /\ lifecycle[t] = "NoDurableCommitRecord" => CommitsOf(t) = {}
  BY <1>2 DEF LogInv, LifecycleAgrees
<1>. QED  BY <1>1, <1>2, <1>3 DEF Verdict, Outcome

(* Nothing is decided in a new system.                                      *)
LEMMA OutcomesInit == Init => Abstract!Init
<1>. SUFFICES ASSUME Init PROVE Abstract!Init
  OBVIOUS
<1>1. \A t \in Transactions : lifecycle[t] = None
  BY DEF Init
<1>2. \A t \in Transactions : Outcome(t) = "Open" /\ Verdict(t) = "None"
  BY <1>1, NoneAssumption DEF Outcome, Verdict, Lifecycles
<1>. QED  BY <1>2 DEF Abstract!Init

(* Every step of the storage is a step of the outcomes.                     *)
LEMMA OutcomesStep == IInv /\ [Next]_vars => Abstract!Next
<1>. SUFFICES ASSUME IInv, [Next]_vars PROVE Abstract!Next
  OBVIOUS
<1>1. TypeOK /\ LogInv /\ Kept /\ LogInv'
  BY SafetyStep DEF IInv
<1>2. \A t \in Transactions : t \in Issued => MovesOn(t)
  BY <1>1, StepMovesOn
<1>3. ASSUME NEW t \in Transactions
      PROVE  /\ Outcome(t) # "Open" => Outcome(t)' = Outcome(t)
             /\ Verdict(t) # "None" => Verdict(t)' = Verdict(t)
             /\ Verdict(t)' # "None" => Verdict(t)' = Outcome(t)'
             /\ Outcome(t)' \in {"Open", "Durable", "Lost"}
             /\ Verdict(t)' \in {"None", "Durable", "Lost"}
  <2>1. Outcome(t) # "Open" => Outcome(t)' = Outcome(t)
    BY <1>1, <1>2, OutcomeStays
  <2>2. Verdict(t) # "None" => Verdict(t)' = Verdict(t)
    <3>1. Verdict(t) # "None" => lifecycle[t] \in Decided /\ t \in Issued
      BY NoneAssumption DEF Verdict, Decided, Issued, Lifecycles
    <3>2. Verdict(t) # "None" => lifecycle'[t] = lifecycle[t]
      BY <1>2, <3>1 DEF MovesOn
    <3>. QED  BY <3>2 DEF Verdict
  <2>3. Verdict(t)' # "None" => Verdict(t)' = Outcome(t)'
    <3>1. LogInv' => VerdictsAreOutcomes'
      BY VerdictIsOutcome, PTL
    <3>. QED  BY <1>1, <3>1 DEF VerdictsAreOutcomes
  <2>4. Outcome(t)' \in {"Open", "Durable", "Lost"} /\ Verdict(t)' \in {"None", "Durable", "Lost"}
    BY DEF Outcome, Verdict
  <2>. QED  BY <2>1, <2>2, <2>3, <2>4
<1>. QED  BY <1>3 DEF Abstract!Next

(* Commit, its failures, restarts and resolution implement outcomes that    *)
(* are decided once, and verdicts that are true (TransactionCoordinator::   *)
(* commit, resolve_indeterminate).                                          *)
THEOREM OutcomesAreFinal == Spec => ImplementsCommitOutcomes
<1>1. IInv /\ [Next]_vars => [Abstract!Next]_(Abstract!vars)
  BY OutcomesStep
<1>. QED  BY <1>1, OutcomesInit, InvariantHolds, PTL
          DEF Spec, ImplementsCommitOutcomes, Abstract!Spec
=============================================================================
