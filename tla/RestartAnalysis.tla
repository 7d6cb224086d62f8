-------------------------- MODULE RestartAnalysis --------------------------
(***************************************************************************)
(* What the restart path of crates/ntsql-transaction derives from the      *)
(* durable records of a log and the images in a page store: the            *)
(* transaction table, the state of every page, the position from which     *)
(* replay has to start, and the checkpoint baseline made of the three.     *)
(*                                                                         *)
(* A log is a set of durable records; `store` gives the position of the    *)
(* record whose image a page shows.  0 is no position, no page and no      *)
(* image.  Data left out: the bytes of a page, which its position tells    *)
(* apart, lineages, which are all equal here, the capacity of a Vec, and   *)
(* the cause kept with a replay start, which the rest of the baseline      *)
(* determines.                                                             *)
(***************************************************************************)
EXTENDS Naturals, FiniteSets, Extrema

(* Transaction identities: an epoch and a sequence number.                  *)
NoOwner == <<0, 0>>

PageRecord(at, page) ==
    [kind |-> "Page", at |-> at, page |-> page, by |-> NoOwner]
TransactionPageRecord(at, page, t) ==
    [kind |-> "TransactionPage", at |-> at, page |-> page, by |-> t]
CommitRecord(at, t) ==
    [kind |-> "Commit", at |-> at, page |-> 0, by |-> t]

PositionsIn(log) == {r.at : r \in log}
PagesIn(log) == {r.page : r \in log} \ {0}
OwnersIn(log) == {r.by : r \in log} \ {NoOwner}
Prefix(log, frontier) == {r \in log : r.at <= frontier}

----------------------------------------------------------------------------
(* The transaction table.                                                   *)
OwnedPages(log, t) == {r.at : r \in {x \in log : x.kind = "TransactionPage" /\ x.by = t}}
Commits(log, t) == {r.at : r \in {x \in log : x.kind = "Commit" /\ x.by = t}}

Entry(log, t) ==
    [first |-> Earliest(OwnedPages(log, t)),
     last |-> Latest(OwnedPages(log, t)),
     count |-> Cardinality(OwnedPages(log, t)),
     commit |-> Earliest(Commits(log, t))]

Transactions(log) == [t \in OwnersIn(log) |-> Entry(log, t)]

(* The evidence an analysis accepts: one record per position, the last one  *)
(* at the frontier, one commit per transaction, after all of its pages.     *)
Analyzable(log, frontier) ==
    /\ frontier = Latest(PositionsIn(log))
    /\ \A r, s \in log : r.at = s.at => r = s
    /\ \A c, r \in log : c.kind = "Commit" /\ r.by = c.by => r.at <= c.at

Committed(entries, t) == t \in DOMAIN entries /\ entries[t].commit # 0
Unresolved(entries) == {t \in DOMAIN entries : entries[t].commit = 0}

----------------------------------------------------------------------------
(* The pages.                                                               *)
NoImage == [at |-> 0, by |-> NoOwner, commit |-> 0]

(* Defect: the pages of a transaction count before it commits.              *)
InstallableUncommitted(entries, r) == r.kind # "Commit"
(* Defect: an image written without a transaction is not replayed.          *)
InstallableOwned(entries, r) == r.kind = "TransactionPage" /\ Committed(entries, r.by)
Installable(entries, r) ==
    \/ r.kind = "Page"
    \/ r.kind = "TransactionPage" /\ Committed(entries, r.by)

Image(entries, r) ==
    [at |-> r.at, by |-> r.by,
     commit |-> IF r.by = NoOwner THEN 0 ELSE entries[r.by].commit]

(* The last record of a page that a restart may install.                    *)
RequiredImage(entries, log, page) ==
    LET images == {r \in log : r.page = page /\ Installable(entries, r)}
    IN  IF images = {} THEN NoImage
        ELSE Image(entries, CHOOSE r \in images : IsLatest(r.at, PositionsIn(images)))

(* An image in the store that the records account for.                      *)
SnapshotBacked(entries, log, frontier, page, stored) ==
    /\ stored <= frontier
    /\ \E r \in log : r.at = stored /\ r.page = page /\ Installable(entries, r)

PageState(required, stored) ==
    [required |-> required, stored |-> stored,
     state |-> IF required = NoImage THEN "NoRequiredImage"
               ELSE IF stored = 0 THEN "StoreMissing"
               ELSE IF stored = required.at THEN "StoreCurrent" ELSE "StoreBehind"]

(* A page that replay has to bring forward.                                 *)
Lagging(page) == page.state \in {"StoreMissing", "StoreBehind"}

----------------------------------------------------------------------------
(* Where replay starts: at the lowest position still needed, or after the   *)
(* frontier when none is.                                                   *)
(* Defect: only the pages count.                                            *)
ReplayStartOfPages(entries, pages, frontier) ==
    LET floor == {pages[p].required.at : p \in {q \in DOMAIN pages : Lagging(pages[q])}}
    IN  IF floor = {} THEN [kind |-> "AfterFrontier", at |-> frontier]
        ELSE [kind |-> "AtPosition", at |-> Earliest(floor)]
ReplayStart(entries, pages, frontier) ==
    LET floor == {entries[t].first : t \in Unresolved(entries)}
                   \cup {pages[p].required.at : p \in {q \in DOMAIN pages : Lagging(pages[q])}}
    IN  IF floor = {} THEN [kind |-> "AfterFrontier", at |-> frontier]
        ELSE [kind |-> "AtPosition", at |-> Earliest(floor)]

(* The pages that records or a selected checkpoint name, over these         *)
(* transactions.                                                            *)
Inventory(log, selected) == PagesIn(log) \cup selected

PageStates(entries, log, selected, store) ==
    [p \in Inventory(log, selected) |-> PageState(RequiredImage(entries, log, p), store[p])]

Derivable(entries, log, frontier, selected, store) ==
    /\ \A t \in Unresolved(entries) : entries[t].first # 0
    /\ \A p \in Inventory(log, selected) :
         LET required == RequiredImage(entries, log, p) IN
         store[p] # 0 =>
             /\ SnapshotBacked(entries, log, frontier, p, store[p])
             /\ required # NoImage
             /\ store[p] <= required.at

Derived(entries, log, frontier, selected, store) ==
    LET pages == PageStates(entries, log, selected, store)
    IN  [frontier |-> frontier, entries |-> entries, pages |-> pages,
         replay |-> ReplayStart(entries, pages, frontier)]

(* The complete analysis of a log that nothing was removed from.            *)
CompleteAnalyzable(log, frontier, store) ==
    /\ Analyzable(log, frontier)
    /\ Derivable(Transactions(log), log, frontier, {}, store)
Completeness(log, frontier, store) ==
    Derived(Transactions(log), log, frontier, {}, store)

----------------------------------------------------------------------------
(* Checkpoints of a log that nothing was removed from: a baseline holds     *)
(* when the records up to its frontier derive the same baseline again.      *)
PrefixSelectable(log, frontier, checkpoint) ==
    checkpoint = 0 \/ (checkpoint <= frontier /\ checkpoint \in PositionsIn(log))

TransactionsMatch(log, baseline) == Transactions(log) = baseline.entries
PagesMatch(log, store, baseline) ==
    /\ Derivable(baseline.entries, log, baseline.frontier, {}, store)
    /\ PageStates(baseline.entries, log, {}, store) = baseline.pages
ReplayMatches(baseline) ==
    ReplayStart(baseline.entries, baseline.pages, baseline.frontier) = baseline.replay

(* Defect: the transactions are believed, only the pages are looked at.     *)
BaselineHoldsOfPages(log, frontier, store, baseline) ==
    LET prefix == Prefix(log, baseline.frontier) IN
    /\ PrefixSelectable(log, frontier, baseline.frontier)
    /\ \A p \in DOMAIN baseline.pages : store[p] = baseline.pages[p].stored
BaselineHolds(log, frontier, store, baseline) ==
    LET prefix == Prefix(log, baseline.frontier) IN
    /\ PrefixSelectable(log, frontier, baseline.frontier)
    /\ Analyzable(prefix, baseline.frontier)
    /\ TransactionsMatch(prefix, baseline)
    /\ PagesMatch(prefix, store, baseline)
    /\ ReplayMatches(baseline)
============================================================================
