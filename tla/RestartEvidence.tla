--------------------------- MODULE RestartEvidence ---------------------------
(***************************************************************************)
(* When the evidence of a restart is accepted again, proved for every      *)
(* value of the constants: a checkpoint is refused only because a page     *)
(* moved, nothing is refused once pages are repaired, a clean close leaves *)
(* nothing to recover and its candidate is valid on reopen, and a clean    *)
(* reopen of a reclaimed log finds nothing to recover.                     *)
(*                                                                         *)
(* The argument: the tables, images and windows that the checks compare    *)
(* are all functions of ends or prefixes of one history, so they differ    *)
(* only where the page store does.                                         *)
(***************************************************************************)
EXTENDS RestartSafety

----------------------------------------------------------------------------
(* Tables.                                                                  *)

\* The pages of a transaction lie between its first and its last one, and are
\* at most as many as there are positions between.
LEMMA OwnedExtent ==
    ASSUME NEW n \in Nat, NEW O \in SUBSET (1 .. n)
    PROVE  /\ Cardinality(O) \in Nat
           /\ O = {} => Cardinality(O) = 0 /\ Earliest(O) = 0 /\ Latest(O) = 0
           /\ O # {} =>
                /\ Earliest(O) \in O /\ Latest(O) \in O
                /\ \A q \in O : Earliest(O) <= q /\ q <= Latest(O)
                /\ Cardinality(O) > 0
                /\ Cardinality(O) = 1 <=> Earliest(O) = Latest(O)
                /\ Cardinality(O) <= Latest(O) - Earliest(O) + 1
<1>1. IsFiniteSet(O) /\ Cardinality(O) \in Nat
  <2>1. IsFiniteSet(1 .. n)
    BY FS_Interval
  <2>2. IsFiniteSet(O)
    BY <2>1, FS_Subset
  <2> QED
    BY <2>2, FS_CardinalityType
<1>2. O \in SUBSET Nat /\ O \in SUBSET (0 .. n)
  OBVIOUS
<1>3. CASE O = {}
  BY <1>1, <1>2, <1>3, EarliestIsFirst, LatestIsLast, FS_EmptySet
<1>4. CASE O # {}
  <2>1. /\ Earliest(O) \in O /\ Latest(O) \in O
        /\ \A q \in O : Earliest(O) <= q /\ q <= Latest(O)
    BY <1>2, <1>4, EarliestIsFirst, LatestIsLast DEF IsEarliest, IsLatest
  <2>2. PICK a \in Nat, z \in Nat : a = Earliest(O) /\ z = Latest(O)
    BY <1>2, <2>1
  <2>3. Cardinality(O) # 0
    BY <1>1, <1>4, FS_EmptySet
  <2>4. Cardinality(O) = 1 <=> a = z
    <3>1. Cardinality(O) = 1 <=> \E x : O = {x}
      BY <1>1, FS_Singleton
    <3>2. a = z => O = {a}
      <4>1. \A q \in O : q \in Nat /\ a <= q /\ q <= z
        BY <1>2, <2>1, <2>2
      <4>2. a = z => \A q \in O : q = a
        BY <4>1
      <4> QED
        BY <2>1, <2>2, <4>2
    <3>3. (\E x : O = {x}) => a = z
      BY <2>1, <2>2
    <3> QED
      BY <3>1, <3>2, <3>3
  <2>5. Cardinality(O) <= z - a + 1
    <3>1. O \in SUBSET (a .. z) /\ a <= z
      BY <1>2, <2>1, <2>2
    <3>2. IsFiniteSet(a .. z) /\ Cardinality(a .. z) = z - a + 1
      BY <3>1, FS_Interval
    <3> QED
      BY <3>1, <3>2, FS_Subset
  <2> QED
    BY <1>1, <1>4, <2>1, <2>2, <2>3, <2>4, <2>5
<1> QED
  BY <1>1, <1>3, <1>4

\* An entry over records up to n has the shape that is asked of a loaded one,
\* and agrees with each of its records.
LEMMA EntryShaped ==
    ASSUME TypeInv, HistoryInv, NEW S \in SUBSET history, NEW n \in Nat, Within(S, n),
           NEW t \in OwnersIn(S)
    PROVE  /\ EntryShape(Entry(S, t), n)
           /\ \A r \in S : r.kind = "TransactionPage" /\ r.by = t =>
                /\ Between(r.at, Entry(S, t).first, Entry(S, t).last)
                /\ Entry(S, t).commit # 0 => r.at < Entry(S, t).commit
           /\ \A r \in S : r.kind = "Commit" /\ r.by = t => Entry(S, t).commit = r.at
<1> DEFINE O == OwnedPages(S, t)
           e == Entry(S, t)
<1>1. \A r \in S : r.at \in 1 .. n /\ r \in history
  BY RecordFacts DEF Within
<1>2. O \in SUBSET (1 .. n)
  BY <1>1 DEF OwnedPages
<1>3. e.first = Earliest(O) /\ e.last = Latest(O) /\ e.count = Cardinality(O)
  BY DEF Entry
<1>4. \A q \in O : \E r \in S : r.at = q /\ r.kind = "TransactionPage" /\ r.by = t
  BY DEF OwnedPages
<1>5. \A r \in S : r.kind = "TransactionPage" /\ r.by = t => r.at \in O
  BY DEF OwnedPages
<1>6. \A c \in S : c.kind = "Commit" /\ c.by = t => e.commit = c.at
  BY CommitOf
<1>7. e.commit # 0 => \E c \in S : c.kind = "Commit" /\ c.by = t /\ c.at = e.commit
  BY EntryFacts
<1>8. e.commit = 0 => O # {}
  <2>1. PICK r \in S : r.by = t /\ r.kind # "Page"
    BY TableFacts
  <2>2. e.commit = 0 => r.kind # "Commit"
    BY <2>1, EntryFacts
  <2> QED
    BY <1>5, <2>1, <2>2, RecordFacts DEF Within
<1> HIDE DEF O, e
<1>9. /\ Cardinality(O) \in Nat
      /\ O = {} => Cardinality(O) = 0 /\ Earliest(O) = 0 /\ Latest(O) = 0
      /\ O # {} =>
           /\ Earliest(O) \in O /\ Latest(O) \in O
           /\ \A q \in O : Earliest(O) <= q /\ q <= Latest(O)
           /\ Cardinality(O) > 0
           /\ Cardinality(O) = 1 <=> Earliest(O) = Latest(O)
           /\ Cardinality(O) <= Latest(O) - Earliest(O) + 1
  BY <1>2, OwnedExtent
<1>10. \A q \in O : q \in 1 .. n /\ (e.commit # 0 => q < e.commit)
  <2> SUFFICES ASSUME NEW q \in O PROVE q \in 1 .. n /\ (e.commit # 0 => q < e.commit)
    OBVIOUS
  <2>1. PICK r \in S : r.at = q /\ r.kind = "TransactionPage" /\ r.by = t
    BY <1>4
  <2>2. e.commit # 0 => q < e.commit
    <3> SUFFICES ASSUME e.commit # 0 PROVE q < e.commit
      OBVIOUS
    <3>1. PICK c \in S : c.kind = "Commit" /\ c.by = t /\ c.at = e.commit
      BY <1>7
    <3>2. r.at <= c.at /\ r.at # c.at
      BY <1>1, <2>1, <3>1 DEF HistoryInv
    <3> QED
      BY <1>1, <2>1, <3>1, <3>2
  <2> QED
    BY <1>1, <2>1, <2>2
<1>11. e.commit # 0 => e.commit \in 1 .. n
  BY <1>1, <1>7
<1>12. EntryShape(e, n)
  <2>1. CASE O = {}
    <3>1. e.first = 0 /\ e.last = 0 /\ e.count = 0 /\ e.commit # 0
      BY <1>3, <1>8, <1>9, <2>1
    <3> QED
      BY <1>11, <3>1 DEF EntryShape, Bounded
  <2>2. CASE O # {}
    <3>1. /\ e.first \in O /\ e.last \in O /\ e.count # 0 /\ e.count > 0
          /\ e.count = 1 <=> e.first = e.last
          /\ e.count <= e.last - e.first + 1
      BY <1>3, <1>9, <2>2
    <3>2. /\ e.first \in 1 .. n /\ e.last \in 1 .. n
          /\ e.commit # 0 => e.last < e.commit
      BY <1>10, <3>1
    <3> QED
      BY <1>11, <3>1, <3>2 DEF EntryShape, Bounded
  <2> QED
    BY <2>1, <2>2
<1>13. \A q \in O : e.first <= q /\ q <= e.last
  BY <1>3, <1>9
<1> QED
  BY <1>5, <1>6, <1>10, <1>12, <1>13 DEF e, Between

\* The table of now agrees with every record of the log, and with itself.
LEMMA NowShaped ==
    ASSUME TypeInv, HistoryInv, LogInv, AnchorInv, NEW b, BaselineTrue(b),
           generation # 0 => anchor = {b}, NEW E, E = EntriesNow(b)
    PROVE  /\ \A t \in DOMAIN E : EntryShape(E[t], highWater) /\ t[1] <= epoch
           /\ \A r \in log : r.kind = "TransactionPage" =>
                /\ r.by \in DOMAIN E
                /\ Between(r.at, E[r.by].first, E[r.by].last)
                /\ E[r.by].commit # 0 => r.at < E[r.by].commit
           /\ \A r \in log : r.kind = "Commit" => r.by \in DOMAIN E /\ E[r.by].commit = r.at
<1> DEFINE S == Tabled(b)
<1>1. E = Transactions(S) /\ S \in SUBSET history /\ log \subseteq S
  BY NowTable
<1>2. Within(S, highWater) /\ highWater \in Nat
  BY <1>1, HistoryWithin, WithinParts DEF TypeInv
<1> HIDE DEF S
<1>3. /\ DOMAIN E = OwnersIn(S)
      /\ \A t \in OwnersIn(S) : E[t] = Entry(S, t)
      /\ \A t : t \in OwnersIn(S) <=> \E r \in S : r.by = t /\ r.kind # "Page"
  BY <1>1, <1>2, TableFacts
<1>4. \A t \in OwnersIn(S) : t[1] <= epoch
  BY <1>1, <1>3 DEF HistoryInv
<1> QED
  BY <1>1, <1>2, <1>3, <1>4, EntryShaped

----------------------------------------------------------------------------
(* Clean close.                                                             *)

\* The parts of the baseline of now.
LEMMA CurrentParts ==
    ASSUME NEW b, b = TheBaseline, NEW E, E = EntriesNow(b), NEW selected, selected = PagesOfCheckpoint
    PROVE  /\ CurrentBaseline.frontier = highWater /\ CurrentBaseline.entries = E
           /\ CurrentBaseline.pages = PageStates(E, log, selected, store)
           /\ CurrentBaseline.replay = ReplayStart(E, PageStates(E, log, selected, store), highWater)
           /\ DOMAIN CurrentBaseline.pages = PagesIn(log) \cup selected
           /\ \A p \in PagesIn(log) \cup selected :
                CurrentBaseline.pages[p] = PageState(RequiredImage(E, log, p), store[p])
  BY DEF CurrentBaseline, Derived, PageStates, Inventory

\* A log whose pages all show what it requires has nothing left to recover: a
\* page that it does not name was current before its records were removed.
LEMMA NothingLeft ==
    ASSUME IInv, phase = "Analyzed", BaselineClean(CurrentBaseline)
    PROVE  NothingToRecover
<1>0. PICK b, E, selected : b = TheBaseline /\ E = EntriesNow(b) /\ selected = PagesOfCheckpoint
  OBVIOUS
<1>1. BaselineTrue(b) /\ Knows(E)
  BY <1>0, HeldBaseline DEF WithBaseline, Live
<1>2. /\ Unresolved(E) = {}
      /\ \A p \in PagesIn(log) \cup selected :
           PageState(RequiredImage(E, log, p), store[p]).state = "StoreCurrent"
  BY <1>0, CurrentParts DEF BaselineClean
<1>3. ASSUME NEW r \in history, r.kind = "TransactionPage"
      PROVE  DurablyCommitted(r.by)
  <2> SUFFICES ASSUME ~DurablyCommitted(r.by) PROVE FALSE
    OBVIOUS
  <2>1. r.by \in Unresolved(Ever) /\ Ever[r.by].commit = 0
    BY <1>3, EverFacts DEF IInv
  <2>2. r.by \in Unresolved(E)
    BY <1>1, <2>1 DEF Knows, Unresolved
  <2> QED
    BY <1>2, <2>2
<1>4. ASSUME NEW p \in Pages
      PROVE  store[p] = CommittedAt(p)
  <2>1. CASE p \in PagesIn(log) \cup selected
    <3> DEFINE image == RequiredImage(E, log, p)
    <3>1. image # NoImage /\ store[p] = image.at
      BY <1>2, <2>1 DEF PageState
    <3>2. PICK r \in log : r.page = p /\ Shown(r) /\ r.at = image.at
      BY <1>1, <3>1, RequiredNow DEF IInv
    <3>3. r \in history /\ CommittedAt(p) # 0 /\ r.at <= CommittedAt(p)
      BY <3>2, CommittedAtFacts DEF IInv, TypeInv
    <3>4. PICK c \in history : c.at = CommittedAt(p)
      BY <3>3, CommittedAtFacts DEF IInv
    <3>5. CommittedAt(p) \in PositionsIn(log)
      BY <3>3, <3>4 DEF IInv, LogInv, PositionsIn
    <3>6. image.at = CommittedAt(p)
      BY <1>1, <3>3, <3>5, RequiredNow DEF IInv
    <3> QED
      BY <3>1, <3>6
  <2>2. CASE p \notin PagesIn(log)
    <3> SUFFICES ASSUME store[p] # CommittedAt(p) PROVE FALSE
      OBVIOUS
    <3>1. CommittedAt(p) = 0 \/ CommittedAt(p) \in PositionsIn(log)
      BY NeededRetained DEF NeededRecordsRetained
    <3>2. CASE CommittedAt(p) = 0
      <4>1. PICK r \in history : r.at = store[p] /\ r.page = p /\ Shown(r)
        BY <3>2 DEF IInv, StoreShowsCommitted
      <4> QED
        BY <3>2, <4>1, CommittedAtFacts DEF IInv
    <3>3. CASE CommittedAt(p) # 0
      <4>1. PICK r \in log : r.at = CommittedAt(p)
        BY <3>1, <3>3 DEF PositionsIn
      <4>2. r.page = p
        BY <3>3, <4>1, RecordOfCommitted DEF IInv, TypeInv
      <4> QED
        BY <2>2, <4>1, <4>2, PagesAssumption DEF PagesIn
    <3> QED
      BY <3>2, <3>3
  <2> QED
    BY <2>1, <2>2
<1> QED
  BY <1>3, <1>4 DEF NothingToRecover

\* The required image is that of a record.
LEMMA RequiredRecord ==
    ASSUME NEW S, NEW n, Within(S, n), NEW entries, NEW p,
           RequiredImage(entries, S, p) # NoImage
    PROVE  \E r \in S : /\ r.page = p /\ Installable(entries, r)
                        /\ RequiredImage(entries, S, p) = Image(entries, r)
<1> DEFINE images == {r \in S : r.page = p /\ Installable(entries, r)}
<1>1. images # {}
  BY DEF RequiredImage
<1>2. Within(images, n)
  BY WithinParts
<1>3. \E r \in images : IsLatest(r.at, PositionsIn(images))
  <2>1. PositionsIn(images) \in SUBSET (0 .. n) /\ n \in Nat
    BY <1>2, PositionsBounded DEF Within
  <2>2. PositionsIn(images) # {}
    BY <1>1 DEF PositionsIn
  <2>3. \E q \in PositionsIn(images) : IsLatest(q, PositionsIn(images))
    BY <2>1, <2>2, LatestExists
  <2> QED
    BY <2>3 DEF PositionsIn
<1>4. RequiredImage(entries, S, p)
          = Image(entries, CHOOSE r \in images : IsLatest(r.at, PositionsIn(images)))
  BY <1>1 DEF RequiredImage
<1> QED
  BY <1>3, <1>4

\* A complete log derives the candidate of a clean close again.
LEMMA CompleteReopens ==
    ASSUME IInv, phase = "Analyzed", generation = 0, CurrentDerivable,
           NEW c, c = CurrentBaseline
    PROVE  BaselineHolds(log, highWater, store, c)
<1>0. PICK b, E, selected : b = TheBaseline /\ E = EntriesNow(b) /\ selected = PagesOfCheckpoint
  OBVIOUS
<1>1. /\ c.frontier = highWater /\ c.entries = E
      /\ c.pages = PageStates(E, log, selected, store)
      /\ c.replay = ReplayStart(E, PageStates(E, log, selected, store), highWater)
  BY <1>0, CurrentParts
<1>2. selected = {} /\ E = Transactions(log)
  BY <1>0 DEF PagesOfCheckpoint, EntriesNow
<1>3. /\ Analyzable(log, highWater)
      /\ Derivable(E, log, highWater, selected, store)
  BY <1>0 DEF CurrentDerivable, Plannable
<1>4. Within(log, highWater)
  BY HistoryWithin DEF IInv
<1>5. Prefix(log, c.frontier) = log
  BY <1>1, <1>4 DEF Prefix, Within
<1>6. highWater = 0 \/ highWater \in PositionsIn(log)
  <2>1. highWater = Latest(PositionsIn(log))
    BY <1>3 DEF Analyzable
  <2> QED
    BY <1>4, <2>1, LastOf DEF PositionsIn
<1>7. PrefixSelectable(log, highWater, c.frontier)
  BY <1>1, <1>4, <1>6 DEF PrefixSelectable, Within
<1>8. /\ TransactionsMatch(log, c) /\ PagesMatch(log, store, c) /\ ReplayMatches(c)
  BY <1>1, <1>2, <1>3 DEF TransactionsMatch, PagesMatch, ReplayMatches
<1> QED
  BY <1>1, <1>3, <1>5, <1>7, <1>8 DEF BaselineHolds

\* A table advanced by nothing is the same.
LEMMA AdvancedByNothing ==
    ASSUME NEW c, NEW S, NEW n, Within(S, n), c.frontier = n,
           c.entries = [t \in DOMAIN c.entries |-> c.entries[t]]
    PROVE  Advanced(c, S) = c.entries
<1>1. S \ Prefix(S, c.frontier) = {}
  BY DEF Prefix, Within
<1>2. DOMAIN Transactions({}) = {}
  BY DEF Transactions, OwnersIn
<1> QED
  BY <1>1, <1>2 DEF Advanced

\* What the checks of a reclaimed log ask of the candidate of a clean close.
LEMMA PrunedReopens ==
    ASSUME IInv, phase = "Analyzed", generation # 0, CurrentDerivable,
           BaselineClean(CurrentBaseline), CleanMetadata(CurrentBaseline, Metadata),
           NEW c, c = CurrentBaseline
    PROVE  PrunedReopenValid(Metadata, log, c, store)
<1>0. PICK b, E, selected : b = TheBaseline /\ E = EntriesNow(b) /\ selected = PagesOfCheckpoint
  OBVIOUS
<1>1. /\ c.frontier = highWater /\ c.entries = E
      /\ c.pages = PageStates(E, log, selected, store)
      /\ c.replay = ReplayStart(E, PageStates(E, log, selected, store), highWater)
      /\ DOMAIN c.pages = PagesIn(log) \cup selected
      /\ \A p \in DOMAIN c.pages : c.pages[p] = PageState(RequiredImage(E, log, p), store[p])
  BY <1>0, CurrentParts
<1>2. /\ MetadataValid(Metadata, b.frontier)
      /\ RetainedInOrder(log, Metadata, b.frontier)
      /\ Derivable(E, log, highWater, selected, store)
  BY <1>0 DEF CurrentDerivable, Plannable, PlanningMetadataValid, AnchoredPlannable
<1>3. /\ Within(log, highWater) /\ highWater \in Nat
      /\ \A r \in log : r.at \in Nat \ {0}
  BY HistoryWithin, RecordFacts DEF IInv, TypeInv, Within
<1>4. BaselineTrue(b) /\ (generation # 0 => anchor = {b}) /\ Knows(E)
  BY <1>0, HeldBaseline DEF WithBaseline, Live
<1>5. /\ \A t \in DOMAIN E : EntryShape(E[t], highWater) /\ t[1] <= epoch
      /\ \A r \in log : r.kind = "TransactionPage" =>
           /\ r.by \in DOMAIN E
           /\ Between(r.at, E[r.by].first, E[r.by].last)
           /\ E[r.by].commit # 0 => r.at < E[r.by].commit
      /\ \A r \in log : r.kind = "Commit" => r.by \in DOMAIN E /\ E[r.by].commit = r.at
  BY <1>0, <1>4, NowShaped DEF IInv
<1>6. ASSUME NEW p \in DOMAIN c.pages
      PROVE  /\ c.pages[p].state = "StoreCurrent"
             /\ c.pages[p].required = RequiredImage(E, log, p) /\ c.pages[p].stored = store[p]
             /\ c.pages[p].required # NoImage /\ store[p] = c.pages[p].required.at
             /\ \E r \in log : /\ r.page = p /\ Installable(E, r)
                               /\ c.pages[p].required = Image(E, r)
  <2>1. c.pages[p].state = "StoreCurrent"
    BY DEF BaselineClean
  <2>2. c.pages[p] = PageState(RequiredImage(E, log, p), store[p])
    BY <1>1
  <2>3. RequiredImage(E, log, p) # NoImage /\ store[p] = RequiredImage(E, log, p).at
    BY <2>1, <2>2 DEF PageState
  <2>4. \E r \in log : r.page = p /\ Installable(E, r) /\ RequiredImage(E, log, p) = Image(E, r)
    BY <1>3, <2>3, RequiredRecord
  <2> QED
    BY <2>1, <2>2, <2>3, <2>4 DEF PageState
<1>7. MetadataValid(Metadata, 0) /\ RetainedInOrder(log, Metadata, 0)
  BY <1>2 DEF MetadataValid, RetainedInOrder
<1>8. ASSUME NEW p \in DOMAIN c.pages
      PROVE  PageShape(c.pages[p], E, highWater)
  <2>1. PICK r \in log : r.page = p /\ Installable(E, r) /\ c.pages[p].required = Image(E, r)
    BY <1>6
  <2> DEFINE image == Image(E, r)
  <2>2. image.at = r.at /\ image.by = r.by
        /\ (r.by # NoOwner => image.commit = E[r.by].commit)
    BY DEF Image
  <2>3. r.by # NoOwner => r.kind = "TransactionPage" /\ E[r.by].commit # 0
    <3>1. r.kind = "Page" => r.by = NoOwner
      BY <1>3, RecordFacts DEF Within
    <3> QED
      BY <2>1, <3>1 DEF Installable, Committed
  <2>4. r.by # NoOwner => Bounded(E[r.by].commit, highWater)
    BY <1>5, <2>3 DEF EntryShape
  <2>5. Bounded(r.at, highWater)
    BY <1>3 DEF Bounded, Within
  <2>6. ImageShape(image, E, highWater)
    BY <1>5, <2>2, <2>3, <2>4, <2>5 DEF ImageShape
  <2>7. /\ c.pages[p].required = image /\ c.pages[p].stored = r.at
        /\ c.pages[p].state = "StoreCurrent" /\ c.pages[p].required # NoImage
        /\ c.pages[p].required.at = r.at
    BY <1>6, <2>1, <2>2
  <2> HIDE DEF image
  <2> QED
    BY <2>5, <2>6, <2>7 DEF PageShape
<1>9. BaselineShape(c, Metadata)
  BY <1>1, <1>5, <1>8 DEF BaselineShape, Metadata
<1>10. SuffixApplies(c, log)
  BY <1>1, <1>3, <1>5 DEF SuffixApplies, Within, CheckpointedPageMatches, CheckpointedCommitMatches
<1>11. Advanced(c, log) = E
  <2>1. E = [t \in DOMAIN E |-> E[t]]
    BY <1>0, <1>4, NowTable DEF IInv, Transactions
  <2> QED
    BY <1>1, <1>3, <2>1, AdvancedByNothing
<1>12. RetainedPageCovered(E, log, c)
  <2> SUFFICES ASSUME NEW r \in log, Installable(E, r)
               PROVE  r.page \in DOMAIN c.pages /\ c.pages[r.page].required.at >= r.at
    BY DEF RetainedPageCovered
  <2>1. r.page # 0
    BY <1>3, RecordFacts, PagesAssumption DEF Installable, Within
  <2>2. r.page \in DOMAIN c.pages
    BY <1>1, <2>1 DEF PagesIn
  <2>3. r.at <= RequiredImage(E, log, r.page).at
    BY <1>3, RequiredFacts
  <2> QED
    BY <1>6, <2>2, <2>3
<1>13. ASSUME NEW p \in DOMAIN c.pages
       PROVE  /\ RequiredImageRetained(log, p, c.pages[p].required, Metadata)
              /\ CurrentPageKept(E, log, c.frontier, p, c.pages[p], store[p], Metadata)
  <2>1. PICK r \in log : r.page = p /\ Installable(E, r) /\ c.pages[p].required = Image(E, r)
    BY <1>6
  <2>2. Image(E, r).at = r.at /\ Image(E, r).by = r.by
    BY DEF Image
  <2>3. SnapshotBacked(E, log, highWater, p, store[p])
    BY <1>3, <1>6, <2>1, <2>2 DEF SnapshotBacked, Within
  <2> QED
    BY <1>1, <1>6, <2>1, <2>2, <2>3 DEF RequiredImageRetained, CurrentPageKept
<1> QED
  BY <1>1, <1>7, <1>9, <1>10, <1>11, <1>12, <1>13
     DEF PrunedReopenValid, PrunedPagesValid, Metadata

----------------------------------------------------------------------------
(* Selection and planning.                                                  *)

\* What a published baseline is made of.
LEMMA PublishedParts ==
    ASSUME TypeInv, HistoryInv, NEW b, PublishedTrue(b), NEW P, P = Prefix(history, b.frontier)
    PROVE  /\ b.entries = Transactions(P) /\ DOMAIN b.pages = PagesIn(P)
           /\ b.replay = ReplayStart(b.entries, b.pages, b.frontier)
           /\ b.pages = [p \in PagesIn(P) |->
                           PageState(RequiredImage(b.entries, P, p), b.pages[p].stored)]
           /\ Analyzable(P, b.frontier)
           /\ \A t \in Unresolved(b.entries) : b.entries[t].first # 0
           /\ \A p \in PagesIn(P) : b.pages[p].stored # 0 =>
                /\ SnapshotBacked(b.entries, P, b.frontier, p, b.pages[p].stored)
                /\ RequiredImage(b.entries, P, p) # NoImage
                /\ b.pages[p].stored <= RequiredImage(b.entries, P, p).at
<1>1. b = Completeness(P, b.frontier, StoredBy(b)) /\ CompleteAnalyzable(P, b.frontier, StoredBy(b))
  BY DEF PublishedTrue
<1>2. PICK T, e, q, f : T = Transactions(P) /\ e = b.entries /\ q = b.pages /\ f = b.frontier
  OBVIOUS
<1>3. /\ e = T /\ q = PageStates(T, P, {}, StoredBy(b))
      /\ b.replay = ReplayStart(T, PageStates(T, P, {}, StoredBy(b)), f)
  <2>1. /\ Completeness(P, f, StoredBy(b)).entries = T
        /\ Completeness(P, f, StoredBy(b)).pages = PageStates(T, P, {}, StoredBy(b))
        /\ Completeness(P, f, StoredBy(b)).replay = ReplayStart(T, PageStates(T, P, {}, StoredBy(b)), f)
    BY <1>2 DEF Completeness, Derived
  <2> QED
    BY <1>1, <1>2, <2>1
<1>4. DOMAIN q = PagesIn(P)
  BY <1>3 DEF PageStates, Inventory
<1>5. \A p \in PagesIn(P) : StoredBy(b)[p] = q[p].stored
  BY <1>2, <1>4 DEF StoredBy
<1>6. q = [p \in PagesIn(P) |-> PageState(RequiredImage(T, P, p), q[p].stored)]
  BY <1>3, <1>5 DEF PageStates, Inventory
<1>7. Analyzable(P, f) /\ Derivable(T, P, f, {}, StoredBy(b))
  BY <1>1, <1>2 DEF CompleteAnalyzable
<1>8. /\ \A t \in Unresolved(T) : T[t].first # 0
      /\ \A p \in PagesIn(P) : q[p].stored # 0 =>
           /\ SnapshotBacked(T, P, f, p, q[p].stored)
           /\ RequiredImage(T, P, p) # NoImage
           /\ q[p].stored <= RequiredImage(T, P, p).at
  BY <1>5, <1>7 DEF Derivable, Inventory
<1> QED
  BY <1>2, <1>3, <1>4, <1>6, <1>7, <1>8

\* A checkpoint, and the start of its window, stand at a record or at none.
LEMMA ReplayAtRecord ==
    ASSUME TypeInv, HistoryInv, NEW b, PublishedTrue(b)
    PROVE  /\ b.frontier = 0 \/ b.frontier \in PositionsIn(history)
           /\ WindowSelectable(history, b.replay)
           /\ b.replay.kind = "AtPosition" => b.replay.at \in PositionsIn(history)
<1>0. PICK P : P = Prefix(history, b.frontier)
  OBVIOUS
<1>1. /\ b.entries = Transactions(P) /\ DOMAIN b.pages = PagesIn(P)
      /\ b.replay = ReplayStart(b.entries, b.pages, b.frontier)
      /\ b.pages = [p \in PagesIn(P) |->
                      PageState(RequiredImage(b.entries, P, p), b.pages[p].stored)]
      /\ Analyzable(P, b.frontier)
  BY <1>0, PublishedParts
<1>2. P \subseteq history /\ Within(P, highWater)
  BY <1>0, HistoryWithin, WithinParts DEF Prefix
<1>3. b.frontier = 0 \/ b.frontier \in PositionsIn(history)
  <2>1. b.frontier = Latest(PositionsIn(P))
    BY <1>1 DEF Analyzable
  <2> QED
    BY <1>2, <2>1, LastOf DEF PositionsIn
<1>4. \A t \in Unresolved(b.entries) : b.entries[t].first \in PositionsIn(history)
  <2> SUFFICES ASSUME NEW t \in Unresolved(b.entries)
               PROVE  b.entries[t].first \in PositionsIn(history)
    OBVIOUS
  <2>1. t \in OwnersIn(P) /\ b.entries[t] = Entry(P, t) /\ Entry(P, t).commit = 0
    BY <1>1, <1>2, TableFacts DEF Unresolved
  <2>2. PICK r \in P : r.by = t /\ r.kind # "Page"
    BY <1>2, <2>1, TableFacts
  <2>3. r.kind = "TransactionPage"
    <3>1. r.kind # "Commit"
      BY <1>2, <2>1, <2>2, EntryFacts
    <3> QED
      BY <1>2, <2>2, <3>1, RecordFacts DEF Within
  <2>4. \E x \in P : x.at = Entry(P, t).first
    BY <1>2, <2>2, <2>3, EntryFacts
  <2> QED
    BY <1>2, <2>1, <2>4 DEF PositionsIn
<1>5. \A p \in DOMAIN b.pages : Lagging(b.pages[p]) =>
        b.pages[p].required.at \in PositionsIn(history)
  <2> SUFFICES ASSUME NEW p \in DOMAIN b.pages, Lagging(b.pages[p])
               PROVE  b.pages[p].required.at \in PositionsIn(history)
    OBVIOUS
  <2>1. b.pages[p] = PageState(RequiredImage(b.entries, P, p), b.pages[p].stored)
    BY <1>1
  <2>2. /\ b.pages[p].required = RequiredImage(b.entries, P, p)
        /\ RequiredImage(b.entries, P, p) # NoImage
    BY <2>1 DEF PageState, Lagging
  <2> QED
    BY <1>2, <2>2, RequiredFacts DEF PositionsIn
<1> DEFINE floor == {b.entries[t].first : t \in Unresolved(b.entries)}
                       \cup {b.pages[p].required.at : p \in {q \in DOMAIN b.pages : Lagging(b.pages[q])}}
<1>6. b.replay = IF floor = {} THEN [kind |-> "AfterFrontier", at |-> b.frontier]
                 ELSE [kind |-> "AtPosition", at |-> Earliest(floor)]
  BY <1>1 DEF ReplayStart
<1>7. floor \subseteq PositionsIn(history)
  BY <1>4, <1>5
<1> HIDE DEF floor
<1>8. floor # {} => Earliest(floor) \in floor
  <2>1. PositionsIn(history) \in SUBSET Nat
    BY HistoryWithin, PositionsBounded
  <2> QED
    BY <1>7, <2>1, EarliestIsFirst DEF IsEarliest
<1> QED
  BY <1>3, <1>6, <1>7, <1>8 DEF WindowSelectable

\* A complete log accepts a published checkpoint whose pages show what they did.
LEMMA CompleteAccepts ==
    ASSUME IInv, log = history, NEW b, BaselineTrue(b), PublishedTrue(b),
           \A p \in DOMAIN b.pages : store[p] = b.pages[p].stored
    PROVE  BaselineHolds(log, highWater, store, b)
<1>0. PICK P : P = Prefix(history, b.frontier)
  OBVIOUS
<1>1. /\ b.entries = Transactions(P) /\ DOMAIN b.pages = PagesIn(P)
      /\ b.replay = ReplayStart(b.entries, b.pages, b.frontier)
      /\ b.pages = [p \in PagesIn(P) |->
                      PageState(RequiredImage(b.entries, P, p), b.pages[p].stored)]
      /\ Analyzable(P, b.frontier)
      /\ \A t \in Unresolved(b.entries) : b.entries[t].first # 0
      /\ \A p \in PagesIn(P) : b.pages[p].stored # 0 =>
           /\ SnapshotBacked(b.entries, P, b.frontier, p, b.pages[p].stored)
           /\ RequiredImage(b.entries, P, p) # NoImage
           /\ b.pages[p].stored <= RequiredImage(b.entries, P, p).at
  BY <1>0, PublishedParts DEF IInv
<1>2. PrefixSelectable(log, highWater, b.frontier)
  BY ReplayAtRecord DEF PrefixSelectable, IInv, BaselineTrue
<1>3. PageStates(b.entries, P, {}, store) = b.pages
  BY <1>1 DEF PageStates, Inventory
<1>4. Derivable(b.entries, P, b.frontier, {}, store)
  BY <1>1 DEF Derivable, Inventory
<1> QED
  BY <1>0, <1>1, <1>2, <1>3, <1>4
     DEF BaselineHolds, TransactionsMatch, PagesMatch, ReplayMatches

\* The parts of a baseline that refer to one another do so as is asked of a
\* loaded one.
LEMMA PublishedShaped ==
    ASSUME TypeInv, HistoryInv, NEW b, b.frontier \in Nat, PublishedTrue(b)
    PROVE  BaselineShape(b, Metadata)
<1>0. PICK P, E, f : P = Prefix(history, b.frontier) /\ E = b.entries /\ f = b.frontier
  OBVIOUS
<1>1. /\ E = Transactions(P) /\ DOMAIN b.pages = PagesIn(P)
      /\ b.replay = ReplayStart(E, b.pages, f)
      /\ b.pages = [p \in PagesIn(P) |-> PageState(RequiredImage(E, P, p), b.pages[p].stored)]
      /\ \A p \in PagesIn(P) : b.pages[p].stored # 0 =>
           /\ SnapshotBacked(E, P, f, p, b.pages[p].stored)
           /\ RequiredImage(E, P, p) # NoImage
           /\ b.pages[p].stored <= RequiredImage(E, P, p).at
  BY <1>0, PublishedParts
<1>2. P \in SUBSET history /\ Within(P, f) /\ f \in Nat
  BY <1>0, HistoryWithin DEF Prefix, Within
<1>3. /\ DOMAIN E = OwnersIn(P)
      /\ \A t \in OwnersIn(P) : E[t] = Entry(P, t)
      /\ \A t : t \in OwnersIn(P) <=> \E r \in P : r.by = t /\ r.kind # "Page"
  BY <1>1, <1>2, TableFacts
<1>4. \A t \in DOMAIN E : EntryShape(E[t], f) /\ t[1] <= epoch
  <2> SUFFICES ASSUME NEW t \in OwnersIn(P) PROVE EntryShape(E[t], f) /\ t[1] <= epoch
    BY <1>3
  <2>1. EntryShape(Entry(P, t), f)
    BY <1>2, EntryShaped
  <2> QED
    BY <1>2, <1>3, <2>1 DEF HistoryInv
<1>5. ASSUME NEW p \in PagesIn(P)
      PROVE  PageShape(b.pages[p], E, f)
  <2> DEFINE image == RequiredImage(E, P, p)
             stored == b.pages[p].stored
  <2>1. b.pages[p] = PageState(image, stored)
    BY <1>1
  <2>2. /\ stored # 0 => /\ stored <= f /\ stored \in PositionsIn(P)
                         /\ image # NoImage /\ stored <= image.at
        /\ \A r \in P : r.at \in Nat \ {0}
    BY <1>1, <1>2, RecordFacts DEF SnapshotBacked, PositionsIn, Within
  <2>3. image # NoImage =>
            ImageShape(image, E, f) /\ image.at \in Nat \ {0}
    <3> SUFFICES ASSUME image # NoImage
                 PROVE  ImageShape(image, E, f) /\ image.at \in Nat \ {0}
      OBVIOUS
    <3>1. PICK r \in P : Installable(E, r) /\ image = Image(E, r)
      BY <1>2, RequiredRecord
    <3>2. /\ image.at = r.at /\ image.by = r.by
          /\ r.by # NoOwner => image.commit = E[r.by].commit
      BY <3>1 DEF Image
    <3>3. r.by # NoOwner => /\ r.kind = "TransactionPage" /\ r.by \in DOMAIN E
                            /\ E[r.by].commit # 0
      <4>1. r.kind = "Page" => r.by = NoOwner
        BY <1>2, RecordFacts DEF Within
      <4> QED
        BY <3>1, <4>1 DEF Installable, Committed
    <3>4. r.by # NoOwner =>
            /\ Between(r.at, E[r.by].first, E[r.by].last) /\ r.at < E[r.by].commit
            /\ Bounded(E[r.by].commit, f)
      <4> SUFFICES ASSUME r.by # NoOwner
                   PROVE  /\ Between(r.at, E[r.by].first, E[r.by].last) /\ r.at < E[r.by].commit
                          /\ Bounded(E[r.by].commit, f)
        OBVIOUS
      <4>1. r.by \in OwnersIn(P) /\ E[r.by] = Entry(P, r.by)
        BY <1>3, <3>3
      <4>2. /\ Between(r.at, Entry(P, r.by).first, Entry(P, r.by).last)
            /\ Entry(P, r.by).commit # 0 => r.at < Entry(P, r.by).commit
        BY <1>2, <3>3, <4>1, EntryShaped
      <4>3. Bounded(E[r.by].commit, f)
        BY <1>4, <3>3 DEF EntryShape
      <4> QED
        BY <3>3, <4>1, <4>2, <4>3
    <3>5. Bounded(r.at, f)
      BY <1>2, <2>2 DEF Bounded, Within
    <3> HIDE DEF image
    <3>6. ImageShape(image, E, f)
      BY <3>2, <3>3, <3>4, <3>5 DEF ImageShape
    <3> QED
      BY <2>2, <3>2, <3>6
  <2> HIDE DEF image, stored
  <2>4. /\ b.pages[p].required = image /\ b.pages[p].stored = stored
        /\ b.pages[p].state = IF image = NoImage THEN "NoRequiredImage"
                              ELSE IF stored = 0 THEN "StoreMissing"
                              ELSE IF stored = image.at THEN "StoreCurrent" ELSE "StoreBehind"
    BY <2>1 DEF PageState
  <2>5. stored # 0 => stored \in Nat
    BY <2>2 DEF PositionsIn
  <2>6. stored # 0 => Bounded(stored, f)
    BY <2>2 DEF Bounded
  <2>7. CASE image = NoImage
    BY <2>2, <2>4, <2>6, <2>7 DEF PageShape
  <2>8. CASE image # NoImage /\ stored = 0
    BY <2>3, <2>4, <2>8 DEF PageShape
  <2>9. CASE image # NoImage /\ stored # 0 /\ stored = image.at
    BY <2>3, <2>4, <2>6, <2>9 DEF PageShape
  <2>10. CASE image # NoImage /\ stored # 0 /\ stored # image.at
    BY <2>2, <2>3, <2>4, <2>5, <2>6, <2>10 DEF PageShape
  <2> QED
    BY <2>7, <2>8, <2>9, <2>10
<1> QED
  BY <1>0, <1>1, <1>4, <1>5 DEF BaselineShape, Metadata

\* The retained records continue the anchored checkpoint.
LEMMA SuffixContinues ==
    ASSUME TypeInv, HistoryInv, NEW b, BaselineTrue(b)
    PROVE  SuffixApplies(b, log)
<1>0. PICK P, E, f : P = Prefix(history, b.frontier) /\ E = b.entries /\ f = b.frontier
  OBVIOUS
<1>1. /\ E = Transactions(P) /\ P \in SUBSET history /\ f \in Nat
      /\ \A r \in history : r.at <= f => r \in P
      /\ \A r \in P : r.at <= f
      /\ \A r \in history : r.at \in Nat
  BY <1>0, HistoryWithin, RecordFacts DEF BaselineTrue, Prefix, TypeInv, Within
<1>2. Within(P, f)
  BY <1>1, HistoryWithin DEF Within
<1>3. /\ DOMAIN E = OwnersIn(P)
      /\ \A t \in OwnersIn(P) : E[t] = Entry(P, t)
      /\ \A t : t \in OwnersIn(P) <=> \E r \in P : r.by = t /\ r.kind # "Page"
  BY <1>1, <1>2, TableFacts
<1>4. ASSUME NEW r \in log, r.at <= f
      PROVE  /\ r.kind = "TransactionPage" => CheckpointedPageMatches(E, r)
             /\ r.kind = "Commit" => CheckpointedCommitMatches(E, r)
  <2>1. r \in P
    BY <1>1, <1>4 DEF TypeInv
  <2>2. r.kind # "Page" => r.by \in OwnersIn(P) /\ E[r.by] = Entry(P, r.by) /\ r.by \in DOMAIN E
    BY <1>3, <2>1
  <2>3. /\ r.kind = "TransactionPage" => Between(r.at, Entry(P, r.by).first, Entry(P, r.by).last)
        /\ r.kind = "Commit" => Entry(P, r.by).commit = r.at
    BY <1>1, <1>2, <2>1, <2>2, EntryShaped
  <2> QED
    BY <2>2, <2>3 DEF CheckpointedPageMatches, CheckpointedCommitMatches
<1>5. ASSUME NEW r \in log, r.at > f, r.kind # "Page"
      PROVE  ~Committed(E, r.by)
  <2> SUFFICES ASSUME Committed(E, r.by) PROVE FALSE
    OBVIOUS
  <2>1. Entry(P, r.by).commit # 0
    BY <1>3 DEF Committed
  <2>2. PICK c \in P : c.kind = "Commit" /\ c.by = r.by
    BY <1>2, <2>1, EntryFacts
  <2>3. r.at <= c.at /\ c.at <= f /\ r \in history
    BY <1>1, <2>2 DEF HistoryInv, TypeInv
  <2> QED
    BY <1>1, <1>5, <2>2, <2>3
<1>6. \A r, c \in log : c.kind = "Commit" /\ c.by = r.by => r.at <= c.at
  BY DEF HistoryInv, TypeInv
<1>7. \A r \in log : r.at \in Nat
  BY <1>1 DEF TypeInv
<1>8. ASSUME NEW r \in log
      PROVE  IF r.at <= f
             THEN CASE r.kind = "TransactionPage" -> CheckpointedPageMatches(E, r)
                    [] r.kind = "Commit" -> CheckpointedCommitMatches(E, r)
                    [] OTHER -> TRUE
             ELSE r.kind # "Page" =>
                    /\ ~Committed(E, r.by)
                    /\ \A c \in log : c.kind = "Commit" /\ c.by = r.by => r.at <= c.at
  <2>1. CASE r.at <= f
    BY <1>4, <2>1
  <2>2. CASE ~(r.at <= f)
    BY <1>1, <1>5, <1>6, <1>7, <2>2
  <2> QED
    BY <2>1, <2>2
<1> QED
  BY <1>0, <1>8 DEF SuffixApplies

\* A position of the history at or above the anchored frontier is in the log.
LEMMA FrontierRetained ==
    ASSUME IInv, NEW b, b \in anchor \/ log = history, PublishedTrue(b)
    PROVE  b.frontier # 0 => b.frontier \in PositionsIn(log)
<1> SUFFICES ASSUME b.frontier # 0
             PROVE  b.frontier \in PositionsIn(log)
  OBVIOUS
<1>1. PICK r \in history : r.at = b.frontier
  BY ReplayAtRecord DEF IInv, PositionsIn
<1>2. r.at >= b.frontier
  BY <1>1, HistoryWithin, RecordFacts DEF IInv, Within
<1>3. r \in log
  BY <1>2 DEF IInv, AnchorInv
<1> QED
  BY <1>1, <1>3 DEF PositionsIn

\* The log ends at the high water.
LEMMA LogEnds ==
    ASSUME IInv, RecordsInv
    PROVE  /\ log # {} => highWater = Latest(PositionsIn(log))
           /\ log = history => highWater = Latest(PositionsIn(log))
<1>1. Within(log, highWater) /\ Within(history, highWater) /\ log \subseteq history
  BY HistoryWithin DEF IInv, TypeInv
<1>2. \A r \in history : r.at \in Nat \ {0} /\ r.at <= highWater
  BY <1>1, RecordFacts DEF Within
<1>3. CASE highWater = 0
  <2>1. history = {} /\ log = {}
    BY <1>1, <1>2, <1>3
  <2> QED
    BY <1>1, <1>3, <2>1, LastOf
<1>4. CASE highWater # 0
  <2>1. PICK r \in history : r.at = highWater
    BY <1>4 DEF RecordsInv, PositionsIn
  <2>2. \A s \in log : s.at <= r.at
    BY <1>1, <1>2, <2>1
  <2>3. log # {} \/ log = history => r \in log
    BY <2>1, <2>2 DEF IInv, LogInv
  <2>4. r \in log => highWater = Latest(PositionsIn(log))
    <3> SUFFICES ASSUME r \in log PROVE highWater = Latest(PositionsIn(log))
      OBVIOUS
    <3>1. PICK s \in log : s.at = Latest(PositionsIn(log))
      BY <1>1, LastOf
    <3>2. r.at <= s.at
      BY <1>1, <3>1, LastOf
    <3> QED
      BY <1>1, <1>2, <2>1, <2>2, <3>1, <3>2
  <2> QED
    BY <2>3, <2>4
<1> QED
  BY <1>3, <1>4

\* A complete log can be analyzed.
LEMMA CompleteAnalyzes ==
    ASSUME IInv, RecordsInv, log = history
    PROVE  Analyzable(log, highWater)
  BY LogEnds DEF Analyzable, IInv, HistoryInv

\* A reclaimed log accepts the checkpoint that it is anchored to, whatever the
\* page store shows.
LEMMA AnchoredAccepts ==
    ASSUME IInv, RecordsInv, generation # 0, NEW b, anchor = {b}, PublishedTrue(b),
           WindowSelectable(log, b.replay)
    PROVE  AnchoredSelectable(b) /\ Plannable(b)
<1>1. BaselineTrue(b) /\ BaselineShape(b, Metadata)
  BY PublishedShaped DEF IInv, AnchorInv, BaselineTrue
<1>2. Within(log, highWater) /\ log \subseteq history /\ highWater \in Nat
  BY HistoryWithin DEF IInv, TypeInv
<1>3. \A r \in log : r.at \in Nat \ {0} /\ r.at <= highWater
  BY <1>2, RecordFacts DEF Within
<1>4. PICK first : first = Earliest(PositionsIn(log))
  OBVIOUS
<1>5. first # 0 => first <= highWater
  <2>1. first # 0 => \E r \in log : r.at = first
    BY <1>2, <1>4, FirstOf
  <2> QED
    BY <1>3, <2>1
<1>6. b.frontier # 0 => b.frontier \in PositionsIn(log)
  BY FrontierRetained
<1>7. b.frontier # 0 => b.frontier <= highWater /\ first <= b.frontier
  <2>1. b.frontier # 0 => \E r \in log : r.at = b.frontier
    BY <1>6 DEF PositionsIn
  <2> QED
    BY <1>2, <1>3, <1>4, <2>1, FirstOf
<1>8. MetadataValid(Metadata, b.frontier)
  BY <1>4, <1>5, <1>7 DEF MetadataValid, Metadata
<1>9. RetainedInOrder(log, Metadata, b.frontier)
  <2>1. \A r \in log : r.at # 0 /\ r.by[1] <= epoch
    BY <1>2, <1>3 DEF IInv, HistoryInv
  <2>2. \A r, s \in log : r.at = s.at => r = s
    BY <1>2 DEF IInv, HistoryInv
  <2> QED
    BY <1>6, <2>1, <2>2, LogEnds DEF RetainedInOrder, Metadata
<1>10. SuffixApplies(b, log)
  BY <1>1, SuffixContinues DEF IInv
<1>11. \A t \in DOMAIN b.entries : t[1] <= Metadata.epoch
  BY <1>1 DEF BaselineShape
<1>12. Metadata.generation = generation /\ Metadata.anchor = {b}
  BY DEF Metadata
<1> QED
  BY <1>1, <1>8, <1>9, <1>10, <1>11, <1>12
     DEF AnchoredSelectable, Anchored, Plannable, PlanningMetadataValid, AnchoredPlannable

\* Whatever has been selected plans.
LEMMA HeldPlannable ==
    ASSUME IInv, RecordsInv, SelectionInv, phase \in {"Selected"} \cup Restarting
    PROVE  Plannable(TheBaseline)
<1>1. held.baseline = {TheBaseline} /\ slot = held.baseline
  BY HeldBaseline DEF SelectionInv, WithBaseline
<1>2. CASE generation = 0
  BY <1>2, CompleteAnalyzes DEF Plannable, IInv, LogInv
<1>3. CASE generation # 0
  BY <1>1, <1>3, AnchoredAccepts DEF SelectionInv
<1> QED
  BY <1>2, <1>3

\* A complete log also compares the page store when it plans.
LEMMA SelectedPlans ==
    ASSUME IInv, RecordsInv, generation = 0, NEW b, BaselineTrue(b), PublishedTrue(b),
           \A p \in DOMAIN b.pages : store[p] = b.pages[p].stored
    PROVE  SelectedPlannable(log, highWater, store, b)
<1>1. log = history
  BY DEF IInv, LogInv
<1> QED
  BY <1>1, CompleteAccepts, CompleteAnalyzes, ReplayAtRecord DEF SelectedPlannable, IInv

----------------------------------------------------------------------------
(* Preparation.                                                             *)

\* Replay knows the transaction of every record, and meets its commit.
LEMMA ReplayRecordsNow ==
    ASSUME IInv, NEW b, BaselineTrue(b), generation # 0 => anchor = {b},
           NEW E, E = EntriesNow(b), NEW plan, plan = Plan(E, log, highWater, b)
    PROVE  ReplayRecordsKnown(plan)
<1>1. plan.window = Window(log, b.replay) /\ plan.entries = E
  BY DEF Plan
<1>2. plan.window \subseteq log /\ Within(log, highWater) /\ log \subseteq history
  BY <1>1, HistoryWithin DEF Window, IInv, TypeInv
<1>3. E = Transactions(Tabled(b)) /\ Tabled(b) \in SUBSET history
  BY NowTable DEF IInv
<1>4. Within(Tabled(b), highWater)
  BY <1>3, HistoryWithin, WithinParts DEF IInv
<1>5. SUFFICES ASSUME NEW r \in plan.window, r.kind = "TransactionPage"
               PROVE  r.by \in DOMAIN E /\ (Committed(E, r.by) => CommitFollows(plan, r))
  BY <1>1 DEF ReplayRecordsKnown
<1>6. r.by \in DOMAIN E /\ (E[r.by].commit # 0 => r.at < E[r.by].commit)
  BY <1>2, <1>5, NowShaped DEF IInv
<1>7. SUFFICES ASSUME Committed(E, r.by) PROVE CommitFollows(plan, r)
  BY <1>6
<1>8. E[r.by] = Entry(Tabled(b), r.by) /\ E[r.by].commit # 0
  BY <1>3, <1>4, <1>6, <1>7, TableFacts DEF Committed
<1>9. PICK c \in Tabled(b) : c.kind = "Commit" /\ c.by = r.by /\ c.at = E[r.by].commit
  BY <1>4, <1>8, EntryFacts
<1>10. r.at \in Nat /\ c.at \in Nat /\ r.at < c.at
  BY <1>2, <1>3, <1>4, <1>6, <1>8, <1>9, RecordFacts DEF Within
<1>11. c \in log
  BY <1>2, <1>3, <1>10 DEF IInv, LogInv
<1>12. c \in plan.window
  <2>1. b.replay.at \in Nat
    BY ReplayFacts DEF IInv
  <2> QED
    BY <1>1, <1>2, <1>5, <1>10, <1>11, <2>1, WindowIsEnd
<1> QED
  BY <1>1, <1>9, <1>10, <1>12 DEF CommitFollows

\* The image that a published baseline wants for a lagging page is replayed.
LEMMA WantedReplayed ==
    ASSUME IInv, NEW b, BaselineTrue(b), generation # 0 => anchor = {b}, PublishedTrue(b),
           WindowSelectable(log, b.replay),
           NEW E, E = EntriesNow(b), NEW plan, plan = Plan(E, log, highWater, b)
    PROVE  DirtyImagesOwned(plan, b)
<1>0. PICK P : P = Prefix(history, b.frontier)
  OBVIOUS
<1>1. plan.window = Window(log, b.replay) /\ plan.entries = E
  BY DEF Plan
<1>2. /\ P \in SUBSET history /\ Within(P, highWater) /\ log \subseteq history
      /\ b.entries = Transactions(P)
  BY <1>0, HistoryWithin, WithinParts DEF Prefix, IInv, TypeInv, BaselineTrue
<1>3. SUFFICES ASSUME NEW p \in DOMAIN b.pages, Lagging(b.pages[p])
               PROVE  DirtyImageOwned(plan, p, b.pages[p].required)
  BY DEF DirtyImagesOwned
<1>4. b.pages[p] = PageState(RequiredImage(b.entries, P, p), b.pages[p].stored)
  BY <1>0, <1>3 DEF BaselineTrue
<1>5. /\ b.pages[p].required = RequiredImage(b.entries, P, p)
      /\ RequiredImage(b.entries, P, p) # NoImage
  BY <1>3, <1>4 DEF PageState, Lagging
<1>6. PICK r \in P : /\ r.page = p /\ Installable(b.entries, r)
                     /\ b.pages[p].required = Image(b.entries, r)
  BY <1>2, <1>5, RequiredRecord
<1>7. b.pages[p].required.at = r.at /\ b.pages[p].required.by = r.by
  BY <1>6 DEF Image
<1>8. r.at \in Nat \ {0}
  BY <1>2, RecordFacts DEF Within
<1>9. b.replay.kind = "AtPosition" /\ b.replay.at <= r.at /\ b.replay.at \in Nat
  BY <1>3, <1>7, ReplayFacts DEF IInv
<1>10. b.replay.at # 0
  <2>1. PICK s \in history : s.at = b.replay.at
    BY <1>9, ReplayAtRecord DEF IInv, PositionsIn
  <2> QED
    BY <2>1, RecordFacts DEF IInv, TypeInv
<1>11. r \in log
  <2>1. PICK s \in log : s.at = b.replay.at
    BY <1>10 DEF WindowSelectable, PositionsIn
  <2> QED
    BY <1>2, <1>9, <2>1 DEF IInv, LogInv
<1>12. r \in plan.window
  BY <1>1, <1>9, <1>11 DEF Window
<1>13. Installable(E, r)
  <2>1. Shown(r)
    BY <1>0, <1>6, ShownThen DEF IInv
  <2> QED
    BY <1>11, <2>1, NowKnows, ShownNow DEF IInv
<1>14. Image(E, r) = Image(b.entries, r)
  <2> SUFFICES ASSUME r.by # NoOwner PROVE E[r.by].commit = b.entries[r.by].commit
    BY DEF Image
  <2>1. r.by \in DOMAIN b.entries /\ b.entries[r.by].commit # 0
    <3>1. r.kind = "Page" => r.by = NoOwner
      BY <1>2, RecordFacts DEF Within
    <3> QED
      BY <1>6, <3>1 DEF Installable, Committed
  <2>2. b.entries[r.by] = Entry(P, r.by)
    BY <1>2, <2>1, TableFacts
  <2>3. PICK c \in P : c.kind = "Commit" /\ c.by = r.by /\ c.at = b.entries[r.by].commit
    BY <1>2, <2>1, <2>2, EntryFacts
  <2>4. r.at <= c.at
    BY <1>2, <2>3 DEF IInv, HistoryInv
  <2>5. c \in log
    BY <1>2, <1>11, <2>4 DEF IInv, LogInv
  <2>6. E[c.by].commit = c.at
    BY <2>3, <2>5, NowShaped DEF IInv
  <2> QED
    BY <2>3, <2>6
<1> QED
  BY <1>1, <1>6, <1>7, <1>12, <1>13, <1>14 DEF DirtyImageOwned

\* An image in the store is that of a record that a restart may install.
LEMMA StoredBacked ==
    ASSUME IInv, RecordsInv, NEW E, Knows(E), NEW p \in Pages, store[p] # 0
    PROVE  /\ \E r \in log : r.at = store[p] /\ r.page = p /\ Installable(E, r)
           /\ \A r \in log : r.at = store[p] => r.page = p /\ Installable(E, r)
<1>1. PICK r \in history : r.at = store[p] /\ r.page = p /\ Shown(r)
  BY DEF IInv, StoreShowsCommitted
<1>2. PICK s \in log : s.at = store[p]
  BY DEF RecordsInv, PositionsIn
<1>3. \A x \in log : x.at = store[p] => x = r
  BY <1>1 DEF IInv, HistoryInv, TypeInv
<1>4. r \in log /\ Installable(E, r)
  BY <1>1, <1>2, <1>3, ShownNow DEF IInv
<1> QED
  BY <1>1, <1>3, <1>4

\* No page of the window is refused while the pages that the checkpoint
\* describes show what they did.
LEMMA PageResolves ==
    ASSUME IInv, RecordsInv, NEW b, BaselineTrue(b), generation # 0 => anchor = {b},
           PublishedTrue(b), WindowSelectable(log, b.replay),
           \A q \in DOMAIN b.pages : store[q] = b.pages[q].stored,
           NEW E, E = EntriesNow(b), NEW plan, plan = Plan(E, log, highWater, b),
           NEW p \in PagesIn(plan.window)
    PROVE  Resolvable(plan, b, p, store[p])
<1>0. PICK P, current : P = Prefix(history, b.frontier) /\ current = store[p]
  OBVIOUS
<1>1. plan.window = Window(log, b.replay) /\ plan.entries = E
  BY DEF Plan
<1>2. /\ plan.window \subseteq log /\ Within(log, highWater) /\ Within(plan.window, highWater)
      /\ Knows(E)
  BY <1>1, HistoryWithin, WithinParts, NowKnows DEF Window, IInv
<1>3. p \in Pages /\ current \in Nat
  <2>1. PICK r \in plan.window : r.page = p /\ p # 0
    BY DEF PagesIn
  <2> QED
    BY <1>0, <1>2, <2>1, RecordFacts DEF Within, IInv, TypeInv
<1>4. /\ b.frontier \in Nat /\ b.replay.at \in Nat /\ b.replay.at <= b.frontier
  BY ReplayFacts DEF IInv
<1>5. PICK target : target = Target(plan, p)
  OBVIOUS
<1>6. \A r \in plan.window : r.page = p /\ Installable(E, r) => target # NoImage /\ r.at <= target.at
  BY <1>1, <1>2, <1>5, RequiredFacts DEF Target
<1>7. target # NoImage => target.at \in Nat \ {0}
  <2>1. target # NoImage => \E r \in plan.window : r.at = target.at
    BY <1>1, <1>2, <1>5, RequiredFacts DEF Target
  <2> QED
    BY <1>2, <2>1, RecordFacts DEF Within
<1>8. current # 0 =>
        /\ \E r \in log : r.at = current /\ r.page = p /\ Installable(E, r)
        /\ \A r \in log : r.at = current => r.page = p /\ Installable(E, r)
  BY <1>0, <1>2, <1>3, StoredBacked
<1>9. current # 0 => (OwnedAt(plan, p, current) => ReplayBacked(plan, p, current))
  BY <1>1, <1>2, <1>8 DEF OwnedAt, ReplayBacked
<1>10. ASSUME p \notin DOMAIN b.pages, current # 0
       PROVE  ReplayBacked(plan, p, current) /\ target # NoImage /\ current <= target.at
  <2>1. PICK r \in log : r.at = current /\ r.page = p /\ Installable(E, r)
    BY <1>8, <1>10
  <2>2. DOMAIN b.pages = PagesIn(P)
    BY <1>0, PublishedParts DEF IInv
  <2>3. r \notin P
    BY <1>3, <1>10, <2>1, <2>2, PagesAssumption DEF PagesIn
  <2>4. r.at > b.frontier
    BY <1>0, <1>3, <1>4, <2>1, <2>3 DEF Prefix, IInv, TypeInv
  <2>5. r \in plan.window
    BY <1>1, <1>3, <1>4, <2>1, <2>4 DEF Window
  <2> QED
    BY <1>1, <1>6, <2>1, <2>5 DEF ReplayBacked
<1> DEFINE known == b.pages[p]
<1>11. ASSUME p \in DOMAIN b.pages
       PROVE  /\ known = PageState(known.required, current)
              /\ current # 0 => /\ known.required # NoImage /\ current <= known.required.at
                                /\ known.required.at \in Nat
              /\ known.required # NoImage => known.required.at \in Nat
              /\ Lagging(known) => target # NoImage /\ known.required.at <= target.at
  <2>1. /\ b.pages[p] = PageState(RequiredImage(b.entries, P, p), b.pages[p].stored)
        /\ b.pages[p].stored # 0 =>
             /\ RequiredImage(b.entries, P, p) # NoImage
             /\ b.pages[p].stored <= RequiredImage(b.entries, P, p).at
    <3>1. DOMAIN b.pages = PagesIn(P)
      BY <1>0, PublishedParts DEF IInv
    <3>2. /\ b.pages = [q \in PagesIn(P) |->
                          PageState(RequiredImage(b.entries, P, q), b.pages[q].stored)]
          /\ \A q \in PagesIn(P) : b.pages[q].stored # 0 =>
               /\ RequiredImage(b.entries, P, q) # NoImage
               /\ b.pages[q].stored <= RequiredImage(b.entries, P, q).at
      BY <1>0, PublishedParts DEF IInv
    <3>3. b.pages[p] = PageState(RequiredImage(b.entries, P, p), b.pages[p].stored)
      BY <1>11, <3>1, <3>2
    <3> QED
      BY <1>11, <3>1, <3>2, <3>3
  <2>2. b.pages[p].stored = current
    BY <1>0, <1>11
  <2>3. known.required = RequiredImage(b.entries, P, p)
    BY <2>1 DEF PageState
  <2>4. RequiredImage(b.entries, P, p) # NoImage => RequiredImage(b.entries, P, p).at \in Nat
    BY <1>0, RequiredThen DEF IInv
  <2>5. Lagging(known) => target # NoImage /\ known.required.at <= target.at
    <3> SUFFICES ASSUME Lagging(known) PROVE target # NoImage /\ known.required.at <= target.at
      OBVIOUS
    <3>1. PICK r \in plan.window : /\ r.at = known.required.at /\ r.page = p
                                   /\ Installable(plan.entries, r)
      BY <1>11, WantedReplayed DEF DirtyImagesOwned, DirtyImageOwned
    <3> QED
      BY <1>1, <1>6, <3>1
  <2> QED
    BY <2>1, <2>2, <2>3, <2>4, <2>5
<1> HIDE DEF known
<1>12. PICK required, state : required = known.required /\ state = known.state
  OBVIOUS
<1>13. p \in DOMAIN b.pages =>
         state = IF required = NoImage THEN "NoRequiredImage"
                 ELSE IF current = 0 THEN "StoreMissing"
                 ELSE IF current = required.at THEN "StoreCurrent" ELSE "StoreBehind"
  BY <1>11, <1>12 DEF PageState
<1>14. UnchangedSinceCheckpoint(plan, b, p) <=>
         p \in DOMAIN b.pages /\ state = "StoreCurrent" /\ target.at <= required.at
  BY <1>5, <1>12 DEF UnchangedSinceCheckpoint, known
<1>15. SourceAsExpected(b, p, current)
  BY <1>0 DEF SourceAsExpected, SourceExpectation
<1>16. SourceExpectation(b, p).kind = "SuffixOnly" <=> p \notin DOMAIN b.pages
  BY DEF SourceExpectation
<1>17. ASSUME p \in DOMAIN b.pages, ~UnchangedSinceCheckpoint(plan, b, p), current # 0
       PROVE  target # NoImage /\ current <= target.at
  <2>1. /\ required # NoImage /\ current <= required.at /\ required.at \in Nat
        /\ state = "StoreCurrent" \/ state = "StoreBehind"
    BY <1>11, <1>12, <1>13, <1>17
  <2>2. CASE state = "StoreCurrent"
    <3>1. ~(target.at <= required.at)
      BY <1>14, <1>17, <2>2
    <3>2. target # NoImage
      BY <2>1, <3>1 DEF NoImage
    <3> QED
      BY <1>3, <1>7, <2>1, <3>1, <3>2
  <2>3. CASE state = "StoreBehind"
    <3>1. target # NoImage /\ required.at <= target.at
      BY <1>11, <1>12, <1>17, <2>3 DEF Lagging
    <3> QED
      BY <1>3, <1>7, <2>1, <3>1
  <2> QED
    BY <2>1, <2>2, <2>3
<1>18. CASE UnchangedSinceCheckpoint(plan, b, p)
  <2>1. current # 0
    BY <1>13, <1>14, <1>18
  <2> QED
    BY <1>0, <1>9, <1>15, <1>18, <2>1 DEF Resolvable
<1>19. CASE ~UnchangedSinceCheckpoint(plan, b, p) /\ target = NoImage
  <2>1. current = 0
    BY <1>10, <1>17, <1>19
  <2> QED
    BY <1>0, <1>5, <1>15, <1>19, <2>1 DEF Resolvable
<1>20. CASE ~UnchangedSinceCheckpoint(plan, b, p) /\ target # NoImage
  <2>1. current <= target.at
    BY <1>3, <1>7, <1>10, <1>17, <1>20
  <2>2. current \notin {0, target.at} =>
          IF SourceExpectation(b, p).kind = "SuffixOnly" THEN ReplayBacked(plan, p, current)
          ELSE OwnedAt(plan, p, current) => ReplayBacked(plan, p, current)
    BY <1>9, <1>10, <1>16
  <2> QED
    BY <1>0, <1>5, <1>15, <1>20, <2>1, <2>2 DEF Resolvable
<1> QED
  BY <1>18, <1>19, <1>20

\* So preparation only refuses a checkpoint one of whose pages moved.
LEMMA PreparableNow ==
    ASSUME IInv, RecordsInv, NEW b, BaselineTrue(b), generation # 0 => anchor = {b},
           PublishedTrue(b), WindowSelectable(log, b.replay),
           \A q \in DOMAIN b.pages : store[q] = b.pages[q].stored,
           NEW E, E = EntriesNow(b), NEW plan, plan = Plan(E, log, highWater, b)
    PROVE  Preparable(plan, b, store)
<1>1. ReplayRecordsKnown(plan) /\ DirtyImagesOwned(plan, b)
  BY ReplayRecordsNow, WantedReplayed
<1>2. \A p \in PagesIn(plan.window) : Resolvable(plan, b, p, store[p])
  BY PageResolves
<1> QED
  BY <1>1, <1>2 DEF Preparable

----------------------------------------------------------------------------
(* Restoration and completion.                                              *)

\* The first position of an entry is that of one of its records.
LEMMA FirstPositionFacts ==
    ASSUME NEW S, NEW n, Within(S, n), NEW t \in OwnersIn(S)
    PROVE  /\ FirstPosition(Entry(S, t)) \in Nat \ {0}
           /\ \E r \in S : r.by = t /\ r.kind # "Page" /\ r.at = FirstPosition(Entry(S, t))
<1>1. PICK e : e = Entry(S, t)
  OBVIOUS
<1>2. PICK r \in S : r.by = t /\ r.kind # "Page"
  BY TableFacts
<1>3. \A s \in S : s.at \in Nat \ {0} /\ s.kind \in {"Page", "TransactionPage", "Commit"}
  BY RecordFacts DEF Within
<1>4. e.commit # 0 => \E c \in S : c.kind = "Commit" /\ c.by = t /\ c.at = e.commit
  BY <1>1, EntryFacts
<1>5. e.commit = 0 => r.kind = "TransactionPage"
  BY <1>1, <1>2, <1>3, EntryFacts
<1>6. r.kind = "TransactionPage" =>
        /\ e.first # 0
        /\ \E x \in S : x.kind = "TransactionPage" /\ x.by = t /\ x.at = e.first
  BY <1>1, <1>2, EntryFacts
<1>7. e.first # 0 => \E x \in S : x.kind = "TransactionPage" /\ x.by = t /\ x.at = e.first
  <2> DEFINE O == OwnedPages(S, t)
  <2>1. O \in SUBSET (0 .. n) /\ n \in Nat /\ O \in SUBSET Nat
    BY RecordFacts DEF OwnedPages, Within
  <2>2. e.first = Earliest(O)
    BY <1>1 DEF Entry
  <2>3. \A q \in O : \E x \in S : x.kind = "TransactionPage" /\ x.by = t /\ x.at = q
    BY DEF OwnedPages
  <2> HIDE DEF O
  <2>4. CASE O = {}
    BY <2>2, <2>4 DEF Earliest
  <2>5. CASE O # {}
    BY <2>1, <2>2, <2>3, <2>5, EarliestIsFirst DEF IsEarliest
  <2> QED
    BY <2>4, <2>5
<1> DEFINE both == {e.first, e.commit} \ {0}
<1>8. both # {} /\ both \in SUBSET Nat
  BY <1>3, <1>4, <1>5, <1>6, <1>7
<1>9. Earliest(both) \in both
  BY <1>8, EarliestIsFirst DEF IsEarliest
<1>10. FirstPosition(e) = Earliest(both)
  BY DEF FirstPosition
<1> HIDE DEF both
<1>11. FirstPosition(e) \in {e.first, e.commit} \ {0}
  BY <1>9, <1>10 DEF both
<1> QED
  BY <1>1, <1>3, <1>4, <1>7, <1>11

\* The entry of now continues that of the baseline.
LEMMA EntryContinues ==
    ASSUME TypeInv, HistoryInv, NEW f \in Nat, NEW P, P = Prefix(history, f),
           NEW t \in OwnersIn(P)
    PROVE  /\ Entry(P, t).commit # 0 => CommittedStays(Entry(P, t), Entry(history, t))
           /\ Entry(P, t).commit = 0 => UnresolvedContinues(Entry(P, t), Entry(history, t), f)
<1> DEFINE X == history \ P
<1>1. Within(history, highWater) /\ P \in SUBSET history /\ X \in SUBSET history
  BY HistoryWithin DEF Prefix
<1>2. /\ \A r \in history : r.at \in Nat \ {0}
      /\ \A r \in P : r.at <= f
      /\ \A r \in X : r.at > f
  BY <1>1, RecordFacts DEF Prefix, Within
<1>3. \A r \in history : r.by = t /\ r.at > f => r \in X
  BY <1>2
<1>4. Within(P, highWater) /\ Within(X, highWater)
  BY <1>1, WithinParts
<1> HIDE DEF X
<1>5. PICK before, after, whole :
        before = Entry(P, t) /\ after = Entry(X, t) /\ whole = Entry(history, t)
  OBVIOUS
<1>6. /\ whole.commit = IF after.commit = 0 THEN before.commit ELSE after.commit
      /\ whole.first = IF before.first = 0 THEN after.first ELSE before.first
      /\ whole.last = IF after.last = 0 THEN before.last ELSE after.last
      /\ whole.count = before.count + after.count
      /\ (\A r \in X : r.by # t) => whole = before
  BY <1>1, <1>2, <1>3, <1>5, EntrySplit
<1>7. CASE before.commit # 0
  <2>1. PICK c \in P : c.kind = "Commit" /\ c.by = t
    BY <1>4, <1>5, <1>7, EntryFacts
  <2>2. \A r \in X : r.by # t
    <3> SUFFICES ASSUME NEW r \in X, r.by = t PROVE FALSE
      OBVIOUS
    <3>1. r.at <= c.at
      BY <1>1, <2>1 DEF HistoryInv
    <3> QED
      BY <1>1, <1>2, <2>1, <3>1
  <2> QED
    BY <1>5, <1>6, <1>7, <2>2 DEF CommittedStays
<1>8. CASE before.commit = 0
  <2>1. before.first # 0
    <3>1. PICK r \in P : r.by = t /\ r.kind # "Page"
      BY <1>4, TableFacts
    <3>2. r.kind = "TransactionPage"
      <4>1. r.kind # "Commit"
        BY <1>4, <1>5, <1>8, <3>1, EntryFacts
      <4> QED
        BY <1>1, <3>1, <4>1, RecordFacts DEF Within
    <3> QED
      BY <1>4, <1>5, <3>1, <3>2, EntryFacts
  <2> DEFINE O == OwnedPages(X, t)
             Q == OwnedPages(P, t)
  <2>2. O \in SUBSET (1 .. highWater) /\ Q \in SUBSET (1 .. highWater) /\ highWater \in Nat
    BY <1>4, RecordFacts DEF OwnedPages, Within
  <2>3. \A q \in O : q # 0 /\ q > f
    BY <1>1, <1>2 DEF OwnedPages
  <2>4. after.last = Latest(O) /\ after.count = Cardinality(O) /\ before.count = Cardinality(Q)
    BY <1>5 DEF Entry
  <2> HIDE DEF O, Q
  <2>5. before.count \in Nat /\ after.count \in Nat
    BY <2>2, <2>4, OwnedExtent
  <2>6. O = {} => after.count = 0 /\ after.last = 0
    BY <2>2, <2>4, OwnedExtent
  <2>7. O # {} => after.count > 0 /\ after.last \in O
    BY <2>2, <2>4, OwnedExtent
  <2>8. \/ whole.count = before.count /\ whole.last = before.last
        \/ whole.count > before.count /\ whole.last > f
    <3>1. CASE O = {}
      BY <1>6, <2>5, <2>6, <3>1
    <3>2. CASE O # {}
      <4>1. after.last # 0 /\ after.last > f
        BY <2>2, <2>3, <2>7, <3>2
      <4>2. whole.last = after.last
        BY <1>6, <4>1
      <4> QED
        BY <1>6, <2>5, <2>7, <3>2, <4>1, <4>2
    <3> QED
      BY <3>1, <3>2
  <2>9. whole.commit # 0 => whole.commit > f
    <3> SUFFICES ASSUME after.commit # 0 PROVE after.commit > f
      BY <1>6, <1>8
    <3>1. \E c \in X : c.at = after.commit
      BY <1>4, <1>5, EntryFacts
    <3> QED
      BY <1>2, <3>1
  <2> QED
    BY <1>5, <1>6, <1>8, <2>1, <2>8, <2>9 DEF UnresolvedContinues
<1> QED
  BY <1>5, <1>7, <1>8

\* Restoration finds that the table of now continues that of the baseline.
LEMMA RestorationHolds ==
    ASSUME IInv, NEW b, BaselineTrue(b), generation # 0 => anchor = {b},
           NEW E, E = EntriesNow(b)
    PROVE  RestorationEvidence(b, highWater, E)
<1>0. PICK P, S, f : P = Prefix(history, b.frontier) /\ S = Tabled(b) /\ f = b.frontier
  OBVIOUS
<1>1. f \in Nat /\ f <= highWater /\ b.entries = Transactions(P)
  BY <1>0, ReplayFacts DEF IInv, BaselineTrue
<1>2. E = Transactions(S) /\ S \in SUBSET history
  BY <1>0, NowTable DEF IInv
<1>3. /\ Within(history, highWater) /\ Within(P, highWater) /\ Within(S, highWater)
      /\ P \in SUBSET history
  BY <1>0, <1>2, HistoryWithin, WithinParts DEF Prefix, IInv
<1>4. /\ DOMAIN b.entries = OwnersIn(P) /\ DOMAIN E = OwnersIn(S)
      /\ \A t \in OwnersIn(P) : b.entries[t] = Entry(P, t)
      /\ \A t \in OwnersIn(S) : E[t] = Entry(S, t)
  BY <1>1, <1>2, <1>3, TableFacts
<1>5. ASSUME NEW t \in OwnersIn(P)
      PROVE  /\ t \in OwnersIn(S) /\ S = history
  <2>1. PICK r \in P : r.by = t /\ r.kind # "Page"
    BY <1>3, TableFacts
  <2>2. f # 0
    <3>1. r.at <= f /\ r.at \in Nat \ {0}
      BY <1>0, <1>3, <2>1, RecordFacts DEF Prefix, Within
    <3> QED
      BY <1>1, <3>1
  <2>3. S = history
    BY <1>0, <2>2 DEF Tabled
  <2> QED
    BY <1>3, <2>1, <2>3, TableFacts
<1>6. ASSUME NEW t \in OwnersIn(P)
      PROVE  IF Committed(b.entries, t) THEN CommittedStays(b.entries[t], E[t])
             ELSE UnresolvedContinues(b.entries[t], E[t], f)
  <2>1. E[t] = Entry(history, t) /\ b.entries[t] = Entry(P, t) /\ t \in DOMAIN b.entries
    BY <1>4, <1>5
  <2>2. /\ Entry(P, t).commit # 0 => CommittedStays(Entry(P, t), Entry(history, t))
        /\ Entry(P, t).commit = 0 => UnresolvedContinues(Entry(P, t), Entry(history, t), f)
    BY <1>0, <1>1, EntryContinues DEF IInv
  <2> QED
    BY <2>1, <2>2 DEF Committed
<1>7. ASSUME NEW t \in OwnersIn(S), FirstPosition(E[t]) <= f
      PROVE  t \in OwnersIn(P)
  <2>1. PICK r \in S : r.by = t /\ r.kind # "Page" /\ r.at = FirstPosition(E[t])
    BY <1>3, <1>4, <1>7, FirstPositionFacts
  <2>2. r \in P
    BY <1>0, <1>2, <1>7, <2>1 DEF Prefix
  <2> QED
    BY <1>3, <2>1, <2>2, TableFacts
<1> QED
  BY <1>0, <1>1, <1>4, <1>5, <1>6, <1>7 DEF RestorationEvidence

\* The table of a plan is that of now until live work.
LEMMA PlannedRestores ==
    ASSUME IInv, phase \in Restarting
    PROVE  RestorationEvidence(TheBaseline, ThePlan.frontier, ThePlan.entries)
<1>1. PICK b, E : b = TheBaseline /\ E = EntriesNow(b)
  OBVIOUS
<1>2. BaselineTrue(b) /\ (generation # 0 => anchor = {b})
  BY <1>1, HeldBaseline DEF WithBaseline
<1>3. ThePlan.frontier = highWater /\ ThePlan.entries = E
  BY <1>1, HeldPlan DEF Plan
<1>4. RestorationEvidence(b, highWater, E)
  BY <1>1, <1>2, RestorationHolds
<1> QED
  BY <1>1, <1>3, <1>4

\* Completion finds everything as the plan had it.
LEMMA RestoredCompletes ==
    ASSUME IInv, RecordsInv, SelectionInv, CompletionInv, phase = "Restored"
    PROVE  Completable
<1>1. Plannable(TheBaseline)
  BY HeldPlannable DEF Restarting
<1>2. ThePlan.frontier = highWater /\ ThePlan.entries = EntriesNow(TheBaseline)
  BY HeldPlan DEF Plan, Restarting
<1>3. CompletionEvidence(TheBaseline, ThePlan, coordinator, highWater, EntriesNow(TheBaseline))
  BY <1>2, PlannedRestores DEF CompletionEvidence, CompletionInv, Restarting
<1>4. /\ DOMAIN held.repairs = PagesIn(ThePlan.window)
      /\ \A p \in DOMAIN held.repairs :
           IF held.repairs[p].kind = "Candidate"
           THEN held.repairs[p].target = CommittedAt(p) /\ CommittedAt(p) # 0
           ELSE held.repairs[p].from = CommittedAt(p)
      /\ RepairsDone(Pages)
  BY HeldPlan DEF IInv, HeldInv, RepairsHeld, RepairsFound, Restarting
<1>5. PagesIn(ThePlan.window) \subseteq Pages
  <2>1. ThePlan.window \subseteq log
    BY HeldPlan DEF Plan, Window, Restarting
  <2>2. \A r \in ThePlan.window : r \in Records
    BY <2>1 DEF IInv, TypeInv
  <2> QED
    BY <2>2, RecordFacts DEF PagesIn
<1>6. ASSUME NEW p \in DOMAIN held.repairs
      PROVE  OutcomeHolds(held.repairs[p], store[p])
  <2>1. store[p] = CommittedAt(p)
    BY <1>4, <1>5 DEF RepairsDone
  <2>2. held.repairs[p].kind = "AlreadyCurrent" => held.repairs[p].target = held.repairs[p].from
    BY DEF CompletionInv, Restarting
  <2> QED
    BY <1>4, <2>1, <2>2 DEF OutcomeHolds
<1> QED
  BY <1>1, <1>3, <1>6 DEF Completable

----------------------------------------------------------------------------
(* Steps that leave the records and the checkpoints as they are.            *)

\* The last committed image of a page is in the log, unless there is none.
LEMMA CommittedRetained ==
    ASSUME IInv, RecordsInv, NEW p \in Pages
    PROVE  CommittedAt(p) = 0 \/ CommittedAt(p) \in PositionsIn(log)
  BY NeededRetained DEF NeededRecordsRetained, RecordsInv

LEMMA EvidenceStep ==
    ASSUME IInv, EvidenceInv,
           UNCHANGED <<log, highWater, generation, anchor, history, slot, cleanSlot>>,
           epoch' \in Nat, epoch <= epoch', store' \in [Pages -> Nat],
           \A p \in Pages : store'[p] = store[p] \/ store'[p] \in PositionsIn(log),
           (\E b \in cleanSlot : b.frontier = highWater) => store' = store,
           phase' \in {"Restored"} \cup Live =>
               \/ coordinator'.dirty = {}
               \/ phase \in {"Restored"} \cup Live /\ coordinator'.dirty \subseteq coordinator.dirty,
           phase' \in {"Selected"} \cup Restarting => held'.baseline = slot,
           RefusedForMovedPages', CompletionInv', CleanCloseProven', PrunedCleanReopenComplete'
    PROVE  EvidenceInv'
<1>1. RecordsInv'
  BY DEF EvidenceInv, RecordsInv
<1>2. SelectionInv'
  <2>1. \A b : PublishedTrue(b)' <=> PublishedTrue(b)
    BY DEF PublishedTrue
  <2> QED
    BY <2>1 DEF EvidenceInv, SelectionInv
<1>3. CleanInv'
  <2> SUFFICES ASSUME NEW b \in cleanSlot
               PROVE  /\ b.frontier \in 0 .. highWater
                      /\ b.frontier = highWater =>
                           /\ NothingToRecover'
                           /\ phase' \in {"Restored"} \cup Live => coordinator'.dirty = {}
    BY DEF CleanInv
  <2>1. /\ b.frontier \in 0 .. highWater
        /\ b.frontier = highWater =>
             /\ NothingToRecover
             /\ phase \in {"Restored"} \cup Live => coordinator.dirty = {}
    BY DEF EvidenceInv, CleanInv
  <2>2. b.frontier = highWater => store' = store
    OBVIOUS
  <2>3. /\ \A p : CommittedAt(p)' = CommittedAt(p)
        /\ \A t : DurablyCommitted(t)' <=> DurablyCommitted(t)
    BY RecordsKept
  <2>4. b.frontier = highWater => NothingToRecover'
    BY <2>1, <2>2, <2>3 DEF NothingToRecover
  <2> QED
    BY <2>1, <2>4
<1> QED
  BY <1>1, <1>2, <1>3 DEF EvidenceInv

\* What the phases do not speak of holds.
Unspoken == {"Unchecked", "Unreadable", "Absent", "Selected", "FullRecovery", "Recovered", "Stopped",
             "Planned", "Completed", "Analyzed", "Reclaimed", "CleanRefused"}
LEMMA UnspokenHolds ==
    ASSUME phase' \in Unspoken
    PROVE  RefusedForMovedPages' /\ CompletionInv' /\ CleanCloseProven' /\ PrunedCleanReopenComplete'
  BY DEF Unspoken, RefusedForMovedPages, CompletionInv, CleanCloseProven, PrunedCleanReopenComplete,
         Restarting

LEMMA IdleEvidence ==
    ASSUME IInv, EvidenceInv,
           UNCHANGED <<log, highWater, generation, anchor, history, slot, cleanSlot, epoch, store>>,
           phase' \in Unspoken,
           phase' \in Live => phase \in {"Restored"} \cup Live /\ coordinator'.dirty = coordinator.dirty,
           phase' \in {"Selected", "Planned"} => held'.baseline = slot
    PROVE  EvidenceInv'
<1>1. epoch' \in Nat /\ epoch <= epoch' /\ store' \in [Pages -> Nat]
  BY DEF IInv, TypeInv
<1>2. /\ phase' \in {"Selected"} \cup Restarting => held'.baseline = slot
      /\ phase' # "Restored"
  BY DEF Unspoken, Restarting
<1>3. RefusedForMovedPages' /\ CompletionInv' /\ CleanCloseProven' /\ PrunedCleanReopenComplete'
  BY UnspokenHolds
<1> QED
  BY <1>1, <1>2, <1>3, EvidenceStep

LEMMA IdleTransitions ==
    ASSUME IInv, EvidenceInv,
           \/ ContinueWithFullRecovery \/ AnalyzeRestart \/ SelectAgain \/ CompleteRestart
           \/ BeginTransaction \/ AnalyzeRetention \/ Crash
           \/ \E t \in DOMAIN coordinator.lifecycles : Resolve(t)
    PROVE  EvidenceInv'
<1>1. UNCHANGED <<log, highWater, generation, anchor, history, slot, cleanSlot, epoch, store>>
  BY DEF ContinueWithFullRecovery, AnalyzeRestart, SelectAgain, CompleteRestart,
         BeginTransaction, AnalyzeRetention, Crash, Resolve, Idle, logVars, slotVars
<1>2. CASE ContinueWithFullRecovery \/ AnalyzeRestart \/ SelectAgain \/ Crash
  <2>1. phase' \in {"FullRecovery", "Recovered", "Stopped", "Unchecked"}
    BY <1>2 DEF ContinueWithFullRecovery, AnalyzeRestart, SelectAgain, Crash, To
  <2>2. phase' \in Unspoken /\ phase' \notin Live /\ phase' \notin {"Selected", "Planned"}
    BY <2>1 DEF Unspoken, Live
  <2> QED
    BY <1>1, <2>2, IdleEvidence
<1>3. CASE CompleteRestart \/ AnalyzeRetention
  <2>1. phase' \in {"Completed", "Analyzed", "Stopped"} /\ phase \in {"Restored"} \cup Live /\ coordinator' = coordinator
    BY <1>3 DEF CompleteRestart, AnalyzeRetention, To, Idle, Live
  <2>2. phase' \in Unspoken /\ phase' \notin {"Selected", "Planned"}
    BY <2>1 DEF Unspoken
  <2> QED
    BY <1>1, <2>1, <2>2, IdleEvidence
<1>4. CASE BeginTransaction \/ \E t \in DOMAIN coordinator.lifecycles : Resolve(t)
  <2>1. phase \in Live /\ phase' = phase
    BY <1>4 DEF BeginTransaction, Resolve, Idle
  <2>2. IsCoordinator(coordinator)
    BY DEF IInv, TypeInv
  <2>3. coordinator'.dirty = coordinator.dirty
    <3>1. CASE BeginTransaction
      BY <2>2, <3>1 DEF BeginTransaction, IsCoordinator
    <3>2. CASE \E t \in DOMAIN coordinator.lifecycles : Resolve(t)
      BY <2>2, <3>2 DEF Resolve, Moved, IsCoordinator
    <3> QED
      BY <1>4, <3>1, <3>2
  <2>4. phase' \in Unspoken /\ phase' \notin {"Selected", "Planned"}
    BY <2>1 DEF Unspoken, Live
  <2> QED
    BY <1>1, <2>1, <2>3, <2>4, IdleEvidence
<1> QED
  BY <1>2, <1>3, <1>4

\* Selection refuses the slot only for a page that moved: a complete log derives
\* it again, a reclaimed one is anchored to it.
LEMMA SelectEvidence ==
    ASSUME IInv, EvidenceInv, Select
    PROVE  EvidenceInv'
<1>1. /\ UNCHANGED <<log, highWater, generation, anchor, history, slot, cleanSlot, epoch, store>>
      /\ epoch' \in Nat /\ epoch <= epoch' /\ store' \in [Pages -> Nat]
  BY DEF Select, Idle, logVars, slotVars, IInv, TypeInv
<1>2. CASE phase' \in {"Unreadable", "Absent"}
  <2>1. phase' \in Unspoken /\ phase' \notin Live /\ phase' \notin {"Selected", "Planned"}
    BY <1>2 DEF Unspoken, Live
  <2> QED
    BY <1>1, <2>1, IdleEvidence
<1>3. CASE phase' \notin {"Unreadable", "Absent"}
  <2>1. PICK b \in slot :
          LET selectable == IF generation = 0 THEN BaselineHolds(log, highWater, store, b)
                            ELSE AnchoredSelectable(b)
          IN  IF selectable THEN phase' = "Selected" /\ Hold(b) ELSE phase' = "Rejected"
    BY <1>3 DEF Select, To
  <2>2. /\ BaselineTrue(b) /\ PublishedTrue(b) /\ WindowSelectable(log, b.replay)
        /\ slot = {b} /\ (generation # 0 => anchor = {b})
    BY DEF IInv, SlotInv, EvidenceInv, SelectionInv
  <2>3. CASE phase' = "Selected"
    <3>1. held'.baseline = slot
      <4>1. Hold(b) /\ IsEvidence(held)
        BY <2>1, <2>3 DEF IInv, TypeInv
      <4> QED
        BY <2>2, <4>1, EvidenceUpdates DEF Hold
    <3>2. phase' \in Unspoken /\ phase' \notin Live
      BY <2>3 DEF Unspoken, Live
    <3> QED
      BY <1>1, <3>1, <3>2, IdleEvidence
  <2>4. CASE phase' = "Rejected"
    <3>1. \E p \in DOMAIN b.pages : store[p] # b.pages[p].stored
      <4> SUFFICES ASSUME \A p \in DOMAIN b.pages : store[p] = b.pages[p].stored
                   PROVE  FALSE
        OBVIOUS
      <4>1. CASE generation = 0
        <5>1. BaselineHolds(log, highWater, store, b)
          BY <2>2, <4>1, CompleteAccepts DEF IInv, LogInv
        <5> QED
          BY <2>1, <2>4, <4>1, <5>1
      <4>2. CASE generation # 0
        <5>1. AnchoredSelectable(b)
          BY <2>2, <4>2, AnchoredAccepts DEF EvidenceInv
        <5> QED
          BY <2>1, <2>4, <4>2, <5>1
      <4> QED
        BY <4>1, <4>2
    <3>2. RefusedForMovedPages'
      BY <1>1, <3>1 DEF RefusedForMovedPages
    <3>3. CompletionInv' /\ CleanCloseProven' /\ PrunedCleanReopenComplete'
      BY <2>4 DEF CompletionInv, CleanCloseProven, PrunedCleanReopenComplete, Restarting
    <3>4. phase' \notin {"Restored"} \cup Live /\ phase' \notin {"Selected"} \cup Restarting
      BY <2>4 DEF Live, Restarting
    <3> QED
      BY <1>1, <3>2, <3>3, <3>4, EvidenceStep
  <2> QED
    BY <2>1, <2>3, <2>4
<1> QED
  BY <1>2, <1>3

\* So does planning.
LEMMA PlanReplayEvidence ==
    ASSUME IInv, EvidenceInv, PlanReplay
    PROVE  EvidenceInv'
<1>1. /\ UNCHANGED <<log, highWater, generation, anchor, history, slot, cleanSlot, epoch, store>>
      /\ epoch' \in Nat /\ epoch <= epoch' /\ store' \in [Pages -> Nat] /\ phase = "Selected"
  BY DEF PlanReplay, Idle, logVars, slotVars, IInv, TypeInv
<1>2. PICK b : b = TheBaseline
  OBVIOUS
<1>3. /\ slot = {b} /\ held.baseline = {b} /\ (generation # 0 => anchor = {b})
      /\ BaselineTrue(b) /\ PublishedTrue(b)
  BY <1>1, <1>2, HeldBaseline DEF EvidenceInv, SelectionInv, WithBaseline
<1>4. IF IF generation = 0 THEN SelectedPlannable(log, highWater, store, b) ELSE Plannable(b)
      THEN phase' = "Planned" /\ held'.baseline = held.baseline
      ELSE phase' = "PlanningFailed"
  <2>1. IsEvidence(held)
    BY DEF IInv, TypeInv
  <2>2. \A x : held' = [held EXCEPT !.plan = {x}] => held'.baseline = held.baseline
    BY <2>1, EvidenceUpdates
  <2> QED
    BY <1>2, <2>2 DEF PlanReplay, To
<1>5. CASE phase' = "Planned"
  <2>1. held'.baseline = slot
    BY <1>3, <1>4, <1>5
  <2>2. phase' \in Unspoken /\ phase' \notin Live
    BY <1>5 DEF Unspoken, Live
  <2> QED
    BY <1>1, <2>1, <2>2, IdleEvidence
<1>6. CASE phase' # "Planned"
  <2>1. phase' = "PlanningFailed"
    BY <1>4, <1>6
  <2>2. \E p \in DOMAIN b.pages : store[p] # b.pages[p].stored
    <3> SUFFICES ASSUME \A p \in DOMAIN b.pages : store[p] = b.pages[p].stored
                 PROVE  FALSE
      OBVIOUS
    <3>1. CASE generation = 0
      <4>1. SelectedPlannable(log, highWater, store, b)
        BY <1>3, <3>1, SelectedPlans DEF EvidenceInv
      <4> QED
        BY <1>4, <1>6, <3>1, <4>1
    <3>2. CASE generation # 0
      <4>1. Plannable(b)
        BY <1>1, <1>2, HeldPlannable DEF EvidenceInv
      <4> QED
        BY <1>4, <1>6, <3>2, <4>1
    <3> QED
      BY <3>1, <3>2
  <2>3. RefusedForMovedPages'
    BY <1>1, <1>3, <2>2 DEF RefusedForMovedPages
  <2>4. CompletionInv' /\ CleanCloseProven' /\ PrunedCleanReopenComplete'
    BY <2>1 DEF CompletionInv, CleanCloseProven, PrunedCleanReopenComplete, Restarting
  <2>5. phase' \notin {"Restored"} \cup Live /\ phase' \notin {"Selected"} \cup Restarting
    BY <2>1 DEF Live, Restarting
  <2> QED
    BY <1>1, <2>3, <2>4, <2>5, EvidenceStep
<1> QED
  BY <1>5, <1>6

\* And preparation.
LEMMA PrepareRepairsEvidence ==
    ASSUME IInv, EvidenceInv, PrepareRepairs
    PROVE  EvidenceInv'
<1>1. /\ UNCHANGED <<log, highWater, generation, anchor, history, slot, cleanSlot, epoch, store>>
      /\ epoch' \in Nat /\ epoch <= epoch' /\ store' \in [Pages -> Nat] /\ phase = "Planned"
  BY DEF PrepareRepairs, Idle, logVars, slotVars, IInv, TypeInv
<1>2. PICK b, E, plan : b = TheBaseline /\ E = EntriesNow(b) /\ plan = ThePlan
  OBVIOUS
<1>3. /\ slot = {b} /\ held.baseline = {b} /\ (generation # 0 => anchor = {b})
      /\ BaselineTrue(b) /\ PublishedTrue(b) /\ WindowSelectable(log, b.replay)
  BY <1>1, <1>2, HeldBaseline DEF EvidenceInv, SelectionInv, WithBaseline, Restarting
<1>4. plan = Plan(E, log, highWater, b)
  BY <1>1, <1>2, HeldPlan DEF Restarting
<1>5. CASE Preparable(plan, b, store)
  <2>1. /\ phase' = "Prepared" /\ held'.baseline = slot
        /\ held'.repairs = Repairs(plan, b, store)
    <3>1. /\ phase' = "Prepared" /\ IsEvidence(held)
          /\ held' = [held EXCEPT !.repairs = Repairs(plan, b, store)]
      BY <1>2, <1>5 DEF PrepareRepairs, To, IInv, TypeInv
    <3> QED
      BY <1>3, <3>1, EvidenceUpdates
  <2>2. CompletionInv'
    <3>1. \A p \in DOMAIN held'.repairs :
            held'.repairs[p].kind = "AlreadyCurrent" => held'.repairs[p].target = held'.repairs[p].from
      BY <2>1 DEF Repairs, Resolution
    <3> QED
      BY <2>1, <3>1 DEF CompletionInv
  <2>3. RefusedForMovedPages' /\ CleanCloseProven' /\ PrunedCleanReopenComplete'
    BY <2>1 DEF RefusedForMovedPages, CleanCloseProven, PrunedCleanReopenComplete
  <2>4. phase' \notin {"Restored"} \cup Live
    BY <2>1 DEF Live
  <2> QED
    BY <1>1, <2>1, <2>2, <2>3, <2>4, EvidenceStep
<1>6. CASE ~Preparable(plan, b, store)
  <2>1. phase' = "PreparationFailed"
    BY <1>2, <1>6 DEF PrepareRepairs, To
  <2>2. \E p \in DOMAIN b.pages : store[p] # b.pages[p].stored
    BY <1>2, <1>3, <1>4, <1>6, PreparableNow DEF EvidenceInv
  <2>3. RefusedForMovedPages'
    BY <1>1, <1>3, <2>2 DEF RefusedForMovedPages
  <2>4. CompletionInv' /\ CleanCloseProven' /\ PrunedCleanReopenComplete'
    BY <2>1 DEF CompletionInv, CleanCloseProven, PrunedCleanReopenComplete, Restarting
  <2>5. phase' \notin {"Restored"} \cup Live /\ phase' \notin {"Selected"} \cup Restarting
    BY <2>1 DEF Live, Restarting
  <2> QED
    BY <1>1, <2>3, <2>4, <2>5, EvidenceStep
<1> QED
  BY <1>5, <1>6

\* A repair and its retries keep the checkpoint and the repairs.
LEMMA RepairingEvidence ==
    ASSUME IInv, EvidenceInv,
           UNCHANGED <<log, highWater, generation, anchor, history, slot, cleanSlot>>,
           epoch' \in Nat, epoch <= epoch', store' \in [Pages -> Nat],
           \A p \in Pages : store'[p] = store[p] \/ store'[p] \in PositionsIn(log),
           (\E b \in cleanSlot : b.frontier = highWater) => store' = store,
           phase \in Restarting \ {"Planned"},
           phase' \in {"Repairing", "RepairFailed", "Repaired", "RestorationFailed"},
           held'.baseline = held.baseline, held'.repairs = held.repairs
    PROVE  EvidenceInv'
<1>1. held'.baseline = slot
  BY DEF EvidenceInv, SelectionInv
<1>2. CompletionInv'
  BY DEF EvidenceInv, CompletionInv
<1>3. RefusedForMovedPages' /\ CleanCloseProven' /\ PrunedCleanReopenComplete'
  BY DEF RefusedForMovedPages, CleanCloseProven, PrunedCleanReopenComplete
<1>4. phase' \notin {"Restored"} \cup Live
  BY DEF Live
<1> QED
  BY <1>1, <1>2, <1>3, <1>4, EvidenceStep

LEMMA ExecuteEvidence ==
    ASSUME IInv, EvidenceInv, ExecuteRepairs \/ FinishRepairs
    PROVE  EvidenceInv'
<1>1. /\ UNCHANGED <<log, highWater, generation, anchor, history, slot, cleanSlot, epoch, store>>
      /\ epoch' \in Nat /\ epoch <= epoch' /\ store' \in [Pages -> Nat]
  BY DEF ExecuteRepairs, FinishRepairs, Idle, logVars, slotVars, IInv, TypeInv
<1>2. /\ phase \in {"Prepared", "RepairFailed", "Repairing"}
      /\ phase' \in {"Repairing", "Repaired"}
  BY DEF ExecuteRepairs, FinishRepairs, To
<1>3. phase \in Restarting \ {"Planned"}
  BY <1>2 DEF Restarting
<1>4. held'.baseline = held.baseline /\ held'.repairs = held.repairs
  <2>1. IsEvidence(held)
    BY DEF IInv, TypeInv
  <2>2. CASE ExecuteRepairs
    BY <2>1, <2>2, EvidenceUpdates DEF ExecuteRepairs
  <2>3. CASE FinishRepairs
    BY <2>3 DEF FinishRepairs, Idle
  <2> QED
    BY <2>2, <2>3
<1> QED
  BY <1>1, <1>2, <1>3, <1>4, RepairingEvidence

\* A repair writes the last committed image of its page.
LEMMA RepairPageEvidence ==
    ASSUME IInv, EvidenceInv, RepairPage
    PROVE  EvidenceInv'
<1>1. /\ UNCHANGED <<log, highWater, generation, anchor, history, slot, cleanSlot, epoch>>
      /\ epoch' \in Nat /\ epoch <= epoch' /\ phase = "Repairing" /\ held.todo # {}
      /\ store \in [Pages -> Nat] /\ IsEvidence(held)
  BY DEF RepairPage, Idle, logVars, slotVars, IInv, TypeInv
<1>2. /\ RepairsFound /\ held.todo \subseteq DOMAIN held.repairs
      /\ held.plan = {ThePlan} /\ ThePlan = Plan(EntriesNow(TheBaseline), log, highWater, TheBaseline)
  BY <1>1, HeldPlan DEF IInv, HeldInv, RepairsHeld, Restarting
<1>3. DOMAIN held.repairs \subseteq PagesIn(log)
  BY <1>2 DEF RepairsFound, Plan, Window, PagesIn
<1>4. PICK p : p = Earliest(held.todo)
  OBVIOUS
<1>5. p \in held.todo /\ p \in Pages
  BY <1>1, <1>2, <1>3, <1>4, FirstPage
<1>6. PICK shown : shown = [store EXCEPT ![p] = ImageAfter(held.repairs[p], @)]
  OBVIOUS
<1>7. /\ store' = store \/ store' = shown
      /\ phase' \in {"Repairing", "RepairFailed"}
      /\ held' = held \/ held' = [held EXCEPT !.todo = @ \ {p}]
  BY <1>1, <1>4, <1>6 DEF RepairPage, To
<1>8. held'.baseline = held.baseline /\ held'.repairs = held.repairs
  BY <1>1, <1>7, EvidenceUpdates
<1>9. /\ shown \in [Pages -> Nat]
      /\ \A q \in Pages : q # p => shown[q] = store[q]
      /\ shown[p] = store[p] \/ (shown[p] = CommittedAt(p) /\ CommittedAt(p) # 0)
  <2>1. held.repairs[p].kind = "Candidate" =>
          held.repairs[p].target = CommittedAt(p) /\ CommittedAt(p) # 0
    BY <1>2, <1>5 DEF RepairsFound
  <2>2. CommittedAt(p) \in Nat
    BY CommittedAtFacts DEF IInv
  <2> QED
    BY <1>1, <1>5, <1>6, <2>1, <2>2 DEF ImageAfter
<1>10. \A q \in Pages : store'[q] = store[q] \/ store'[q] \in PositionsIn(log)
  BY <1>5, <1>7, <1>9, CommittedRetained DEF EvidenceInv
<1>11. (\E b \in cleanSlot : b.frontier = highWater) => store' = store
  <2> SUFFICES ASSUME \E b \in cleanSlot : b.frontier = highWater PROVE shown = store
    BY <1>7
  <2>1. store[p] = CommittedAt(p)
    BY <1>5 DEF EvidenceInv, CleanInv, NothingToRecover
  <2>2. \A q \in Pages : shown[q] = store[q]
    BY <1>9, <2>1
  <2> QED
    BY <1>1, <1>9, <2>2
<1>12. store' \in [Pages -> Nat] /\ phase \in Restarting \ {"Planned"}
  BY <1>1, <1>7, <1>9 DEF Restarting
<1> QED
  BY <1>1, <1>7, <1>8, <1>10, <1>11, <1>12, RepairingEvidence

\* Complete recovery writes positions of the log, and none where the last
\* committed image is shown already.
LEMMA RecoverPageEvidence ==
    ASSUME IInv, EvidenceInv, RecoverPage
    PROVE  EvidenceInv'
<1>1. /\ UNCHANGED <<log, highWater, generation, anchor, history, slot, cleanSlot, epoch>>
      /\ epoch' \in Nat /\ epoch <= epoch' /\ phase = "FullRecovery" /\ held.todo # {}
      /\ store \in [Pages -> Nat]
  BY DEF RecoverPage, Idle, logVars, slotVars, IInv, TypeInv
<1>2. log = history /\ held.todo \subseteq PagesIn(log)
  BY <1>1 DEF IInv, HeldInv, RecoveryHeld, LogInv
<1>3. PICK p, target : p = Earliest(held.todo) /\ target = Latest(CommittedImages(p))
  OBVIOUS
<1>4. p \in Pages
  BY <1>1, <1>2, <1>3, FirstPage
<1>5. PICK shown : shown = [store EXCEPT ![p] = IF target = 0 THEN @ ELSE target]
  OBVIOUS
<1>6. /\ store' = store \/ (store' = shown /\ Reconciles(p))
      /\ phase' \in {"Stopped", "FullRecovery"}
  BY <1>1, <1>3, <1>5 DEF RecoverPage, To
<1> DEFINE images == CommittedImages(p)
<1>7. \A q \in images : \E r \in log : /\ r.kind = "TransactionPage" /\ r.page = p /\ r.at = q
                                       /\ Committed(Transactions(log), r.by)
  BY DEF CommittedImages
<1>8. /\ Within(log, highWater) /\ Within(history, highWater)
  BY HistoryWithin DEF IInv
<1>9. \A q \in images : q \in 1 .. highWater /\ q \in PositionsIn(log)
  BY <1>7, <1>8, RecordFacts DEF Within, PositionsIn
<1>10. \A q \in images : q <= CommittedAt(p) /\ CommittedAt(p) # 0
  <2> SUFFICES ASSUME NEW q \in images PROVE q <= CommittedAt(p) /\ CommittedAt(p) # 0
    OBVIOUS
  <2>1. PICK r \in history : /\ r.kind = "TransactionPage" /\ r.page = p /\ r.at = q
                             /\ Committed(Transactions(history), r.by)
    BY <1>2, <1>7
  <2>2. DurablyCommitted(r.by)
    <3>1. r.by \in OwnersIn(history) /\ Ever[r.by].commit # 0
      BY <2>1, EverFacts DEF Committed, Ever, IInv
    <3> QED
      BY <3>1, EverFacts DEF IInv
  <2> QED
    BY <2>1, <2>2, CommittedAtFacts DEF Shown, IInv
<1> HIDE DEF images
<1>11. images # {} => target \in images /\ \A q \in images : q <= target
  <2>1. images \in SUBSET (0 .. highWater) /\ highWater \in Nat
    BY <1>8, <1>9 DEF Within
  <2> QED
    BY <1>3, <2>1, LatestIsLast DEF IsLatest, images
<1>12. images = {} => target = 0
  BY <1>3 DEF images, Latest
<1>13. /\ shown \in [Pages -> Nat]
       /\ \A q \in Pages : q # p => shown[q] = store[q]
       /\ shown[p] = IF target = 0 THEN store[p] ELSE target
  <2>1. target \in Nat
    BY <1>9, <1>11, <1>12
  <2> QED
    BY <1>1, <1>4, <1>5, <2>1
<1>14. \A q \in Pages : store'[q] = store[q] \/ store'[q] \in PositionsIn(log)
  BY <1>4, <1>6, <1>9, <1>11, <1>12, <1>13
<1>15. (\E b \in cleanSlot : b.frontier = highWater) => store' = store
  <2> SUFFICES ASSUME \E b \in cleanSlot : b.frontier = highWater, Reconciles(p) PROVE shown = store
    BY <1>6
  <2>1. store[p] = CommittedAt(p)
    BY <1>4 DEF EvidenceInv, CleanInv, NothingToRecover
  <2>2. store[p] \in images \/ store[p] = 0
    BY DEF Reconciles, images
  <2>3. images # {} => target = store[p]
    <3> SUFFICES ASSUME images # {} PROVE target = store[p]
      OBVIOUS
    <3>1. target <= store[p] /\ store[p] # 0
      BY <1>10, <1>11, <2>1
    <3>2. store[p] <= target
      BY <1>11, <2>2, <3>1
    <3> QED
      BY <1>1, <1>4, <1>9, <1>11, <3>1, <3>2
  <2>4. shown[p] = store[p]
    BY <1>12, <1>13, <2>3
  <2>5. \A q \in Pages : shown[q] = store[q]
    BY <1>13, <2>4
  <2> QED
    BY <1>1, <1>13, <2>5
<1>16. store' \in [Pages -> Nat]
  BY <1>1, <1>6, <1>13
<1>17. /\ phase' \in Unspoken /\ phase' \notin {"Restored"} \cup Live
       /\ phase' \notin {"Selected"} \cup Restarting
  BY <1>6 DEF Unspoken, Live, Restarting
<1>18. RefusedForMovedPages' /\ CompletionInv' /\ CleanCloseProven' /\ PrunedCleanReopenComplete'
  BY <1>17, UnspokenHolds
<1> QED
  BY <1>1, <1>14, <1>15, <1>16, <1>17, <1>18, EvidenceStep

\* A page that is flushed shows a record of the log; a candidate that is still
\* at the high water left nobody a page to flush.
LEMMA FlushEvidence ==
    ASSUME IInv, EvidenceInv, NEW r \in coordinator.dirty, FlushPage(r)
    PROVE  EvidenceInv'
<1>1. /\ UNCHANGED <<log, highWater, generation, anchor, history, slot, cleanSlot, epoch>>
      /\ epoch' \in Nat /\ epoch <= epoch' /\ phase \in Live /\ phase' = phase
      /\ store \in [Pages -> Nat] /\ store' = [store EXCEPT ![r.page] = r.at]
  BY DEF FlushPage, Idle, logVars, slotVars, IInv, TypeInv
<1>2. r \in log /\ r.page \in Pages /\ r.at \in Nat
  <2>1. r \in log /\ r \in Records /\ r.kind \in {"Page", "TransactionPage"}
    BY DEF IInv, TypeInv, LifecycleInv, Dirtied
  <2> QED
    BY <2>1, RecordFacts
<1>3. \A p \in Pages : store'[p] = store[p] \/ store'[p] \in PositionsIn(log)
  BY <1>1, <1>2 DEF PositionsIn
<1>4. ~\E b \in cleanSlot : b.frontier = highWater
  BY <1>1 DEF EvidenceInv, CleanInv
<1>5. coordinator'.dirty \subseteq coordinator.dirty
  BY DEF FlushPage, IInv, TypeInv, IsCoordinator
<1>6. phase' \in Unspoken /\ phase' \notin {"Selected"} \cup Restarting
  BY <1>1 DEF Unspoken, Live, Restarting
<1>7. RefusedForMovedPages' /\ CompletionInv' /\ CleanCloseProven' /\ PrunedCleanReopenComplete'
  BY <1>6, UnspokenHolds
<1>8. store' \in [Pages -> Nat]
  BY <1>1, <1>2
<1> QED
  BY <1>1, <1>3, <1>4, <1>5, <1>6, <1>7, <1>8, EvidenceStep

\* The new coordinator has an epoch that no evidence names, and nothing in hand.
LEMMA RestoreEvidence ==
    ASSUME IInv, EvidenceInv, RestoreTransactions
    PROVE  EvidenceInv'
<1>1. /\ UNCHANGED <<log, highWater, generation, anchor, history, slot, cleanSlot, store, held>>
      /\ epoch' \in Nat /\ epoch <= epoch' /\ store' \in [Pages -> Nat]
      /\ phase \in Restarting \ {"Planned"}
  BY DEF RestoreTransactions, slotVars, IInv, TypeInv, Restarting
<1>2. \/ phase' = "Stopped" \/ phase' = "RestorationFailed"
      \/ /\ phase' = "Restored" /\ coordinator' = NewCoordinator(epoch + 1)
         /\ epoch + 1 > PersistedEpoch(TheBaseline, ThePlan.entries)
  BY DEF RestoreTransactions, To
<1>3. CASE phase' = "Stopped"
  <2>1. /\ phase' \in Unspoken /\ phase' \notin {"Restored"} \cup Live
        /\ phase' \notin {"Selected"} \cup Restarting
    BY <1>3 DEF Unspoken, Live, Restarting
  <2>2. RefusedForMovedPages' /\ CompletionInv' /\ CleanCloseProven' /\ PrunedCleanReopenComplete'
    BY <2>1, UnspokenHolds
  <2> QED
    BY <1>1, <2>1, <2>2, EvidenceStep
<1>4. CASE phase' = "RestorationFailed"
  BY <1>1, <1>4, RepairingEvidence
<1>5. CASE phase' = "Restored"
  <2>1. /\ coordinator' = NewCoordinator(epoch + 1)
        /\ epoch + 1 > PersistedEpoch(TheBaseline, ThePlan.entries)
    BY <1>2, <1>5
  <2>2. /\ coordinator'.dirty = {} /\ coordinator'.epoch = epoch + 1
        /\ coordinator'.next = 1 /\ coordinator'.lifecycles = <<>>
    BY <2>1, FreshCoordinator
  <2>3. held'.baseline = slot
    BY <1>1 DEF EvidenceInv, SelectionInv
  <2>4. CompletionInv'
    <3>1. TheBaseline' = TheBaseline /\ ThePlan' = ThePlan
      BY <1>1 DEF TheBaseline, ThePlan
    <3> QED
      BY <1>1, <2>1, <2>2, <3>1 DEF CompletionInv, EvidenceInv, Pristine
  <2>5. RefusedForMovedPages' /\ CleanCloseProven' /\ PrunedCleanReopenComplete'
    BY <1>5 DEF RefusedForMovedPages, CleanCloseProven, PrunedCleanReopenComplete
  <2> QED
    BY <1>1, <2>2, <2>3, <2>4, <2>5, EvidenceStep
<1> QED
  BY <1>2, <1>3, <1>4, <1>5

\* A reclaimed log only reopens for a candidate at the high water.
LEMMA ValidateEvidence ==
    ASSUME IInv, EvidenceInv, ValidateCleanReopen
    PROVE  EvidenceInv'
<1>1. /\ UNCHANGED <<log, highWater, generation, anchor, history, slot, cleanSlot, epoch, store>>
      /\ epoch' \in Nat /\ epoch <= epoch' /\ store' \in [Pages -> Nat]
      /\ phase' \in {"CleanReopened", "CleanRefused"}
  BY DEF ValidateCleanReopen, To, Idle, logVars, slotVars, IInv, TypeInv
<1>2. PrunedCleanReopenComplete'
  <2> SUFFICES ASSUME phase' = "CleanReopened", generation > 0
               PROVE  NothingToRecover'
    BY <1>1 DEF PrunedCleanReopenComplete
  <2>1. PICK b \in cleanSlot : CleanReopenValid(Metadata, log, highWater, b, store)
    BY DEF ValidateCleanReopen, To
  <2>2. generation # 0 /\ Metadata.generation = generation /\ Metadata.highWater = highWater
    BY DEF Metadata, IInv, TypeInv
  <2>3. b.frontier = highWater
    BY <2>1, <2>2 DEF CleanReopenValid, PrunedReopenValid
  <2>4. NothingToRecover
    BY <2>3 DEF EvidenceInv, CleanInv
  <2>5. /\ \A p : CommittedAt(p)' = CommittedAt(p)
        /\ \A t : DurablyCommitted(t)' <=> DurablyCommitted(t)
    BY <1>1, RecordsKept
  <2> QED
    BY <1>1, <2>4, <2>5 DEF NothingToRecover
<1>3. RefusedForMovedPages' /\ CompletionInv' /\ CleanCloseProven'
  BY <1>1 DEF RefusedForMovedPages, CompletionInv, CleanCloseProven, Restarting
<1>4. phase' \notin {"Restored"} \cup Live /\ phase' \notin {"Selected"} \cup Restarting
  BY <1>1 DEF Live, Restarting
<1> QED
  BY <1>1, <1>2, <1>3, <1>4, EvidenceStep

----------------------------------------------------------------------------
(* Steps that publish, append or reclaim.                                   *)

\* What a complete log publishes is the analysis of its records over the images
\* that it notes down.
LEMMA CompletenessPublished ==
    ASSUME IInv, log = history, CompleteAnalyzable(log, highWater, store),
           NEW b, b = Completeness(log, highWater, store)
    PROVE  /\ PublishedTrue(b) /\ b.frontier = highWater
           /\ WindowSelectable(log, b.replay)
<1>1. PICK E : E = Transactions(log)
  OBVIOUS
<1>2. /\ b.frontier = highWater /\ b.pages = PageStates(E, log, {}, store)
  BY <1>1 DEF Completeness, Derived
<1>3. DOMAIN b.pages = PagesIn(log)
  BY <1>2 DEF PageStates, Inventory
<1>4. \A p \in PagesIn(log) : StoredBy(b)[p] = store[p]
  BY <1>2, <1>3 DEF StoredBy, PageStates, PageState, Inventory
<1>5. PageStates(E, log, {}, StoredBy(b)) = PageStates(E, log, {}, store)
  BY <1>4 DEF PageStates, Inventory
<1>6. Completeness(log, highWater, StoredBy(b)) = b
  BY <1>1, <1>5 DEF Completeness, Derived
<1>7. CompleteAnalyzable(log, highWater, StoredBy(b))
  BY <1>4 DEF CompleteAnalyzable, Derivable, Inventory
<1>8. Prefix(history, b.frontier) = log
  BY <1>2, HistoryWithin DEF Prefix, Within, IInv
<1>9. PublishedTrue(b)
  BY <1>2, <1>6, <1>7, <1>8 DEF PublishedTrue
<1>10. WindowSelectable(log, b.replay)
  BY <1>9, ReplayAtRecord DEF IInv
<1> QED
  BY <1>2, <1>9, <1>10

LEMMA PublishEvidence ==
    ASSUME IInv, EvidenceInv, PublishCheckpoint
    PROVE  EvidenceInv'
<1>1. /\ UNCHANGED <<log, highWater, generation, anchor, history, cleanSlot, epoch, store, phase, held, coordinator>>
      /\ epoch' \in Nat /\ epoch <= epoch' /\ store' \in [Pages -> Nat]
      /\ phase \in {"Recovered", "Completed"} /\ generation = 0 /\ log = history
  BY DEF PublishCheckpoint, Publishable, Idle, logVars, slotVars, IInv, TypeInv, LogInv
<1>2. PICK b : b = Completeness(log, highWater, store)
  OBVIOUS
<1>3. PublishedTrue(b) /\ WindowSelectable(log, b.replay)
  BY <1>1, <1>2, CompletenessPublished DEF PublishCheckpoint, Publishable
<1>4. slot' = slot \/ slot' = {b}
  BY <1>2 DEF PublishCheckpoint, Published
<1>5. RecordsInv'
  BY <1>1 DEF EvidenceInv, RecordsInv
<1>6. SelectionInv'
  <2>1. \A c : PublishedTrue(c)' <=> PublishedTrue(c)
    BY <1>1 DEF PublishedTrue
  <2> QED
    BY <1>1, <1>3, <1>4, <2>1 DEF EvidenceInv, SelectionInv, Restarting
<1>7. CleanInv'
  <2>1. /\ \A p : CommittedAt(p)' = CommittedAt(p)
        /\ \A t : DurablyCommitted(t)' <=> DurablyCommitted(t)
    BY <1>1, RecordsKept
  <2>2. NothingToRecover' <=> NothingToRecover
    BY <1>1, <2>1 DEF NothingToRecover
  <2> QED
    BY <1>1, <2>2 DEF EvidenceInv, CleanInv
<1>8. phase' \in Unspoken
  BY <1>1 DEF Unspoken
<1> QED
  BY <1>5, <1>6, <1>7, <1>8, UnspokenHolds DEF EvidenceInv

\* An append moves the high water past every candidate, and no prefix changes.
LEMMA AppendEvidence ==
    ASSUME IInv, EvidenceInv, NEW r, r.at = highWater + 1,
           Append(r) \/ UNCHANGED <<logVars, history>>,
           phase \in Live, UNCHANGED <<store, slot, cleanSlot, phase>>,
           Append(r) \/ coordinator'.dirty = coordinator.dirty
    PROVE  EvidenceInv'
<1>1. phase' \in Unspoken /\ phase' \in Live /\ phase' \notin {"Selected"} \cup Restarting
  BY DEF Unspoken, Live, Restarting
<1>2. CASE UNCHANGED <<logVars, history>> /\ coordinator'.dirty = coordinator.dirty
  BY <1>1, <1>2, IdleEvidence DEF logVars, Restarting
<1>3. CASE Append(r)
  <2>1. /\ log' = log \cup {r} /\ history' = history \cup {r} /\ highWater' = highWater + 1
        /\ UNCHANGED <<generation, anchor, store, slot, cleanSlot>> /\ highWater \in Nat
    BY <1>3 DEF Append, IInv, TypeInv
  <2>2. RecordsInv'
    BY <2>1 DEF EvidenceInv, RecordsInv, PositionsIn
  <2>3. \A b \in slot : PublishedTrue(b)'
    <3> SUFFICES ASSUME NEW b \in slot PROVE PublishedTrue(b)'
      OBVIOUS
    <3>1. b.frontier \in 0 .. highWater /\ PublishedTrue(b)
      BY DEF IInv, SlotInv, BaselineTrue, EvidenceInv, SelectionInv
    <3>2. Prefix(history', b.frontier) = Prefix(history, b.frontier)
      BY <2>1, <3>1 DEF Prefix
    <3> QED
      BY <3>1, <3>2 DEF PublishedTrue
  <2>4. SelectionInv'
    <3>1. \A b \in slot : WindowSelectable(log', b.replay)
      BY <2>1 DEF EvidenceInv, SelectionInv, WindowSelectable, PositionsIn
    <3> QED
      BY <1>1, <2>1, <2>3, <3>1 DEF EvidenceInv, SelectionInv
  <2>5. CleanInv'
    <3>1. \A b \in cleanSlot : b.frontier \in 0 .. highWater
      BY DEF EvidenceInv, CleanInv
    <3>2. \A b \in cleanSlot : b.frontier \in 0 .. highWater' /\ b.frontier # highWater'
      BY <2>1, <3>1
    <3> QED
      BY <2>1, <3>2 DEF CleanInv
  <2> QED
    BY <1>1, <2>2, <2>4, <2>5, UnspokenHolds DEF EvidenceInv
<1> QED
  BY <1>2, <1>3 DEF Append

LEMMA LiveAppendEvidence ==
    ASSUME IInv, EvidenceInv,
           \/ \E t \in DOMAIN coordinator.lifecycles :
                Commit(t) \/ \E p \in Pages : StagePageWrite(t, p)
           \/ \E p \in Pages : WriteRawPage(p)
    PROVE  EvidenceInv'
<1>1. IsCoordinator(coordinator)
  BY DEF IInv, TypeInv
<1>2. ASSUME NEW t \in DOMAIN coordinator.lifecycles, Commit(t)
      PROVE  EvidenceInv'
  <2>1. CommitRecord(NextPosition, t).at = highWater + 1
    BY DEF CommitRecord, NextPosition
  <2>2. /\ phase \in Live /\ UNCHANGED <<store, slot, cleanSlot, phase>>
        /\ \/ Append(CommitRecord(NextPosition, t))
           \/ UNCHANGED <<logVars, history>>
        /\ \E status : Moved(t, status)
    BY <1>2 DEF Commit, MayAppend, slotVars
  <2>3. coordinator'.dirty = coordinator.dirty
    BY <1>1, <2>2 DEF Moved, IsCoordinator
  <2> QED
    BY <2>1, <2>2, <2>3, AppendEvidence
<1>3. ASSUME NEW t \in DOMAIN coordinator.lifecycles, NEW p \in Pages, StagePageWrite(t, p)
      PROVE  EvidenceInv'
  <2>1. PICK r : r = TransactionPageRecord(NextPosition, p, t)
    OBVIOUS
  <2>2. r.at = highWater + 1
    BY <2>1 DEF TransactionPageRecord, NextPosition
  <2>3. phase \in Live /\ UNCHANGED <<store, slot, cleanSlot, phase>>
    BY <1>3 DEF StagePageWrite, slotVars
  <2>4. \/ Append(r)
        \/ /\ UNCHANGED <<logVars, history>>
           /\ coordinator' = [[coordinator EXCEPT !.staged = @ \cup {<<t, p>>}]
                                 EXCEPT !.lifecycles[t] = "PageAppendIndeterminate"]
    BY <1>3, <2>1 DEF StagePageWrite, MayAppend
  <2>5. Append(r) \/ (UNCHANGED <<logVars, history>> /\ coordinator'.dirty = coordinator.dirty)
    BY <1>1, <2>4 DEF IsCoordinator
  <2> QED
    BY <2>2, <2>3, <2>5, AppendEvidence
<1>4. ASSUME NEW p \in Pages, WriteRawPage(p)
      PROVE  EvidenceInv'
  <2>1. PageRecord(NextPosition, p).at = highWater + 1
    BY DEF PageRecord, NextPosition
  <2>2. /\ phase \in Live /\ UNCHANGED <<store, slot, cleanSlot, phase>>
        /\ Append(PageRecord(NextPosition, p))
    BY <1>4 DEF WriteRawPage, slotVars
  <2> QED
    BY <2>1, <2>2, AppendEvidence
<1> QED
  BY <1>2, <1>3, <1>4

\* Replay starts at a record, or after the frontier.
LEMMA ReplayKinds ==
    ASSUME NEW E, NEW pages, NEW frontier
    PROVE  LET start == ReplayStart(E, pages, frontier) IN
           start.kind = "AtPosition" \/ start.at = frontier
<1>1. PICK floor : floor = {E[t].first : t \in Unresolved(E)}
                   \cup {pages[p].required.at : p \in {q \in DOMAIN pages : Lagging(pages[q])}}
  OBVIOUS
<1>2. ReplayStart(E, pages, frontier) =
          IF floor = {} THEN [kind |-> "AfterFrontier", at |-> frontier]
          ELSE [kind |-> "AtPosition", at |-> Earliest(floor)]
  BY <1>1 DEF ReplayStart
<1> QED
  BY ONLY <1>2

\* What retention requires stays: the anchored frontier, the start of its
\* window, and the record of every image in the store.
LEMMA RequirementsKept ==
    ASSUME IInv, phase = "Analyzed", NEW b, b = TheBaseline, Retainable,
           NEW floor, floor = RetentionNow.floor
    PROVE  /\ \A p \in Pages : store[p] # 0 => store[p] \in PositionsIn(RetainedFrom(log, floor))
           /\ WindowSelectable(RetainedFrom(log, floor), b.replay)
<1>0. PICK E : E = EntriesNow(b)
  OBVIOUS
<1> DEFINE needed == Requirements(b, E, store)
<1>1. /\ \A q \in needed : q \in PositionsIn(log)
      /\ floor = Earliest(needed)
  BY <1>0 DEF Retainable, RetentionDerivable, Requirable, RetentionNow, Retention
<1>2. \A r \in log : r.at \in Nat \ {0}
  BY RecordFacts DEF IInv, TypeInv
<1>3. needed \in SUBSET (Nat \ {0})
  BY <1>1, <1>2 DEF PositionsIn
<1>4. /\ \A p \in Pages : store[p] # 0 => store[p] \in needed
      /\ b.frontier # 0 => b.frontier \in needed
      /\ b.replay.kind = "AtPosition" /\ b.replay.at # 0 => b.replay.at \in needed
  BY DEF Requirements, IInv, TypeInv
<1> HIDE DEF needed
<1>5. ASSUME NEW q \in needed
      PROVE  q \in PositionsIn(RetainedFrom(log, floor))
  <2>1. floor \in Nat \ {0} /\ floor <= q
    <3>1. needed \in SUBSET Nat /\ needed # {}
      BY <1>3
    <3>2. IsEarliest(floor, needed)
      BY <1>1, <3>1, EarliestIsFirst
    <3> QED
      BY <1>3, <3>2 DEF IsEarliest
  <2>2. PICK r \in log : r.at = q
    BY <1>1 DEF PositionsIn
  <2> QED
    BY <2>1, <2>2 DEF PositionsIn, RetainedFrom
<1>6. b.replay.kind = "AtPosition" \/ b.replay.at = b.frontier
  <2>1. BaselineTrue(b)
    BY HeldBaseline DEF WithBaseline, Live
  <2>2. b.replay = ReplayStart(b.entries, b.pages, b.frontier)
    BY ONLY <2>1 DEF BaselineTrue
  <2> QED
    BY ONLY <2>2, ReplayKinds
<1>7. b.replay.at # 0 => b.replay.at \in needed
  BY <1>4, <1>6
<1> QED
  BY <1>4, <1>5, <1>7 DEF WindowSelectable

LEMMA ReclaimEvidence ==
    ASSUME IInv, EvidenceInv, ReclaimWalPrefix
    PROVE  EvidenceInv'
<1>0. PICK b, floor : b = TheBaseline /\ floor = RetentionNow.floor
  OBVIOUS
<1> DEFINE kept == RetainedFrom(log, floor)
<1>1. /\ UNCHANGED <<store, slot, cleanSlot, held, coordinator, history>> /\ phase = "Analyzed"
      /\ phase' \in {"Reclaimed", "Stopped"}
      /\ \/ UNCHANGED <<log, highWater, generation, anchor, epoch>>
         \/ /\ Retainable /\ slot = held.baseline
            /\ log' = kept /\ anchor' = {b}
            /\ UNCHANGED <<highWater, epoch>>
  <2>1. ASSUME NEW retention, Reclaimable(retention), InstallReclaimed(retention)
        PROVE  /\ Retainable /\ slot = held.baseline /\ log' = kept /\ anchor' = {b}
               /\ UNCHANGED <<highWater, epoch>>
    <3>1. Retainable /\ retention.floor = floor /\ slot = held.baseline
      BY <1>0, <2>1 DEF Reclaimable
    <3>2. MetadataAfter(retention, Metadata, TheBaseline).anchor = {b}
      BY <1>0 DEF MetadataAfter
    <3> QED
      BY <2>1, <3>1, <3>2 DEF InstallReclaimed
  <2> HIDE DEF kept
  <2> QED
    BY <2>1 DEF ReclaimWalPrefix, To, logVars, slotVars
<1>2. /\ phase' \in Unspoken /\ phase' \notin {"Selected"} \cup Restarting /\ phase' # "Restored"
      /\ phase \in Live
  BY <1>1 DEF Unspoken, Live, Restarting
<1>3. CASE UNCHANGED <<log, highWater, generation, anchor, epoch>>
  BY <1>1, <1>2, <1>3, IdleEvidence DEF Restarting
<1>4. CASE /\ Retainable /\ slot = held.baseline
           /\ log' = kept /\ anchor' = {b}
           /\ UNCHANGED <<highWater, epoch>>
  <2>1. /\ \A p \in Pages : store[p] # 0 => store[p] \in PositionsIn(kept)
        /\ WindowSelectable(kept, b.replay)
    BY <1>0, <1>1, <1>4, RequirementsKept
  <2>2. slot = {b} /\ PublishedTrue(b)
    <3>1. held.baseline = {b}
      BY <1>0, <1>2, HeldBaseline DEF WithBaseline
    <3> QED
      BY <1>4, <3>1 DEF EvidenceInv, SelectionInv
  <2> HIDE DEF kept
  <2>3. RecordsInv'
    BY <1>1, <1>4, <2>1 DEF EvidenceInv, RecordsInv
  <2>4. SelectionInv'
    <3>1. PublishedTrue(b)'
      BY <1>1, <2>2 DEF PublishedTrue
    <3> QED
      BY <1>1, <1>2, <1>4, <2>1, <2>2, <3>1 DEF SelectionInv
  <2>5. CleanInv'
    <3>1. NothingToRecover' <=> NothingToRecover
      BY <1>1 DEF NothingToRecover, DurablyCommitted, CommittedAt, Shown
    <3> QED
      BY <1>1, <1>2, <1>4, <3>1 DEF EvidenceInv, CleanInv
  <2> QED
    BY <1>2, <2>3, <2>4, <2>5, UnspokenHolds DEF EvidenceInv
<1> QED
  BY <1>1, <1>3, <1>4

\* A clean close publishes what the next open derives again.
LEMMA CloseEvidence ==
    ASSUME IInv, EvidenceInv, PrepareCleanClose
    PROVE  EvidenceInv'
<1>0. PICK c : c = CurrentBaseline
  OBVIOUS
<1>1. /\ UNCHANGED <<log, highWater, generation, anchor, epoch, history, store, slot, held, coordinator>>
      /\ phase = "Analyzed" /\ phase' \in {"Closed", "Stopped"}
      /\ \/ phase' = "Stopped" /\ UNCHANGED cleanSlot
         \/ /\ cleanSlot' = {c} /\ CurrentDerivable
            /\ Closable(coordinator, coordinator.staged, c, Metadata)
  BY <1>0 DEF PrepareCleanClose, To, Idle, logVars, slotVars
<1>2. CASE phase' = "Stopped" /\ UNCHANGED cleanSlot
  <2>1. phase' \in Unspoken /\ phase' \notin Live /\ phase' \notin {"Selected", "Planned"}
    BY <1>2 DEF Unspoken, Live
  <2> QED
    BY <1>1, <1>2, <2>1, IdleEvidence
<1>3. CASE /\ cleanSlot' = {c} /\ CurrentDerivable
           /\ Closable(coordinator, coordinator.staged, c, Metadata)
  <2>1. BaselineClean(c) /\ CleanMetadata(c, Metadata)
    BY <1>3 DEF Closable
  <2>2. NothingToRecover
    BY <1>0, <1>1, <2>1, NothingLeft
  <2>3. NothingToRecover'
    <3>1. NothingToRecover' <=> NothingToRecover
      BY <1>1 DEF NothingToRecover, DurablyCommitted, CommittedAt, Shown
    <3> QED
      BY <2>2, <3>1
  <2>4. CleanReopenValid(Metadata, log, highWater, c, store)
    <3>1. CASE generation = 0
      <4>1. BaselineHolds(log, highWater, store, c)
        BY <1>0, <1>1, <1>3, <3>1, CompleteReopens
      <4>2. Metadata.generation = 0
        BY <3>1 DEF Metadata
      <4> QED
        BY <2>1, <4>1, <4>2 DEF CleanReopenValid
    <3>2. CASE generation # 0
      <4>1. PrunedReopenValid(Metadata, log, c, store)
        BY <1>0, <1>1, <1>3, <2>1, <3>2, PrunedReopens
      <4>2. Metadata.generation # 0
        BY <3>2 DEF Metadata
      <4> QED
        BY <2>1, <4>1, <4>2 DEF CleanReopenValid
    <3> QED
      BY <3>1, <3>2
  <2>5. CleanCloseProven'
    <3>1. Metadata' = Metadata
      BY <1>1 DEF Metadata
    <3> QED
      BY <1>1, <1>3, <2>3, <2>4, <3>1 DEF CleanCloseProven
  <2>6. c.frontier = highWater /\ highWater \in Nat
    BY <1>0 DEF CurrentBaseline, Derived, IInv, TypeInv
  <2>7. phase' \notin {"Restored"} \cup Live /\ phase' \notin {"Selected"} \cup Restarting
    BY <1>1 DEF Live, Restarting
  <2>8. CleanInv'
    BY <1>1, <1>3, <2>3, <2>6, <2>7 DEF CleanInv
  <2>9. RecordsInv'
    BY <1>1 DEF EvidenceInv, RecordsInv
  <2>10. SelectionInv'
    <3>1. \A b : PublishedTrue(b)' <=> PublishedTrue(b)
      BY <1>1 DEF PublishedTrue
    <3> QED
      BY <1>1, <2>7, <3>1 DEF EvidenceInv, SelectionInv
  <2>11. RefusedForMovedPages' /\ CompletionInv' /\ PrunedCleanReopenComplete'
    BY <1>1 DEF RefusedForMovedPages, CompletionInv, PrunedCleanReopenComplete, Restarting
  <2> QED
    BY <2>5, <2>8, <2>9, <2>10, <2>11 DEF EvidenceInv
<1> QED
  BY <1>1, <1>2, <1>3

----------------------------------------------------------------------------
(* The invariant.                                                           *)

LEMMA StutterEvidence ==
    ASSUME IInv, EvidenceInv, UNCHANGED vars
    PROVE  EvidenceInv'
<1>1. /\ UNCHANGED <<log, highWater, generation, anchor, history, slot, cleanSlot, epoch, store,
                    phase, held, coordinator>>
      /\ epoch' \in Nat /\ epoch <= epoch' /\ store' \in [Pages -> Nat]
  BY DEF vars, logVars, slotVars, IInv, TypeInv
<1>2. TheBaseline' = TheBaseline /\ ThePlan' = ThePlan /\ Metadata' = Metadata
  BY <1>1 DEF TheBaseline, ThePlan, Metadata
<1>3. NothingToRecover' <=> NothingToRecover
  BY <1>1 DEF NothingToRecover, DurablyCommitted, CommittedAt, Shown
<1>4. RefusedForMovedPages' /\ CompletionInv' /\ CleanCloseProven' /\ PrunedCleanReopenComplete'
  BY <1>1, <1>2, <1>3 DEF EvidenceInv, RefusedForMovedPages, CompletionInv, CleanCloseProven,
                          PrunedCleanReopenComplete
<1>5. phase' \in {"Selected"} \cup Restarting => held'.baseline = slot
  BY <1>1 DEF EvidenceInv, SelectionInv
<1> QED
  BY <1>1, <1>4, <1>5, EvidenceStep

LEMMA InitEvidence ==
    ASSUME Init
    PROVE  EvidenceInv
<1>1. /\ log = {} /\ highWater = 0 /\ generation = 0 /\ slot = {} /\ cleanSlot = {}
      /\ store = [p \in Pages |-> 0] /\ phase = "Unchecked"
  BY DEF Init
<1>2. RecordsInv
  BY <1>1 DEF RecordsInv
<1> QED
  BY <1>1, <1>2 DEF EvidenceInv, SelectionInv, RefusedForMovedPages, CompletionInv, CleanInv,
                    CleanCloseProven, PrunedCleanReopenComplete, Restarting

LEMMA NextEvidence ==
    ASSUME IInv, EvidenceInv, [Next]_vars
    PROVE  EvidenceInv'
<1>1. CASE RestartStep
  BY <1>1, SelectEvidence, PlanReplayEvidence, PrepareRepairsEvidence, ExecuteEvidence,
     RepairPageEvidence, RestoreEvidence, IdleTransitions DEF RestartStep
<1>2. CASE FallbackStep
  BY <1>2, RecoverPageEvidence, IdleTransitions DEF FallbackStep
<1>3. CASE LiveStep
  <2>1. CASE BeginTransaction
    BY <2>1, IdleTransitions
  <2>2. CASE \E t \in DOMAIN coordinator.lifecycles : Resolve(t)
    BY <2>2, IdleTransitions
  <2>3. CASE \/ \E t \in DOMAIN coordinator.lifecycles :
                  Commit(t) \/ \E p \in Pages : StagePageWrite(t, p)
             \/ \E p \in Pages : WriteRawPage(p)
    BY <2>3, LiveAppendEvidence
  <2>4. CASE \E r \in coordinator.dirty : FlushPage(r)
    BY <2>4, FlushEvidence
  <2> QED
    BY <1>3, <2>1, <2>2, <2>3, <2>4 DEF LiveStep
<1>4. CASE PublishCheckpoint
  BY <1>4, PublishEvidence
<1>5. CASE AnalyzeRetention \/ Crash
  BY <1>5, IdleTransitions
<1>6. CASE ReclaimWalPrefix
  BY <1>6, ReclaimEvidence
<1>7. CASE PrepareCleanClose
  BY <1>7, CloseEvidence
<1>8. CASE ValidateCleanReopen
  BY <1>8, ValidateEvidence
<1>9. CASE UNCHANGED vars
  BY <1>9, StutterEvidence
<1> QED
  BY <1>1, <1>2, <1>3, <1>4, <1>5, <1>6, <1>7, <1>8, <1>9 DEF Next

\* The evidence stays acceptable, however often the log is reclaimed, an adapter
\* fails or the process crashes.
THEOREM EvidenceInvariantHolds == Spec => [](IInv /\ EvidenceInv)
<1>1. Init => IInv /\ EvidenceInv
  BY InitHolds, InitEvidence
<1>2. IInv /\ EvidenceInv /\ [Next]_vars => IInv' /\ EvidenceInv'
  BY NextPreserves, NextEvidence
<1> QED
  BY <1>1, <1>2, PTL DEF Spec

\* The restart pipeline refuses a checkpoint only because a page that it
\* describes moved since; restoration and completion refuse nothing.
THEOREM RestartsRefusedOnlyForMovedPages == Spec => []RestartRefusedOnlyForMovedPages
<1>1. IInv /\ EvidenceInv => RestartRefusedOnlyForMovedPages
  <2> SUFFICES ASSUME IInv, EvidenceInv
               PROVE  RestartRefusedOnlyForMovedPages
    OBVIOUS
  <2>1. phase \in {"Repaired", "RestorationFailed"} =>
          RestorationEvidence(TheBaseline, ThePlan.frontier, ThePlan.entries)
    BY PlannedRestores DEF Restarting
  <2>2. phase = "Restored" => Completable
    BY RestoredCompletes DEF EvidenceInv
  <2> QED
    BY <2>1, <2>2 DEF RestartRefusedOnlyForMovedPages, EvidenceInv, RefusedForMovedPages
<1> QED
  BY <1>1, EvidenceInvariantHolds, PTL

\* A clean close leaves nothing to recover and publishes a candidate that the
\* next open accepts, over a complete log and over a reclaimed one.
THEOREM CleanCloseAlwaysProven == Spec => []CleanCloseProven
<1>1. EvidenceInv => CleanCloseProven
  BY DEF EvidenceInv
<1> QED
  BY <1>1, EvidenceInvariantHolds, PTL

\* Over a reclaimed log, a clean reopen never accepts a candidate that live work
\* of a later life has outrun.
THEOREM PrunedReopenAlwaysComplete == Spec => []PrunedCleanReopenComplete
<1>1. EvidenceInv => PrunedCleanReopenComplete
  BY DEF EvidenceInv
<1> QED
  BY <1>1, EvidenceInvariantHolds, PTL
=============================================================================
